------------------------------ MODULE ToolsProof ----------------------------
(***************************************************************************)
(* Proofs about Distribution and Analysis, for any tables, calls, buckets  *)
(* and limits.                                                             *)
(***************************************************************************)
EXTENDS Analysis, FiniteSetTheorems, TLAPS

-----------------------------------------------------------------------------
(* Sums, orders and counts                                                 *)

(* The sum of the sizes of disjoint classes is the size of their union:    *)
(* that size meets the equation of the fold, and no other function does.   *)
LEMMA SumOfClasses ==
  ASSUME NEW T, IsFiniteSet(T), NEW h, NEW D, IsFiniteSet(D), NEW c \in [T -> SUBSET D],
         \A x, y \in T : x # y => c[x] \cap c[y] = {},
         \A x \in T : h[x] = Cardinality(c[x])
  PROVE  SumFunctionOnSet(h, T) = Cardinality(UNION {c[x] : x \in T})
<1> DEFINE All(s)  == UNION {c[x] : x \in s}
           Pick(s) == CHOOSE x \in s : TRUE
           g       == [s \in SUBSET T |-> Cardinality(All(s))]
           Sat(f)  == f = [s \in SUBSET T |-> IF s = {} THEN 0 ELSE h[Pick(s)] + f[s \ {Pick(s)}]]
<1>1. \A s \in SUBSET T : s # {} =>
        /\ Pick(s) \in s
        /\ Cardinality(All(s)) = h[Pick(s)] + Cardinality(All(s \ {Pick(s)}))
  <2> SUFFICES ASSUME NEW s \in SUBSET T, s # {}
               PROVE  /\ Pick(s) \in s
                      /\ Cardinality(All(s)) = h[Pick(s)] + Cardinality(All(s \ {Pick(s)}))
    OBVIOUS
  <2>1. Pick(s) \in s  OBVIOUS
  <2> DEFINE p == Pick(s)  rest == All(s \ {p})
  <2> HIDE DEF Pick
  <2>2. IsFiniteSet(c[p]) /\ IsFiniteSet(rest)
    <3>1. c[p] \in SUBSET D /\ rest \in SUBSET D  BY <2>1
    <3> QED  BY <3>1, FS_Subset
  <2>3. All(s) = c[p] \cup rest  BY <2>1
  <2>4. c[p] \cap rest = {}  BY <2>1
  <2>5. Cardinality(c[p]) \in Nat /\ Cardinality(rest) \in Nat  BY <2>2, FS_CardinalityType
  <2>6. Cardinality(c[p] \cup rest) = Cardinality(c[p]) + Cardinality(rest) - 0
    <3>1. Cardinality(c[p] \cap rest) = 0  BY <2>4, FS_EmptySet
    <3> HIDE DEF rest
    <3> QED  BY <2>2, <3>1, FS_Union
  <2>7. h[p] = Cardinality(c[p])  BY <2>1
  <2>8. Cardinality(All(s)) = Cardinality(c[p] \cup rest)  BY <2>3
  <2> HIDE DEF All
  <2>9. Cardinality(All(s)) = h[p] + Cardinality(rest)  BY <2>5, <2>6, <2>7, <2>8
  <2> QED  BY <2>1, <2>9
<1>2. Sat(g)
  <2> DEFINE rhs(s) == IF s = {} THEN 0 ELSE h[Pick(s)] + g[s \ {Pick(s)}]
  <2>1. ASSUME NEW s \in SUBSET T PROVE g[s] = rhs(s)
    <3>1. CASE s = {}
      <4>1. All(s) = {}  BY <3>1
      <4>2. g[s] = Cardinality({})  BY <4>1
      <4>3. rhs(s) = 0  BY <3>1
      <4> HIDE DEF g, rhs
      <4> QED  BY <4>2, <4>3, FS_EmptySet
    <3>2. CASE s # {}
      <4>1. s \ {Pick(s)} \in SUBSET T  OBVIOUS
      <4> QED  BY <1>1, <3>2, <4>1
    <3> QED  BY <3>1, <3>2
  <2>2. g = [s \in SUBSET T |-> g[s]]  OBVIOUS
  <2> HIDE DEF rhs, g
  <2>3. g = [s \in SUBSET T |-> rhs(s)]  BY <2>1, <2>2
  <2> QED  BY <2>3 DEF rhs
<1> DEFINE f == CHOOSE f : Sat(f)
<1>3. Sat(f)  BY <1>2
<1>4. SumFunctionOnSet(h, T) = f[T]
  BY DEF SumFunctionOnSet, FoldFunctionOnSet, MapThenFoldSet
<1> HIDE DEF f
<1>5. ASSUME NEW s \in SUBSET T, f[s] # g[s] PROVE FALSE
  <2> DEFINE bad == {x \in SUBSET T : f[x] # g[x]}
  <2>1. IsWellFoundedOn(StrictSubsetOrdering(T), SUBSET T)
    BY FS_StrictSubsetOrderingWellFounded, FS_FiniteSubsetsOfFinite
  <2>2. bad \subseteq SUBSET T /\ bad # {}  BY <1>5
  <2>3. PICK b \in bad : \A y \in bad : ~ <<y, b>> \in StrictSubsetOrdering(T)
    <3> HIDE DEF bad
    <3> QED  BY <2>1, <2>2, WFMin
  <2>4. f[b] = IF b = {} THEN 0 ELSE h[Pick(b)] + f[b \ {Pick(b)}]
    <3>1. b \in SUBSET T  BY <2>2, <2>3
    <3> HIDE DEF Pick, g, bad
    <3> QED  BY <1>3, <3>1
  <2>5. g[b] = IF b = {} THEN 0 ELSE h[Pick(b)] + g[b \ {Pick(b)}]
    <3>1. b \in SUBSET T  BY <2>2, <2>3
    <3> HIDE DEF Pick, g, bad
    <3> QED  BY <1>2, <3>1
  <2>6. b # {}  BY <2>3, <2>4, <2>5
  <2> DEFINE less == b \ {Pick(b)}
  <2>7. less \in SUBSET T /\ less # b /\ less \subseteq b  BY <1>1, <2>3, <2>6
  <2>8. <<less, b>> \in StrictSubsetOrdering(T)
    <3> HIDE DEF less
    <3> QED  BY <2>3, <2>7 DEF StrictSubsetOrdering
  <2>9. f[less] = g[less]  BY <2>3, <2>7, <2>8
  <2> QED  BY <2>3, <2>4, <2>5, <2>6, <2>9
<1>6. T \in SUBSET T  OBVIOUS
<1>7. f[T] = g[T]  BY <1>5, <1>6
<1> QED  BY <1>4, <1>6, <1>7

(* InOrder lists the set as a strict total order has it.                   *)
StrictOrder(S, b) ==
  /\ b \in [S -> SUBSET S]
  /\ \A x \in S : x \notin b[x]
  /\ \A x, y \in S : x \in b[y] => b[x] \subseteq b[y]
  /\ \A x, y \in S : x # y => x \in b[y] \/ y \in b[x]

LEMMA InOrderFacts ==
  ASSUME NEW S, IsFiniteSet(S), NEW b, StrictOrder(S, b)
  PROVE  /\ Cardinality(S) \in Nat
         /\ InOrder(b) \in [1..Cardinality(S) -> S]
         /\ \A x \in S : \E i \in 1..Cardinality(S) : InOrder(b)[i] = x
         /\ \A i, j \in 1..Cardinality(S) : i < j <=> InOrder(b)[i] \in b[InOrder(b)[j]]
         /\ \A i, j \in 1..Cardinality(S) : InOrder(b)[i] = InOrder(b)[j] => i = j
<1> DEFINE n == Cardinality(S)  size == [x \in S |-> Cardinality(b[x])]
           rank == [x \in S |-> size[x] + 1]
<1>1. n \in Nat  BY FS_CardinalityType
<1>2. \A x \in S : IsFiniteSet(b[x]) /\ size[x] \in 0..(n - 1)
  <2> SUFFICES ASSUME NEW x \in S PROVE IsFiniteSet(b[x]) /\ size[x] \in 0..(n - 1)
    OBVIOUS
  <2>1. b[x] \in SUBSET S /\ b[x] # S  BY DEF StrictOrder
  <2>2. IsFiniteSet(b[x]) /\ Cardinality(b[x]) <= n /\ Cardinality(b[x]) # n
    BY <2>1, FS_Subset
  <2>3. Cardinality(b[x]) \in Nat  BY <2>2, FS_CardinalityType
  <2> QED  BY <1>1, <2>2, <2>3
<1>3. ASSUME NEW x \in S, NEW y \in S, x \in b[y] PROVE size[x] < size[y]
  <2>1. b[x] \in SUBSET b[y] /\ b[x] # b[y]  BY <1>3 DEF StrictOrder
  <2>2. Cardinality(b[x]) <= Cardinality(b[y]) /\ Cardinality(b[x]) # Cardinality(b[y])
    BY <1>2, <2>1, FS_Subset
  <2> QED  BY <1>2, <2>2
<1>4. ASSUME NEW x \in S, NEW y \in S, size[x] <= size[y], x # y PROVE x \in b[y]
  <2>1. CASE y \in b[x]
    <3>1. size[y] < size[x]  BY <1>3, <2>1
    <3> HIDE DEF size
    <3> QED  BY <1>2, <1>4, <3>1
  <2> QED  BY <1>4, <2>1 DEF StrictOrder
<1>5. ASSUME NEW x \in S, NEW y \in S, size[x] = size[y] PROVE x = y
  <2>1. CASE x # y
    <3>1. size[x] <= size[y]  BY <1>2, <1>5
    <3>2. x \in b[y]  BY <1>4, <2>1, <3>1
    <3>3. size[x] < size[y]  BY <1>3, <3>2
    <3> HIDE DEF size
    <3> QED  BY <1>2, <1>5, <3>3
  <2> QED  BY <2>1
<1>6. ASSUME NEW i \in 1..n PROVE \E x \in S : size[x] = i - 1
  <2>1. rank \in Injection(S, 1..n)
    <3>1. rank \in [S -> 1..n]  BY <1>1, <1>2
    <3>2. ASSUME NEW x \in S, NEW y \in S, rank[x] = rank[y] PROVE x = y
      <4>1. size[x] = size[y]
        <5> HIDE DEF size
        <5> QED  BY <1>2, <3>2
      <4> QED  BY <1>5, <4>1
    <3>3. IsInjective(rank)  BY <3>1, <3>2 DEF IsInjective
    <3> QED  BY <3>1, <3>3 DEF Injection
  <2>2. IsFiniteSet(1..n) /\ Cardinality(1..n) = n  BY <1>1, FS_Interval
  <2>3. rank \in Surjection(S, 1..n)  BY <2>1, <2>2, FS_Injection
  <2>4. PICK x \in S : rank[x] = i  BY <2>3 DEF Surjection
  <2> HIDE DEF size
  <2>5. size[x] = i - 1  BY <1>1, <1>2, <2>4
  <2> QED  BY <2>5
<1> DEFINE o == InOrder(b)
<1>7. DOMAIN b = S  BY DEF StrictOrder
<1>8. DOMAIN o = 1..n /\ \A i \in 1..n : o[i] = CHOOSE x \in S : Cardinality(b[x]) = i - 1
  BY <1>7 DEF InOrder
<1>9. \A i \in 1..n : o[i] \in S /\ size[o[i]] = i - 1
  <2> SUFFICES ASSUME NEW i \in 1..n PROVE o[i] \in S /\ size[o[i]] = i - 1
    OBVIOUS
  <2>1. \E x \in S : Cardinality(b[x]) = i - 1  BY <1>6
  <2> HIDE DEF o
  <2> QED  BY <1>8, <2>1
<1>10. o \in [1..n -> S]
  <2> DEFINE Chosen(i) == CHOOSE x \in S : Cardinality(b[x]) = i - 1
  <2>1. o = [i \in 1..n |-> Chosen(i)]  BY <1>7 DEF InOrder
  <2>2. \A i \in 1..n : Chosen(i) \in S
    <3> HIDE DEF o
    <3> QED  BY <1>8, <1>9
  <2> HIDE DEF Chosen, o
  <2> QED  BY <2>1, <2>2
<1> HIDE DEF o, size
<1>11. \A x \in S : \E i \in 1..n : o[i] = x
  <2> SUFFICES ASSUME NEW x \in S PROVE \E i \in 1..n : o[i] = x
    OBVIOUS
  <2>1. size[x] + 1 \in 1..n  BY <1>1, <1>2
  <2>2. size[o[size[x] + 1]] = size[x]  BY <1>2, <1>9, <2>1
  <2>3. o[size[x] + 1] = x  BY <1>5, <1>9, <2>1, <2>2
  <2> QED  BY <2>1, <2>3
<1>12. \A i, j \in 1..n : i < j <=> o[i] \in b[o[j]]
  <2> SUFFICES ASSUME NEW i \in 1..n, NEW j \in 1..n PROVE i < j <=> o[i] \in b[o[j]]
    OBVIOUS
  <2>1. size[o[i]] = i - 1 /\ size[o[j]] = j - 1 /\ o[i] \in S /\ o[j] \in S  BY <1>9
  <2>2. i < j => o[i] # o[j] /\ size[o[i]] <= size[o[j]]  BY <1>1, <2>1
  <2>3. o[i] \in b[o[j]] => size[o[i]] < size[o[j]]  BY <1>3, <2>1
  <2> QED  BY <1>1, <1>4, <2>1, <2>2, <2>3
<1>13. \A i, j \in 1..n : o[i] = o[j] => i = j  BY <1>1, <1>9
<1> QED  BY <1>1, <1>10, <1>11, <1>12, <1>13 DEF o

LEMMA AscendingFacts ==
  ASSUME NEW S \in SUBSET Int, IsFiniteSet(S)
  PROVE  /\ Cardinality(S) \in Nat
         /\ Ascending(S) \in [1..Cardinality(S) -> S]
         /\ \A x \in S : \E i \in 1..Cardinality(S) : Ascending(S)[i] = x
         /\ \A i, j \in 1..Cardinality(S) : i < j <=> Ascending(S)[i] < Ascending(S)[j]
<1> DEFINE b == [x \in S |-> {y \in S : y < x}]
<1>1. Ascending(S) = InOrder(b)  BY DEF Ascending
<1>2. b \in [S -> SUBSET S] /\ \A x, y \in S : x \in b[y] <=> x < y  OBVIOUS
<1> HIDE DEF b
<1>3. \A x, y, z \in S : /\ ~ x < x /\ (x # y => x < y \/ y < x)
                        /\ x < y /\ z < x => z < y
  OBVIOUS
<1>4. ASSUME NEW x \in S, NEW y \in S, x \in b[y] PROVE b[x] \subseteq b[y]
  <2> SUFFICES ASSUME NEW z \in b[x] PROVE z \in b[y]  OBVIOUS
  <2>1. z \in S  BY <1>2
  <2> QED  BY <1>2, <1>3, <1>4, <2>1
<1>5. StrictOrder(S, b)  BY <1>2, <1>3, <1>4 DEF StrictOrder
<1> DEFINE o == InOrder(b)  n == Cardinality(S)
<1> HIDE DEF o, n
<1>6. /\ n \in Nat /\ o \in [1..n -> S]
      /\ \A x \in S : \E i \in 1..n : o[i] = x
      /\ \A i, j \in 1..n : i < j <=> o[i] \in b[o[j]]
  BY <1>5, InOrderFacts DEF o, n
<1>7. \A i, j \in 1..n : i < j <=> o[i] < o[j]
  <2> SUFFICES ASSUME NEW i \in 1..n, NEW j \in 1..n PROVE i < j <=> o[i] < o[j]
    OBVIOUS
  <2>1. o[i] \in S /\ o[j] \in S  BY <1>6
  <2> QED  BY <1>2, <1>6, <2>1
<1> QED  BY <1>1, <1>6, <1>7 DEF o, n

LEMMA ExtremeFacts ==
  ASSUME NEW S \in SUBSET Int, IsFiniteSet(S), S # {}
  PROVE  /\ Min(S) \in S /\ \A x \in S : Min(S) <= x
         /\ Max(S) \in S /\ \A x \in S : x <= Max(S)
<1> DEFINE o == Ascending(S)  n == Cardinality(S)
<1>1. n \in Nat /\ n # 0  BY FS_CardinalityType, FS_EmptySet
<1> HIDE DEF n, o
<1>2. 1 \in 1..n /\ n \in 1..n  BY <1>1
<1>3. o \in [1..n -> S] /\ \A x \in S : \E i \in 1..n : o[i] = x
  BY AscendingFacts DEF n, o
<1>4. \A i, j \in 1..n : i < j <=> o[i] < o[j]
  BY AscendingFacts DEF n, o
<1>5. \A i, j \in 1..n : i <= j => o[i] <= o[j]
  <2> SUFFICES ASSUME NEW i \in 1..n, NEW j \in 1..n, i <= j PROVE o[i] <= o[j]
    OBVIOUS
  <2>1. o[i] \in Int /\ o[j] \in Int  BY <1>3
  <2>2. i < j => o[i] < o[j]  BY <1>4
  <2> QED  BY <1>1, <2>1, <2>2
<1>6. o[1] \in S /\ \A x \in S : o[1] <= x  BY <1>2, <1>3, <1>5
<1>7. o[n] \in S /\ \A x \in S : o[n] >= x  BY <1>2, <1>3, <1>5
<1>8. Min(S) \in S /\ \A x \in S : Min(S) <= x  BY <1>6 DEF Min
<1>9. Max(S) \in S /\ \A x \in S : Max(S) >= x  BY <1>7 DEF Max
<1> QED  BY <1>8, <1>9

(* A column is a function from finitely many row numbers.                  *)
Column(vals) == IsFiniteSet(DOMAIN vals) /\ vals \in [DOMAIN vals -> Nat \cup {Null}]

LEMMA RangeFacts ==
  ASSUME NEW f, IsFiniteSet(DOMAIN f), f = [x \in DOMAIN f |-> f[x]]
  PROVE  IsFiniteSet(Range(f)) /\ Cardinality(Range(f)) <= Cardinality(DOMAIN f)
<1>1. f \in Surjection(DOMAIN f, Range(f))  BY DEF Surjection, Range
<1> QED  BY <1>1, FS_Surjection

LEMMA ColumnFacts ==
  ASSUME NEW vals, Column(vals)
  PROVE  /\ IsFiniteSet(Range(vals)) /\ Range(vals) \subseteq Nat \cup {Null} /\ Range(vals) \subseteq Int
         /\ Count(vals) \in Nat
         /\ \A i \in DOMAIN vals : vals[i] \in Range(vals) /\ vals[i] \in Int
         /\ \A v : Occurrences(vals, v) \in Nat
         /\ Range(vals) = {} <=> DOMAIN vals = {}
         /\ Count(vals) = 0 <=> DOMAIN vals = {}
<1>1. vals = [x \in DOMAIN vals |-> vals[x]] /\ IsFiniteSet(DOMAIN vals)  BY DEF Column
<1>2. IsFiniteSet(Range(vals))  BY <1>1, RangeFacts
<1>3. Null \in Int  BY DEF Null
<1>4. \A i \in DOMAIN vals : vals[i] \in Range(vals) /\ vals[i] \in Nat \cup {Null}  BY DEF Column, Range
<1>5. Range(vals) \subseteq Nat \cup {Null}  BY DEF Column, Range
<1>6. ASSUME NEW v PROVE Occurrences(vals, v) \in Nat
  <2>1. {i \in DOMAIN vals : vals[i] = v} \in SUBSET DOMAIN vals  OBVIOUS
  <2>2. IsFiniteSet({i \in DOMAIN vals : vals[i] = v})  BY <1>1, <2>1, FS_Subset
  <2> QED  BY <2>2, FS_CardinalityType DEF Occurrences
<1>7. Count(vals) \in Nat  BY <1>1, FS_CardinalityType DEF Count
<1>8. Count(vals) = 0 <=> DOMAIN vals = {}  BY <1>1, FS_EmptySet DEF Count
<1>9. Range(vals) = {} <=> DOMAIN vals = {}  BY DEF Range
<1> QED  BY <1>2, <1>3, <1>4, <1>5, <1>6, <1>7, <1>8, <1>9

LEMMA PairFacts ==
  ASSUME NEW a \in Int, NEW b \in Int
  PROVE  /\ Max({a, b}) \in {a, b} /\ a <= Max({a, b}) /\ b <= Max({a, b})
         /\ Min({a, b}) \in {a, b} /\ Min({a, b}) <= a /\ Min({a, b}) <= b
<1>1. IsFiniteSet({a} \cup {b})  BY FS_Singleton, FS_AddElement
<1>2. {a, b} = {a} \cup {b}  OBVIOUS
<1>3. IsFiniteSet({a, b})  BY <1>1, <1>2
<1>4. {a, b} \in SUBSET Int /\ {a, b} # {}  OBVIOUS
<1> QED  BY <1>3, <1>4, ExtremeFacts

UpTo(vals, v) == Cardinality({i \in DOMAIN vals : vals[i] <= v})
Below(vals, v) == Cardinality({i \in DOMAIN vals : vals[i] < v})

LEMMA UpToFacts ==
  ASSUME NEW vals, Column(vals), NEW v \in Int
  PROVE  /\ Below(vals, v) \in Nat /\ UpTo(vals, v) \in 0..Count(vals)
         /\ UpTo(vals, v) = Below(vals, v) + Occurrences(vals, v)
         /\ v \in Range(vals) => UpTo(vals, v) >= 1
<1> DEFINE le == {i \in DOMAIN vals : vals[i] <= v}
           lt == {i \in DOMAIN vals : vals[i] < v}
           eq == {i \in DOMAIN vals : vals[i] = v}
<1>1. IsFiniteSet(DOMAIN vals) /\ Count(vals) \in Nat /\ \A i \in DOMAIN vals : vals[i] \in Int
  BY ColumnFacts DEF Column
<1>2. le \in SUBSET DOMAIN vals /\ lt \in SUBSET DOMAIN vals /\ eq \in SUBSET DOMAIN vals
  OBVIOUS
<1>3. le = lt \cup eq  BY <1>1
<1>4. lt \cap eq = {}  BY <1>1
<1>5. v \in Range(vals) => le # {}  BY DEF Range
<1>6. Below(vals, v) = Cardinality(lt) /\ UpTo(vals, v) = Cardinality(le)
      /\ Occurrences(vals, v) = Cardinality(eq)
  BY DEF Below, UpTo, Occurrences
<1> HIDE DEF le, lt, eq
<1>7. IsFiniteSet(le) /\ IsFiniteSet(lt) /\ IsFiniteSet(eq) /\ Cardinality(le) <= Count(vals)
  BY <1>1, <1>2, FS_Subset DEF Count
<1>8. Cardinality(le) \in Nat /\ Cardinality(lt) \in Nat /\ Cardinality(eq) \in Nat
      /\ (Cardinality(le) = 0 <=> le = {})
  BY <1>7, FS_CardinalityType, FS_EmptySet
<1>9. Cardinality(lt \cap eq) = 0  BY <1>4, FS_EmptySet
<1>10. Cardinality(le) = Cardinality(lt) + Cardinality(eq) - Cardinality(lt \cap eq)
  BY <1>3, <1>7, FS_Union
<1> QED  BY <1>1, <1>5, <1>6, <1>7, <1>8, <1>9, <1>10

(* A value has the rank of p percent if it is no less than that share of   *)
(* all: the rounding up of Rank loses nothing.                             *)
LEMMA RankFacts ==
  ASSUME NEW n \in Nat \ {0}, NEW p \in Percents
  PROVE  /\ Rank(n, p) \in 1..n
         /\ \A k \in 1..n : 100 * k >= p * n <=> k >= Rank(n, p)
<1> DEFINE q == (n * p + 99) \div 100
<1>1. q \in Int /\ 100 * q <= n * p + 99 /\ n * p + 99 < 100 * q + 100 /\ 0 < n * p /\ n * p <= 99 * n
      /\ n * p = p * n /\ n * p \in Int
  <2>1. n * 10 \in Int /\ n * 25 \in Int /\ n * 50 \in Int /\ n * 75 \in Int /\ n * 90 \in Int
        /\ n * 95 \in Int /\ n * 99 \in Int
    OBVIOUS
  <2> QED  BY <2>1 DEF Percents
<1> HIDE DEF q
<1>2. q \in 1..n  BY <1>1
<1>3. Rank(n, p) = q
  <2>1. Rank(n, p) = Max({1, q})  BY DEF Rank, q
  <2>2. Max({1, q}) \in {1, q} /\ q <= Max({1, q}) /\ 1 <= Max({1, q})  BY <1>2, PairFacts
  <2> QED  BY <1>2, <2>1, <2>2
<1>4. ASSUME NEW k \in 1..n PROVE 100 * k >= p * n <=> k >= q
  <2> DEFINE m == n * p
  <2>1. m \in Int /\ 100 * q <= m + 99 /\ m + 99 < 100 * q + 100 /\ q \in Int /\ m = p * n  BY <1>1
  <2> HIDE DEF m
  <2>2. 100 * k >= m <=> k >= q  BY <2>1
  <2> QED  BY <2>1, <2>2
<1> QED  BY <1>2, <1>3, <1>4

LEMMA AtRankFacts ==
  ASSUME NEW vals, Column(vals), NEW r \in 1..Count(vals)
  PROVE  LET enough == {v \in Range(vals) : UpTo(vals, v) >= r}
         IN  enough # {} /\ AtRank(vals, r) = Min(enough) /\ Min(enough) \in Range(vals)
<1> DEFINE enough == {v \in Range(vals) : UpTo(vals, v) >= r}
<1>1. /\ IsFiniteSet(Range(vals)) /\ Range(vals) \in SUBSET Int /\ Count(vals) \in Nat
      /\ Range(vals) # {} /\ \A i \in DOMAIN vals : vals[i] \in Range(vals) /\ vals[i] \in Int
      /\ IsFiniteSet(DOMAIN vals)
  BY ColumnFacts DEF Column
<1>2. \A v \in Int : /\ Below(vals, v) \in Nat /\ UpTo(vals, v) \in 0..Count(vals)
                     /\ UpTo(vals, v) = Below(vals, v) + Occurrences(vals, v)
  BY UpToFacts
<1>3. Max(Range(vals)) \in enough
  <2> DEFINE top == Max(Range(vals))
  <2>1. top \in Range(vals) /\ \A v \in Range(vals) : v <= top  BY <1>1, ExtremeFacts
  <2>2. {i \in DOMAIN vals : vals[i] <= top} = DOMAIN vals  BY <1>1, <2>1
  <2>3. UpTo(vals, top) = Count(vals)  BY <2>2 DEF UpTo, Count
  <2> QED  BY <1>1, <2>1, <2>3
<1>4. enough \in SUBSET Range(vals) /\ enough \in SUBSET Int  BY <1>1
<1>5. IsFiniteSet(enough)  BY <1>1, <1>4, FS_Subset
<1> DEFINE m == Min(enough)
<1> HIDE DEF enough
<1>6. m \in enough /\ \A v \in enough : m <= v  BY <1>3, <1>4, <1>5, ExtremeFacts
<1>7. m \in Range(vals) /\ m \in Int /\ UpTo(vals, m) >= r  BY <1>4, <1>6 DEF enough
<1> HIDE DEF m
<1>8. Below(vals, m) < r
  <2> DEFINE less == {v \in Range(vals) : v < m}
  <2>1. less \in SUBSET Range(vals) /\ less \in SUBSET Int  BY <1>1
  <2>2. IsFiniteSet(less)  BY <1>1, <2>1, FS_Subset
  <2>3. CASE less = {}
    <3>1. {i \in DOMAIN vals : vals[i] < m} = {}  BY <1>1, <2>3
    <3>2. Below(vals, m) = 0  BY <3>1, FS_EmptySet DEF Below
    <3> QED  BY <3>2
  <2>4. CASE less # {}
    <3> DEFINE w == Max(less)
    <3>1. w \in less /\ \A v \in less : v <= w  BY <2>1, <2>2, <2>4, ExtremeFacts
    <3> HIDE DEF w
    <3>2. w \in Range(vals) /\ w < m /\ w \in Int  BY <2>1, <3>1
    <3>3. {i \in DOMAIN vals : vals[i] < m} = {i \in DOMAIN vals : vals[i] <= w}
      BY <1>1, <1>7, <3>1, <3>2
    <3>4. Below(vals, m) = UpTo(vals, w)  BY <3>3 DEF Below, UpTo
    <3>5. w \notin enough  BY <1>6, <1>7, <3>2
    <3>6. ~ UpTo(vals, w) >= r  BY <3>2, <3>5 DEF enough
    <3> QED  BY <1>2, <3>2, <3>4, <3>6
  <2> QED  BY <2>3, <2>4
<1>9. ASSUME NEW v \in Range(vals), Below(vals, v) < r, r <= UpTo(vals, v) PROVE v = m
  <2>1. v \in enough /\ v \in Int  BY <1>1, <1>2, <1>9 DEF enough
  <2>2. CASE m < v
    <3> DEFINE lower == {i \in DOMAIN vals : vals[i] <= m}
               upper == {i \in DOMAIN vals : vals[i] < v}
    <3>1. lower \in SUBSET upper  BY <1>1, <1>7, <2>1, <2>2
    <3>2. IsFiniteSet(upper)  BY <1>1, FS_Subset
    <3>3. Cardinality(lower) <= Cardinality(upper)  BY <3>1, <3>2, FS_Subset
    <3>4. UpTo(vals, m) <= Below(vals, v)  BY <3>3 DEF UpTo, Below
    <3> QED  BY <1>2, <1>7, <1>9, <2>1, <3>4
  <2> QED  BY <1>6, <1>7, <2>1, <2>2
<1>10. AtRank(vals, r) = m
  <2> DEFINE Fits(v) == Below(vals, v) < r /\ r <= Below(vals, v) + Occurrences(vals, v)
  <2>1. AtRank(vals, r) = CHOOSE v \in Range(vals) : Fits(v)  BY DEF AtRank, Below
  <2>2. \A v \in Range(vals) : Fits(v) <=> Below(vals, v) < r /\ r <= UpTo(vals, v)  BY <1>1, <1>2
  <2>3. Fits(m)  BY <1>2, <1>7, <1>8
  <2> HIDE DEF Fits
  <2>4. \A v \in Range(vals) : Fits(v) <=> v = m  BY <1>9, <2>2, <2>3
  <2> QED  BY <1>7, <2>1, <2>4
<1> QED  BY <1>3, <1>7, <1>10 DEF m, enough

LEMMA QuantileFacts ==
  ASSUME NEW vals, Column(vals), DOMAIN vals # {}, Null \notin Range(vals), NEW p \in Percents
  PROVE  Profile(vals).quantile[p] =
           Min({v \in Range(vals) :
                  100 * Cardinality({i \in DOMAIN vals : vals[i] <= v}) >= p * Count(vals)})
<1> DEFINE n == Count(vals)  r == Rank(n, p)
           enough == {v \in Range(vals) : UpTo(vals, v) >= r}
           told == {v \in Range(vals) :
                      100 * Cardinality({i \in DOMAIN vals : vals[i] <= v}) >= p * n}
<1>1. n \in Nat \ {0} /\ Range(vals) \subseteq Int  BY ColumnFacts
<1>2. r \in 1..n /\ \A k \in 1..n : 100 * k >= p * n <=> k >= r  BY <1>1, RankFacts
<1>3. AtRank(vals, r) = Min(enough) /\ Min(enough) \in Range(vals)  BY <1>2, AtRankFacts
<1>4. OrZero(AtRank(vals, r)) = Min(enough)  BY <1>3 DEF OrZero
<1>5. enough = told
  <2> HIDE DEF n, r
  <2>1. ASSUME NEW v \in Range(vals) PROVE UpTo(vals, v) >= r <=> 100 * UpTo(vals, v) >= p * n
    <3>1. UpTo(vals, v) \in 1..n  BY <1>1, UpToFacts DEF n
    <3> QED  BY <1>2, <3>1
  <2> QED  BY <2>1 DEF UpTo
<1>6. Profile(vals).quantile[p] = OrZero(AtRank(vals, r))  BY DEF Profile
<1> QED  BY <1>4, <1>5, <1>6

(* The rows whose values are counted once each are counted once.           *)
LEMMA SumOfOccurrences ==
  ASSUME NEW vals, Column(vals), NEW T, IsFiniteSet(T), NEW val, NEW h,
         \A x, y \in T : val[x] = val[y] => x = y,
         \A x \in T : h[x] = Occurrences(vals, val[x])
  PROVE  SumFunctionOnSet(h, T) = Cardinality({i \in DOMAIN vals : \E x \in T : vals[i] = val[x]})
<1> DEFINE D == DOMAIN vals  c == [x \in T |-> {i \in D : vals[i] = val[x]}]
<1>1. IsFiniteSet(D)  BY DEF Column
<1>2. c \in [T -> SUBSET D]  OBVIOUS
<1>3. \A x, y \in T : x # y => c[x] \cap c[y] = {}  OBVIOUS
<1>4. \A x \in T : h[x] = Cardinality(c[x])  BY DEF Occurrences
<1>5. UNION {c[x] : x \in T} = {i \in D : \E x \in T : vals[i] = val[x]}  OBVIOUS
<1> HIDE DEF c, D
<1>6. SumFunctionOnSet(h, T) = Cardinality(UNION {c[x] : x \in T})
  BY <1>1, <1>2, <1>3, <1>4, SumOfClasses
<1> QED  BY <1>5, <1>6 DEF D

LEMMA TopNFacts ==
  ASSUME NEW vals, Column(vals), NEW n \in Nat
  PROVE  LET top == TopN(vals, n)  k == Cardinality(Range(vals)) IN
         /\ Len(top) \in Nat /\ DOMAIN top = 1..Len(top)
         /\ \A i \in DOMAIN top : /\ top[i].value \in Range(vals)
                                /\ top[i].count = Occurrences(vals, top[i].value)
         /\ \A i, j \in DOMAIN top : top[i].value = top[j].value => i = j
         /\ k \in Nat /\ Len(top) \in 0..k
         /\ Len(top) = k <=> \A v \in Range(vals) : \E i \in DOMAIN top : top[i].value = v
<1> DEFINE S == Range(vals)  k == Cardinality(S)
           Ahead(a, b) == \/ Occurrences(vals, a) > Occurrences(vals, b)
                          \/ Occurrences(vals, a) = Occurrences(vals, b) /\ a < b
           b == [v \in S |-> {w \in S : Ahead(w, v)}]
           order == InOrder(b)
           m == Min({n, Len(order)})
           top == TopN(vals, n)
<1>1. IsFiniteSet(S) /\ S \subseteq Int /\ \A v : Occurrences(vals, v) \in Nat  BY ColumnFacts
<1>2. StrictOrder(S, b)
  <2>1. b \in [S -> SUBSET S] /\ \A x, y \in S : x \in b[y] <=> Ahead(x, y)  OBVIOUS
  <2>2. \A x, y, z \in S : /\ ~ Ahead(x, x) /\ (x # y => Ahead(x, y) \/ Ahead(y, x))
                           /\ Ahead(x, y) /\ Ahead(z, x) => Ahead(z, y)
    <3> HIDE DEF S
    <3>1. \A x, y \in S : x < y \/ y < x \/ x = y  BY <1>1
    <3>2. \A x, y, z \in S : ~ x < x /\ (x < y /\ z < x => z < y)  BY <1>1
    <3> QED  BY <1>1, <3>1, <3>2
  <2> HIDE DEF b, Ahead
  <2>3. ASSUME NEW x \in S, NEW y \in S, x \in b[y] PROVE b[x] \subseteq b[y]
    <3> SUFFICES ASSUME NEW z \in b[x] PROVE z \in b[y]  OBVIOUS
    <3>1. z \in S  BY <2>1
    <3> QED  BY <2>1, <2>2, <2>3, <3>1
  <2> QED  BY <2>1, <2>2, <2>3 DEF StrictOrder
<1>3. top = [i \in 1..m |-> [value |-> order[i], count |-> Occurrences(vals, order[i])]]
  BY DEF TopN
<1> HIDE DEF b, S, k, order
<1>4. /\ k \in Nat /\ order \in [1..k -> S]
      /\ \A x \in S : \E i \in 1..k : order[i] = x
      /\ \A i, j \in 1..k : order[i] = order[j] => i = j
  BY <1>1, <1>2, InOrderFacts DEF k, order
<1>5. Len(order) = k  BY <1>4
<1>6. m \in Nat /\ m <= k
  <2>1. m = Min({n, k})  BY <1>5
  <2>2. k \in Int /\ n \in Int  BY <1>4
  <2> HIDE DEF m
  <2>3. m \in {n, k} /\ m <= k  BY <2>1, <2>2, PairFacts
  <2> QED  BY <1>4, <2>3
<1> HIDE DEF m
<1>7. \A i \in 1..m : i \in 1..k  BY <1>4, <1>6
<1>8. DOMAIN top = 1..m /\ \A i \in 1..m : /\ top[i].value = order[i] /\ top[i].value \in S
                                           /\ top[i].count = Occurrences(vals, order[i])
  BY <1>1, <1>3, <1>4, <1>7
<1>9. Len(top) = m
  <2> HIDE DEF top
  <2> QED  BY <1>6, <1>8
<1>10. m = k <=> \A v \in S : \E i \in DOMAIN top : top[i].value = v
  <2>1. CASE m = k
    <3> SUFFICES ASSUME NEW v \in S PROVE \E i \in DOMAIN top : top[i].value = v
      BY <2>1
    <3>1. PICK i \in 1..k : order[i] = v  BY <1>4
    <3> QED  BY <1>8, <2>1, <3>1
  <2>2. CASE m # k
    <3>1. k \in 1..k /\ k \notin 1..m  BY <1>4, <1>6, <2>2
    <3>2. \A i \in 1..m : order[i] # order[k]  BY <1>4, <1>7, <3>1
    <3>3. order[k] \in S  BY <1>4, <3>1
    <3> QED  BY <1>8, <2>2, <3>2, <3>3
  <2> QED  BY <2>1, <2>2
<1> HIDE DEF top
<1>11. \A i \in DOMAIN top : top[i].value \in S /\ top[i].count = Occurrences(vals, top[i].value)
  BY <1>8
<1>12. \A i, j \in DOMAIN top : top[i].value = top[j].value => i = j  BY <1>4, <1>7, <1>8
<1> QED  BY <1>4, <1>6, <1>8, <1>9, <1>10, <1>11, <1>12 DEF top, S, k

(* The most frequent values and the tail account for every row.            *)
LEMMA TailFacts ==
  ASSUME NEW vals, Column(vals), NEW n \in Nat
  PROVE  LET top  == TopN(vals, n)
             tail == {i \in DOMAIN vals : \A t \in Range(top) : t.value # vals[i]}
         IN  /\ HeadSum(top) \in Nat /\ Count(vals) - HeadSum(top) = Cardinality(tail)
             /\ Cardinality(tail) = 0 <=> Len(top) = Cardinality(Range(vals))
<1> DEFINE top  == TopN(vals, n)
           told == {i \in DOMAIN vals : \E x \in DOMAIN top : vals[i] = top[x].value}
           tail == {i \in DOMAIN vals : \A t \in Range(top) : t.value # vals[i]}
           val  == [i \in DOMAIN top |-> top[i].value]
           h    == Counts(top)
<1> HIDE DEF top
<1>1. /\ Len(top) \in Nat /\ DOMAIN top = 1..Len(top)
      /\ \A i \in DOMAIN top : top[i].count = Occurrences(vals, top[i].value)
      /\ \A i, j \in DOMAIN top : top[i].value = top[j].value => i = j
      /\ Len(top) = Cardinality(Range(vals)) <=>
           \A v \in Range(vals) : \E i \in DOMAIN top : top[i].value = v
  BY TopNFacts DEF top
<1>2. IsFiniteSet(DOMAIN top)
  <2> QED  BY <1>1, FS_Interval
<1>3. HeadSum(top) = Cardinality(told)
  <2>1. \A x, y \in DOMAIN top : val[x] = val[y] => x = y  BY <1>1
  <2>2. \A x \in DOMAIN top : h[x] = Occurrences(vals, val[x])  BY <1>1 DEF Counts
  <2>3. told = {i \in DOMAIN vals : \E x \in DOMAIN top : vals[i] = val[x]}  OBVIOUS
  <2>4. DOMAIN h = DOMAIN top  BY DEF Counts
  <2> HIDE DEF told, val, h
  <2>5. SumFunctionOnSet(h, DOMAIN top) = Cardinality(told)  BY <1>2, <2>1, <2>2, <2>3, SumOfOccurrences
  <2> QED  BY <2>4, <2>5 DEF HeadSum, SumFunction, h
<1>4. told \in SUBSET DOMAIN vals /\ tail = DOMAIN vals \ told /\ DOMAIN vals \cap told = told
  BY DEF Range
<1>5. IsFiniteSet(DOMAIN vals)  BY DEF Column
<1>6. tail = {} <=> \A v \in Range(vals) : \E i \in DOMAIN top : top[i].value = v
  BY DEF Range
<1> HIDE DEF told, tail
<1>7. IsFiniteSet(told) /\ Cardinality(told) \in Nat  BY <1>4, <1>5, FS_Subset, FS_CardinalityType
<1>8. IsFiniteSet(tail) /\ Cardinality(tail) = Count(vals) - Cardinality(told)
  BY <1>4, <1>5, FS_Difference DEF Count
<1>9. Cardinality(tail) = 0 <=> tail = {}  BY <1>8, FS_EmptySet
<1> QED  BY <1>1, <1>3, <1>6, <1>7, <1>8, <1>9 DEF tail, top

KnownBucket(bucket) == bucket # "" => bucket \in DOMAIN Buckets

LEMMA OrdFacts ==
  ASSUME NEW bucket, KnownBucket(bucket), NEW v \in Nat \cup {Null}
  PROVE  Ord(bucket, v) \in Nat \cup {Null}
<1>1. CASE bucket = ""  BY <1>1 DEF Ord
<1>2. CASE bucket # ""
  <2> DEFINE bounds == Buckets[bucket]
             fits == {b \in DOMAIN bounds : v # Null /\ v <= bounds[b]}
  <2>1. bounds \in Seq(Int)
    BY <1>2, DistributionAssumption DEF DistributionAssumption, KnownBucket
  <2>2. Ord(bucket, v) = IF fits = {} THEN Len(bounds) + 1 ELSE Min(fits)  BY <1>2 DEF Ord
  <2>3. fits \in SUBSET DOMAIN bounds  OBVIOUS
  <2> HIDE DEF bounds, fits
  <2>4. Len(bounds) \in Nat /\ DOMAIN bounds = 1..Len(bounds)  BY <2>1
  <2>5. IsFiniteSet(fits) /\ fits \in SUBSET Int /\ fits \in SUBSET Nat
    <3>1. IsFiniteSet(1..Len(bounds))  BY <2>4, FS_Interval
    <3> QED  BY <2>3, <2>4, <3>1, FS_Subset
  <2>6. fits # {} => Min(fits) \in fits  BY <2>5, ExtremeFacts
  <2>7. CASE fits = {}
    <3>1. Ord(bucket, v) = Len(bounds) + 1  BY <2>2, <2>7
    <3> QED  BY <2>4, <3>1
  <2>8. CASE fits # {}
    <3>1. Ord(bucket, v) \in fits  BY <2>2, <2>6, <2>8
    <3> QED  BY <2>5, <3>1
  <2> QED  BY <2>7, <2>8
<1> QED  BY <1>1, <1>2

(* The rows of an answer count every row of the table, and each sum from   *)
(* the top down is that of the counts it stands for.                       *)
LEMMA DistributionFacts ==
  ASSUME NEW vals, Column(vals), NEW bucket, KnownBucket(bucket)
  PROVE  LET data == Distribution(vals, bucket) IN
         /\ SumFunction(Counts(data)) = Count(vals)
         /\ \A i \in DOMAIN data :
              data[i].cum = SumFunctionOnSet(Counts(data), {k \in DOMAIN data : k >= i})
<1> DEFINE data == Distribution(vals, bucket)
           ords == [i \in DOMAIN vals |-> Ord(bucket, vals[i])]
           order == Ascending(Range(ords))
           n == Cardinality(Range(ords))
           h == Counts(data)
<1>1. Column(ords) /\ DOMAIN ords = DOMAIN vals
  <2>1. IsFiniteSet(DOMAIN vals) /\ \A i \in DOMAIN vals : vals[i] \in Nat \cup {Null}  BY DEF Column
  <2>2. \A i \in DOMAIN vals : Ord(bucket, vals[i]) \in Nat \cup {Null}  BY <2>1, OrdFacts
  <2> QED  BY <2>1, <2>2 DEF Column
<1>2. DOMAIN data = DOMAIN order
      /\ \A i \in DOMAIN order :
           /\ data[i].count = Occurrences(ords, order[i])
           /\ data[i].cum = Cardinality({k \in DOMAIN ords : ords[k] >= order[i]})
  BY DEF Distribution
<1> HIDE DEF data, ords
<1>3. IsFiniteSet(Range(ords)) /\ Range(ords) \in SUBSET Int  BY <1>1, ColumnFacts
<1>4. /\ n \in Nat /\ order \in [1..n -> Range(ords)]
      /\ \A x \in Range(ords) : \E i \in 1..n : order[i] = x
      /\ \A i, j \in 1..n : i < j <=> order[i] < order[j]
  BY <1>3, AscendingFacts
<1> HIDE DEF order, n, h
<1>n. n \in Nat  BY <1>4
<1>5. \A i \in 1..n : order[i] \in Int  BY <1>3, <1>4
<1>6. DOMAIN h = 1..n /\ DOMAIN data = 1..n /\ DOMAIN order = 1..n  BY <1>2, <1>4 DEF Counts, h
<1>7. \A i \in 1..n : h[i] = Occurrences(ords, order[i])  BY <1>2, <1>6 DEF Counts, h
<1>8. \A i, j \in 1..n : order[i] = order[j] => i = j
  <2> SUFFICES ASSUME NEW i \in 1..n, NEW j \in 1..n, order[i] = order[j] PROVE i = j
    OBVIOUS
  <2>1. i < j <=> order[i] < order[j]  BY <1>4
  <2>2. j < i <=> order[j] < order[i]  BY <1>4
  <2> QED  BY <1>n, <1>5, <2>1, <2>2
<1>9. ASSUME NEW T, T \subseteq 1..n
      PROVE  SumFunctionOnSet(h, T) = Cardinality({i \in DOMAIN ords : \E x \in T : ords[i] = order[x]})
  <2>1. IsFiniteSet(1..n)  BY <1>n, FS_Interval
  <2>2. IsFiniteSet(T)  BY <1>9, <2>1, FS_Subset
  <2>3. \A x, y \in T : order[x] = order[y] => x = y  BY <1>8, <1>9
  <2>4. \A x \in T : h[x] = Occurrences(ords, order[x])  BY <1>7, <1>9
  <2> DEFINE told == {i \in DOMAIN ords : \E x \in T : ords[i] = order[x]}
  <2>5. told = {i \in DOMAIN ords : \E x \in T : ords[i] = order[x]}  OBVIOUS
  <2>6. Column(ords)  BY <1>1
  <2> HIDE DEF told
  <2>7. SumFunctionOnSet(h, T) = Cardinality(told)
    BY <2>2, <2>3, <2>4, <2>5, <2>6, SumOfOccurrences
  <2> QED  BY <2>5, <2>7
<1>10. SumFunction(h) = Count(vals)
  <2>1. \A i \in DOMAIN ords : \E x \in 1..n : ords[i] = order[x]  BY <1>4 DEF Range
  <2>2. {i \in DOMAIN ords : \E x \in 1..n : ords[i] = order[x]} = DOMAIN vals  BY <1>1, <2>1
  <2>3. SumFunctionOnSet(h, 1..n) = Cardinality(DOMAIN vals)  BY <1>9, <2>2
  <2> QED  BY <1>6, <2>3 DEF SumFunction, Count
<1>11. ASSUME NEW i \in 1..n
       PROVE  data[i].cum = SumFunctionOnSet(h, {k \in DOMAIN data : k >= i})
  <2> DEFINE T == {k \in 1..n : k >= i}
  <2>1. \A x \in 1..n : order[x] >= order[i] <=> x \in T
    <3> SUFFICES ASSUME NEW x \in 1..n PROVE order[x] >= order[i] <=> x >= i
      OBVIOUS
    <3>1. x < i <=> order[x] < order[i]  BY <1>4
    <3> QED  BY <1>n, <1>5, <3>1
  <2>2. \A k \in DOMAIN ords : \E x \in 1..n : ords[k] = order[x]  BY <1>4 DEF Range
  <2>3. {k \in DOMAIN ords : ords[k] >= order[i]} = {k \in DOMAIN ords : \E x \in T : ords[k] = order[x]}
    BY <2>1, <2>2
  <2>4. SumFunctionOnSet(h, T) = Cardinality({k \in DOMAIN ords : ords[k] >= order[i]})
    BY <1>9, <2>3
  <2>5. T = {k \in DOMAIN data : k >= i}  BY <1>6
  <2> QED  BY <1>2, <1>6, <2>4, <2>5
<1> QED  BY <1>6, <1>10, <1>11 DEF data, h

LEMMA TableFacts ==
  ASSUME NEW t \in Contents
  PROVE  /\ Column(Values(t)) /\ Column(GroupsOf(t))
         /\ Count(t) = Count(Values(t)) /\ Count(t) = Count(GroupsOf(t)) /\ Count(t) \in Nat
         /\ \A g : /\ Column(Values(InGroup(t, g)))
                   /\ Count(Values(InGroup(t, g))) = Occurrences(GroupsOf(t), g)
<1>1. IsFiniteSet(DOMAIN t) /\ t \in [DOMAIN t -> Rows]
  BY DistributionAssumption DEF DistributionAssumption
<1>2. \A i \in DOMAIN t : t[i].value \in Nat \cup {Null} /\ t[i].group \in Nat \cup {Null}
  BY <1>1 DEF Rows
<1>3. Column(Values(t)) /\ Column(GroupsOf(t))  BY <1>1, <1>2 DEF Column, Values, GroupsOf
<1>4. Count(t) = Count(Values(t)) /\ Count(t) = Count(GroupsOf(t)) /\ Count(t) \in Nat
  BY <1>1, FS_CardinalityType DEF Count, Values, GroupsOf
<1>5. ASSUME NEW g
      PROVE  /\ Column(Values(InGroup(t, g)))
             /\ Count(Values(InGroup(t, g))) = Occurrences(GroupsOf(t), g)
  <2> DEFINE D == {i \in DOMAIN t : t[i].group = g}
  <2>1. D \in SUBSET DOMAIN t  OBVIOUS
  <2>2. IsFiniteSet(D)  BY <1>1, <2>1, FS_Subset
  <2>3. InGroup(t, g) = [i \in D |-> t[i]]  BY DEF InGroup, RestrictValues, Restrict
  <2>4. Values(InGroup(t, g)) = [i \in D |-> t[i].value]  BY <2>3 DEF Values
  <2>5. Column(Values(InGroup(t, g)))  BY <1>2, <2>2, <2>4 DEF Column
  <2>6. {i \in DOMAIN GroupsOf(t) : GroupsOf(t)[i] = g} = D  BY DEF GroupsOf
  <2>7. Count(Values(InGroup(t, g))) = Cardinality(D)  BY <2>4 DEF Count
  <2> QED  BY <2>5, <2>6, <2>7 DEF Occurrences
<1> QED  BY <1>3, <1>4, <1>5

-----------------------------------------------------------------------------
(* The calls                                                               *)

Plain == {"profile", "topn", "rows"}
Grouped == {"summary", "totals", "groups", "grouptopn", "grouprows"}
IsPart(p) ==
  p = [profile |-> p.profile, topGroups |-> p.topGroups, totals |-> p.totals, groups |-> p.groups]

(* Which statement a call may be at, and what it has not yet read.         *)
ControlInv ==
  /\ table \in Contents /\ pc \in {"idle", "told", "analyze"} \cup Plain \cup Grouped
  /\ pc # "told" => reply.status # "OK"
  /\ pc # "idle" => seen \in Contents
  /\ pc \in Plain => query.groups # 1
  /\ pc \in Grouped => query.groups = 1
  /\ pc = "analyze" => query.tool = "analyze"
  /\ pc \notin {"idle", "told"} /\ fresh => seen = table
  /\ IsPart(part)
  /\ pc \in {"idle", "profile", "analyze", "summary", "totals"} => part.groups = <<>>

ProfileTold(profile, vals) ==
  /\ DOMAIN vals # {} /\ ~ HasNull(TopN(vals, ValueTopN))
  /\ profile = WithTop(Profile(vals), TopN(vals, ValueTopN))
RowsTold(data, vals) ==
  data = <<>> \/ \E bucket : KnownBucket(bucket) /\ data = Distribution(vals, bucket)
GroupTold(g, name) ==
  LET vals == Values(InGroup(seen, name)) IN
  g.group = name /\ ProfileTold(g.profile, vals) /\ RowsTold(g.data, vals)

TopGroups == TopN(GroupsOf(seen), GroupsTopN)
Totals == [groups |-> Cardinality(Range(GroupsOf(seen)) \ {Null}), players |-> Count(seen)]
GroupsTold(groups) ==
  /\ \E G : groups \in Seq(G)
  /\ Len(groups) <= Len(TopGroups)
  /\ \A i \in 1..Len(groups) : GroupTold(groups[i], TopGroups[i].value)
GroupUnderWay == TopGroups[Len(part.groups) + 1].value

(* What a call has read so far is about the table it began with, as long   *)
(* as no refresh came between.                                             *)
PartInv ==
  fresh =>
    /\ pc = "topn" => part.profile = Profile(Values(seen)) /\ DOMAIN Values(seen) # {}
    /\ pc = "rows" => ProfileTold(part.profile, Values(seen))
    /\ pc \in Grouped \ {"summary"} => part.topGroups = TopGroups /\ ~ HasNull(TopGroups)
    /\ pc \in {"groups", "grouptopn", "grouprows"} => part.totals = Totals /\ GroupsTold(part.groups)
    /\ pc \in {"grouptopn", "grouprows"} => Len(part.groups) < Len(TopGroups)
    /\ pc = "grouptopn" => part.profile = Profile(Values(InGroup(seen, GroupUnderWay)))
    /\ pc = "grouprows" => ProfileTold(part.profile, Values(InGroup(seen, GroupUnderWay)))

TailOf(top) ==
  IF Totals.groups - Len(top) = 0 THEN NoTail
  ELSE [groups |-> Totals.groups - Len(top), players |-> Totals.players - HeadSum(top)]

ReplyInv ==
  Told =>
    /\ query.groups # 1 => ProfileTold(reply.profile, Values(seen)) /\ RowsTold(reply.data, Values(seen))
    /\ query.groups = 1 => /\ ~ HasNull(TopGroups) /\ GroupsTold(reply.groups)
                           /\ Len(reply.groups) = Len(TopGroups)
                           /\ reply.tail = TailOf(TopGroups)

Inv == ControlInv /\ PartInv /\ ReplyInv

LEMMA InitInv == Init => Inv
<1> SUFFICES ASSUME Init PROVE Inv  OBVIOUS
<1>1. ControlInv
  BY DEF Init, ControlInv, NoReply, Answer, NoPart, IsPart, Plain, Grouped
<1>2. PartInv /\ ReplyInv
  BY DEF Init, PartInv, ReplyInv, Told, NoReply, Answer, Grouped
<1> QED  BY <1>1, <1>2 DEF Inv

LEMMA ControlStep == ControlInv /\ [AnalysisNext]_vars => ControlInv'
<1> SUFFICES ASSUME ControlInv, [AnalysisNext]_vars PROVE ControlInv'  OBVIOUS
<1> USE DEF ControlInv, Plain, Grouped
<1>1. ASSUME NEW rows \in Contents, Refresh(rows) PROVE ControlInv'
  BY <1>1 DEF Refresh
<1>2. ASSUME NEW q, Begin(q) PROVE ControlInv'
  BY <1>2 DEF Begin, Call
<1>3. CASE StatementFails
  BY <1>3 DEF StatementFails, Reading, Reply, Answer
<1>4. CASE Deliver
  BY <1>4 DEF Deliver, NoPart, NoReply, Answer, IsPart
<1>5. CASE ReadProfile
  BY <1>5 DEF ReadProfile, Reading, Reply, Go, Answer, IsPart
<1>6. CASE ReadTopN
  BY <1>6 DEF ReadTopN, Reading, Reply, Go, Answer, IsPart
<1>7. CASE ReadRows
  BY <1>7 DEF ReadRows, Reading, Reply, Answer
<1>8. CASE ReadGroups
  BY <1>8 DEF ReadGroups, Reading, Reply, Go, Answer, IsPart
<1>9. CASE ReadTotals
  BY <1>9 DEF ReadTotals, Reading, Reply, Go, Answer, IsPart
<1>10. CASE ReadGroupProfile
  BY <1>10 DEF ReadGroupProfile, Reading, Reply, Go, Answer, IsPart
<1>11. CASE ReadGroupTopN
  BY <1>11 DEF ReadGroupTopN, Reading, Reply, Go, GroupDone, Answer, IsPart
<1>12. CASE ReadGroupRows
  BY <1>12 DEF ReadGroupRows, Reading, Reply, Go, GroupDone, Answer, IsPart
<1>13. CASE FinishGroups
  BY <1>13 DEF FinishGroups, Reading, Reply, Answer
<1>14. ASSUME NEW args \in Calls, BeginAnalysis(args) PROVE ControlInv'
  BY <1>14 DEF BeginAnalysis, Call, Answer, AnalyzeInput
<1>15. CASE ReadAnalysis
  BY <1>15 DEF ReadAnalysis, Reading, Reply, Answer
<1>16. CASE UNCHANGED vars
  BY <1>16 DEF vars
<1> QED
  BY <1>1, <1>2, <1>3, <1>4, <1>5, <1>6, <1>7, <1>8, <1>9, <1>10, <1>11, <1>12, <1>13,
     <1>14, <1>15, <1>16 DEF AnalysisNext, Next

(* A group that is told has rows.                                          *)
LEMMA NamedFacts ==
  ASSUME NEW vals, Column(vals), NEW v \in Range(vals)
  PROVE  Occurrences(vals, v) >= 1
<1> DEFINE S == {i \in DOMAIN vals : vals[i] = v}
<1>1. IsFiniteSet(S) /\ S # {}
  <2>1. S \in SUBSET DOMAIN vals /\ IsFiniteSet(DOMAIN vals)  BY DEF Column
  <2>2. S # {}  BY DEF Range
  <2> QED  BY <2>1, <2>2, FS_Subset
<1> HIDE DEF S
<1>2. Cardinality(S) \in Nat /\ Cardinality(S) # 0  BY <1>1, FS_CardinalityType, FS_EmptySet
<1> QED  BY <1>2 DEF Occurrences, S

LEMMA TopGroupsFacts ==
  ASSUME seen \in Contents
  PROVE  /\ Len(TopGroups) \in Nat /\ DOMAIN TopGroups = 1..Len(TopGroups)
         /\ \A i \in DOMAIN TopGroups : DOMAIN Values(InGroup(seen, TopGroups[i].value)) # {}
<1>1. GroupsTopN \in Nat  BY DistributionAssumption DEF DistributionAssumption
<1>2. Column(GroupsOf(seen))
      /\ \A g : /\ Column(Values(InGroup(seen, g)))
                /\ Count(Values(InGroup(seen, g))) = Occurrences(GroupsOf(seen), g)
  BY TableFacts
<1>3. /\ Len(TopGroups) \in Nat /\ DOMAIN TopGroups = 1..Len(TopGroups)
      /\ \A i \in DOMAIN TopGroups : TopGroups[i].value \in Range(GroupsOf(seen))
  BY <1>1, <1>2, TopNFacts DEF TopGroups
<1>4. ASSUME NEW i \in DOMAIN TopGroups
      PROVE  DOMAIN Values(InGroup(seen, TopGroups[i].value)) # {}
  <2> DEFINE v == TopGroups[i].value
  <2>1. v \in Range(GroupsOf(seen))  BY <1>3
  <2> HIDE DEF v
  <2>2. Occurrences(GroupsOf(seen), v) >= 1  BY <1>2, <2>1, NamedFacts
  <2>3. Count(Values(InGroup(seen, v))) >= 1  BY <1>2, <2>2
  <2>4. DOMAIN Values(InGroup(seen, v)) # {}  BY <1>2, <2>3, ColumnFacts
  <2> QED  BY <2>4 DEF v
<1> QED  BY <1>3, <1>4

(* One more group is told.                                                 *)
LEMMA GroupDoneFacts ==
  ASSUME seen \in Contents, NEW groups, GroupsTold(groups), Len(groups) < Len(TopGroups), NEW g,
         GroupTold(g, TopGroups[Len(groups) + 1].value)
  PROVE  GroupsTold(Append(groups, g))
<1>1. PICK G : groups \in Seq(G)  BY DEF GroupsTold
<1>2. Append(groups, g) \in Seq(G \cup {g}) /\ Len(Append(groups, g)) = Len(groups) + 1
      /\ Len(groups) \in Nat
      /\ \A i \in 1..Len(groups) : Append(groups, g)[i] = groups[i]
      /\ Append(groups, g)[Len(groups) + 1] = g
  <2>1. groups \in Seq(G \cup {g}) /\ g \in G \cup {g}  BY <1>1
  <2> HIDE DEF GroupsTold
  <2> QED  BY <2>1
<1>3. Len(TopGroups) \in Nat  BY TopGroupsFacts
<1>4. \A i \in 1..(Len(groups) + 1) : i \in 1..Len(groups) \/ i = Len(groups) + 1  BY <1>2
<1>5. \A i \in 1..(Len(groups) + 1) : GroupTold(Append(groups, g)[i], TopGroups[i].value)
  BY <1>2, <1>4 DEF GroupsTold
<1> QED  BY <1>2, <1>3, <1>5 DEF GroupsTold

LEMMA PartStep == ControlInv /\ PartInv /\ [AnalysisNext]_vars => PartInv'
<1> SUFFICES ASSUME ControlInv, PartInv, [AnalysisNext]_vars, fresh' PROVE PartInv'
  BY DEF PartInv
<1> USE DEF Plain, Grouped
<1>0. MinSample \in Nat \ {0} /\ ValueTopN \in Nat /\ GroupsTopN \in Nat
  BY DistributionAssumption DEF DistributionAssumption
<1>1. ASSUME NEW rows \in Contents, Refresh(rows) PROVE PartInv'
  BY <1>1 DEF Refresh, PartInv
<1>2. ASSUME NEW q, Begin(q) PROVE PartInv'
  BY <1>2 DEF Begin, Call, PartInv
<1>3. CASE StatementFails
  BY <1>3 DEF StatementFails, Reading, Reply, PartInv
<1>4. CASE Deliver
  BY <1>4 DEF Deliver, PartInv
<1>r. ASSUME NEW place, Reading(place), place \notin {"idle", "told"}
      PROVE  /\ pc = place /\ fresh /\ seen = table /\ seen' = seen /\ seen \in Contents /\ table' = table
             /\ query' = query
  BY <1>r DEF Reading, ControlInv
<1>p. IsPart(part)  BY DEF ControlInv
<1>v. seen' = seen => TopGroups' = TopGroups /\ Totals' = Totals
  BY DEF TopGroups, Totals
<1>5. CASE ReadProfile
  <2>1. pc = "profile" /\ seen = table /\ seen' = seen /\ seen \in Contents
    BY <1>5, <1>r DEF ReadProfile
  <2>2. CASE pc' = "told"  BY <2>2 DEF PartInv
  <2>3. CASE pc' # "told"
    <3> DEFINE vals == Values(table)
    <3>1. /\ pc' = "topn" /\ part' = [part EXCEPT !.profile = Profile(vals)]
          /\ ~ Profile(vals).count < MinSample
      BY <1>5, <2>3 DEF ReadProfile, Reply, Go
    <3>2. Profile(vals).count = Count(vals)  BY DEF Profile
    <3>3. Column(vals)  BY <2>1, TableFacts
    <3>4. DOMAIN vals # {}
      <4>1. Count(vals) \in Nat /\ (Count(vals) = 0 <=> DOMAIN vals = {})  BY <3>3, ColumnFacts
      <4>2. ~ Count(vals) < MinSample  BY <3>1, <3>2
      <4> HIDE DEF vals
      <4> QED  BY <1>0, <4>1, <4>2
    <3>5. part'.profile = Profile(vals)  BY <1>p, <3>1 DEF IsPart
    <3> QED  BY <2>1, <3>1, <3>4, <3>5 DEF PartInv
  <2> QED  BY <2>2, <2>3
<1>6. CASE ReadTopN
  <2>1. pc = "topn" /\ seen = table /\ seen' = seen /\ fresh  BY <1>6, <1>r DEF ReadTopN
  <2>2. CASE pc' = "told"  BY <2>2 DEF PartInv
  <2>3. CASE pc' # "told"
    <3> DEFINE vals == Values(table)  p == WithTop(part.profile, TopN(vals, ValueTopN))
    <3>1. /\ ~ HasNull(TopN(vals, ValueTopN))
          /\ pc' = "rows" /\ part' = [part EXCEPT !.profile = p]
      BY <1>6, <2>3 DEF ReadTopN, Reply, Go
    <3>2. part.profile = Profile(vals) /\ DOMAIN vals # {}  BY <2>1 DEF PartInv
    <3>3. ProfileTold(p, vals)  BY <3>1, <3>2 DEF ProfileTold
    <3> HIDE DEF p
    <3>4. part'.profile = p  BY <1>p, <3>1 DEF IsPart
    <3>5. pc' = "rows" /\ seen' = table  BY <2>1, <3>1
    <3> QED  BY <3>3, <3>4, <3>5 DEF PartInv, ProfileTold
  <2> QED  BY <2>2, <2>3
<1>7. CASE ReadRows
  BY <1>7 DEF ReadRows, Reply, PartInv
<1>8. CASE ReadGroups
  <2>1. pc = "summary" /\ seen = table /\ seen' = seen  BY <1>8, <1>r DEF ReadGroups
  <2>2. CASE pc' = "told"  BY <2>2 DEF PartInv
  <2>3. CASE pc' # "told"
    <3> DEFINE top == TopN(GroupsOf(table), GroupsTopN)
    <3>1. ~ HasNull(top) /\ pc' = "totals" /\ part' = [part EXCEPT !.topGroups = top]
      BY <1>8, <2>3 DEF ReadGroups, Reply, Go
    <3>2. part'.topGroups = top  BY <1>p, <3>1 DEF IsPart
    <3>3. TopGroups' = top  BY <2>1 DEF TopGroups
    <3> HIDE DEF top
    <3> QED  BY <3>1, <3>2, <3>3 DEF PartInv
  <2> QED  BY <2>2, <2>3
<1>9. CASE ReadTotals
  <2>1. pc = "totals" /\ seen = table /\ seen' = seen /\ fresh /\ seen \in Contents
    BY <1>9, <1>r DEF ReadTotals
  <2>2. CASE pc' = "told"  BY <2>2 DEF PartInv
  <2>3. CASE pc' # "told"
    <3> DEFINE tot == [groups |-> Cardinality(Range(GroupsOf(table)) \ {Null}), players |-> Count(table)]
    <3>1. pc' = "groups" /\ part' = [part EXCEPT !.totals = tot]
      BY <1>9, <2>3 DEF ReadTotals, Reply, Go
    <3>2. tot = Totals  BY <2>1 DEF Totals
    <3> HIDE DEF tot
    <3>3. part'.totals = tot /\ part'.topGroups = part.topGroups /\ part'.groups = part.groups
      BY <1>p, <3>1 DEF IsPart
    <3>4. part.topGroups = TopGroups /\ ~ HasNull(TopGroups)  BY <2>1 DEF PartInv
    <3>5. part.groups = <<>>  BY <2>1 DEF ControlInv
    <3>6. Len(TopGroups) \in Nat  BY <2>1, TopGroupsFacts
    <3>7. GroupsTold(<<>>)'
      <4>1. <<>> \in Seq({}) /\ Len(<<>>) = 0  OBVIOUS
      <4>2. (Len(TopGroups) \in Nat)'  BY <1>v, <2>1, <3>6
      <4> QED  BY <4>1, <4>2 DEF GroupsTold
    <3> QED  BY <1>v, <2>1, <3>1, <3>2, <3>3, <3>4, <3>5, <3>7 DEF PartInv
  <2> QED  BY <2>2, <2>3
<1>10. CASE ReadGroupProfile
  <2>1. pc = "groups" /\ seen = table /\ seen' = seen /\ fresh /\ seen \in Contents
    BY <1>10, <1>r DEF ReadGroupProfile
  <2>2. CASE pc' = "told"  BY <2>2 DEF PartInv
  <2>3. CASE pc' # "told"
    <3> DEFINE p == Profile(Values(InGroup(table, NextGroup)))
    <3>1. /\ pc' = "grouptopn" /\ part' = [part EXCEPT !.profile = p]
          /\ Len(part.groups) < Len(part.topGroups)
      BY <1>10, <2>3 DEF ReadGroupProfile, Reply, Go
    <3>2. /\ part.topGroups = TopGroups /\ ~ HasNull(TopGroups) /\ part.totals = Totals
          /\ GroupsTold(part.groups)
      BY <2>1 DEF PartInv
    <3>3. /\ part'.profile = p /\ part'.totals = part.totals
          /\ part'.topGroups = part.topGroups /\ part'.groups = part.groups
      BY <1>p, <3>1 DEF IsPart
    <3>4. GroupsTold(part.groups)'  BY <1>v, <2>1, <3>2, <3>3 DEF GroupsTold, GroupTold
    <3>5. p = Profile(Values(InGroup(seen, GroupUnderWay)))'
      BY <1>v, <2>1, <3>2, <3>3 DEF NextGroup, GroupUnderWay
    <3> HIDE DEF p
    <3> QED  BY <1>v, <2>1, <3>1, <3>2, <3>3, <3>4, <3>5 DEF PartInv
  <2> QED  BY <2>2, <2>3
<1>g. ASSUME seen = table, seen' = seen, seen \in Contents, fresh, pc \in {"grouptopn", "grouprows"},
             NEW p, NEW data, GroupDone(p, data),
             ProfileTold(p, Values(InGroup(table, NextGroup))),
             RowsTold(data, Values(InGroup(table, NextGroup)))
      PROVE  PartInv'
  <2> DEFINE g == [group |-> NextGroup, profile |-> p, data |-> data]
  <2>1. pc' = "groups" /\ part' = [part EXCEPT !.groups = Append(part.groups, g)]
    BY <1>g DEF GroupDone, Go
  <2>2. /\ part.topGroups = TopGroups /\ ~ HasNull(TopGroups) /\ part.totals = Totals
        /\ GroupsTold(part.groups) /\ Len(part.groups) < Len(TopGroups)
    BY <1>g DEF PartInv
  <2>3. GroupTold(g, TopGroups[Len(part.groups) + 1].value)
    BY <1>g, <2>2 DEF GroupTold, NextGroup
  <2> HIDE DEF g
  <2>4. /\ part'.groups = Append(part.groups, g) /\ part'.totals = part.totals
        /\ part'.topGroups = part.topGroups
    BY <1>p, <2>1 DEF IsPart
  <2>5. GroupsTold(Append(part.groups, g))  BY <1>g, <2>2, <2>3, GroupDoneFacts
  <2>6. GroupsTold(part.groups)'
    BY <1>g, <1>v, <2>4, <2>5 DEF GroupsTold, GroupTold
  <2> QED  BY <1>g, <1>v, <2>1, <2>2, <2>4, <2>6 DEF PartInv
<1>11. CASE ReadGroupTopN
  <2>1. pc = "grouptopn" /\ seen = table /\ seen' = seen /\ fresh /\ seen \in Contents
    BY <1>11, <1>r DEF ReadGroupTopN
  <2> DEFINE vals == Values(InGroup(table, NextGroup))
             p == WithTop(part.profile, TopN(vals, ValueTopN))
  <2>2. CASE pc' = "told"  BY <2>2 DEF PartInv
  <2>3. CASE pc' # "told"
    <3>1. /\ ~ HasNull(TopN(vals, ValueTopN))
          /\ \/ pc' = "grouprows" /\ part' = [part EXCEPT !.profile = p]
             \/ GroupDone(p, <<>>)
      BY <1>11, <2>3 DEF ReadGroupTopN, Reply, Go
    <3>2. /\ part.topGroups = TopGroups /\ ~ HasNull(TopGroups) /\ part.totals = Totals
          /\ GroupsTold(part.groups) /\ Len(part.groups) < Len(TopGroups)
          /\ part.profile = Profile(Values(InGroup(seen, GroupUnderWay)))
      BY <2>1 DEF PartInv
    <3>3. NextGroup = GroupUnderWay  BY <3>2 DEF NextGroup, GroupUnderWay
    <3>4. DOMAIN vals # {}
      <4>1. Len(part.groups) + 1 \in DOMAIN TopGroups
        <5>1. Len(part.groups) \in Nat  BY <3>2 DEF GroupsTold
        <5> QED  BY <2>1, <3>2, <5>1, TopGroupsFacts
      <4> QED  BY <2>1, <3>3, <4>1, TopGroupsFacts DEF GroupUnderWay
    <3>5. ProfileTold(p, vals)  BY <2>1, <3>1, <3>2, <3>3, <3>4 DEF ProfileTold
    <3> HIDE DEF p, vals
    <3>6. CASE GroupDone(p, <<>>)
      BY <1>g, <2>1, <3>5, <3>6 DEF RowsTold, vals
    <3>7. CASE pc' = "grouprows" /\ part' = [part EXCEPT !.profile = p]
      <4>1. /\ part'.profile = p /\ part'.totals = part.totals
            /\ part'.topGroups = part.topGroups /\ part'.groups = part.groups
        BY <1>p, <3>7 DEF IsPart
      <4>2. GroupsTold(part.groups)'  BY <1>v, <2>1, <3>2, <4>1 DEF GroupsTold, GroupTold
      <4>3. (GroupUnderWay = NextGroup)' /\ NextGroup' = NextGroup
        BY <1>v, <2>1, <3>2, <4>1 DEF GroupUnderWay, NextGroup
      <4>4. ProfileTold(part'.profile, Values(InGroup(seen, GroupUnderWay))')
        BY <2>1, <3>3, <3>5, <4>1, <4>3 DEF vals
      <4> QED  BY <1>v, <2>1, <3>2, <3>7, <4>1, <4>2, <4>4 DEF PartInv, ProfileTold
    <3> QED  BY <3>1, <3>6, <3>7
  <2> QED  BY <2>2, <2>3
<1>12. CASE ReadGroupRows
  <2>1. pc = "grouprows" /\ seen = table /\ seen' = seen /\ fresh /\ seen \in Contents
    BY <1>12, <1>r DEF ReadGroupRows
  <2> DEFINE vals == Values(InGroup(table, NextGroup))
             data == RunDistribution(vals, 0, query.bucket)
  <2>2. CASE pc' = "told"  BY <2>2 DEF PartInv
  <2>3. CASE pc' # "told"
    <3>1. GroupDone(part.profile, data.data)
      BY <1>12, <2>3 DEF ReadGroupRows, Reply
    <3>2. RowsTold(data.data, vals)  BY DEF RunDistribution, RowsTold, KnownBucket
    <3>3. NextGroup = GroupUnderWay /\ ProfileTold(part.profile, Values(InGroup(seen, GroupUnderWay)))
      BY <2>1 DEF PartInv, NextGroup, GroupUnderWay
    <3> HIDE DEF data
    <3> QED  BY <1>g, <2>1, <3>1, <3>2, <3>3
  <2> QED  BY <2>2, <2>3
<1>13. CASE FinishGroups
  BY <1>13 DEF FinishGroups, Reply, PartInv
<1>14. ASSUME NEW args \in Calls, BeginAnalysis(args) PROVE PartInv'
  BY <1>14 DEF BeginAnalysis, Call, PartInv
<1>15. CASE ReadAnalysis
  BY <1>15 DEF ReadAnalysis, Reply, PartInv
<1>16. CASE UNCHANGED vars
  BY <1>16 DEF vars, PartInv, TopGroups, Totals, GroupUnderWay, GroupsTold, GroupTold
<1> QED
  BY <1>1, <1>2, <1>3, <1>4, <1>5, <1>6, <1>7, <1>8, <1>9, <1>10, <1>11, <1>12, <1>13,
     <1>14, <1>15, <1>16 DEF AnalysisNext, Next

LEMMA ReplyStep == ControlInv /\ PartInv /\ ReplyInv /\ [AnalysisNext]_vars => ReplyInv'
<1> SUFFICES ASSUME ControlInv, PartInv, ReplyInv, [AnalysisNext]_vars, Told' PROVE ReplyInv'
  BY DEF ReplyInv
<1> USE DEF Plain, Grouped
<1>0. reply'.status = "OK" /\ fresh' /\ query'.tool = "query_distribution"  BY DEF Told
<1>u. ASSUME UNCHANGED <<query, reply, seen>>, fresh' => fresh PROVE ReplyInv'
  BY <1>u DEF ReplyInv, Told, TopGroups, TailOf, Totals, GroupsTold, GroupTold
<1>n. ASSUME reply' = reply, pc # "told" PROVE FALSE  BY <1>0, <1>n DEF ControlInv
<1>e. ASSUME NEW status, reply' = Answer(status), status # "OK" PROVE FALSE
  BY <1>0, <1>e DEF Answer
<1>r. ASSUME NEW place, Reading(place), place \notin {"idle", "told"}
      PROVE  /\ pc = place /\ fresh /\ seen = table /\ seen' = seen /\ query' = query
             /\ TopGroups' = TopGroups /\ Totals' = Totals
  BY <1>0, <1>r DEF Reading, ControlInv, TopGroups, Totals
<1>1. ASSUME NEW rows \in Contents, Refresh(rows) PROVE ReplyInv'
  BY <1>1, <1>u DEF Refresh
<1>2. ASSUME NEW q, Begin(q) PROVE FALSE
  BY <1>2, <1>n DEF Begin, Call
<1>3. CASE StatementFails
  BY <1>3, <1>e DEF StatementFails, Reply
<1>4. CASE Deliver
  BY <1>4, <1>e DEF Deliver, NoReply
<1>5. CASE ReadProfile
  <2>1. pc = "profile"  BY <1>5, <1>r DEF ReadProfile
  <2> QED  BY <1>5, <1>e, <1>n, <2>1 DEF ReadProfile, Reply, Go
<1>6. CASE ReadTopN
  <2> DEFINE top == TopN(Values(table), ValueTopN)  p == WithTop(part.profile, top)
  <2>1. pc = "topn" /\ fresh /\ seen = table /\ seen' = seen /\ query' = query
    BY <1>6, <1>r DEF ReadTopN
  <2>2. ~ HasNull(top) /\ reply' = [Answer("OK") EXCEPT !.profile = p]
    BY <1>6, <1>e, <1>n, <2>1 DEF ReadTopN, Reply, Go
  <2>3. ProfileTold(p, Values(seen))  BY <2>1, <2>2 DEF PartInv, ProfileTold
  <2> HIDE DEF p
  <2>4. reply'.profile = p /\ reply'.data = <<>>  BY <2>2 DEF Answer
  <2>5. query'.groups # 1  BY <2>1 DEF ControlInv
  <2> QED  BY <2>1, <2>3, <2>4, <2>5 DEF ReplyInv, ProfileTold, RowsTold
<1>7. CASE ReadRows
  <2> DEFINE data == RunDistribution(Values(table), query.groups, query.bucket)
  <2>1. pc = "rows" /\ fresh /\ seen = table /\ seen' = seen /\ query' = query
    BY <1>7, <1>r DEF ReadRows
  <2>2. data.status = "OK" /\ reply' = [Answer("OK") EXCEPT !.profile = part.profile, !.data = data.data]
    BY <1>7, <1>e DEF ReadRows, Reply
  <2>3. RowsTold(data.data, Values(seen))  BY <2>1 DEF RunDistribution, RowsTold, KnownBucket
  <2> HIDE DEF data
  <2>4. reply'.profile = part.profile /\ reply'.data = data.data  BY <2>2 DEF Answer
  <2>5. ProfileTold(part.profile, Values(seen))  BY <2>1 DEF PartInv
  <2>6. query'.groups # 1  BY <2>1 DEF ControlInv
  <2> QED  BY <2>1, <2>3, <2>4, <2>5, <2>6 DEF ReplyInv, ProfileTold, RowsTold
<1>8. CASE ReadGroups
  <2>1. pc = "summary"  BY <1>8, <1>r DEF ReadGroups
  <2> QED  BY <1>8, <1>e, <1>n, <2>1 DEF ReadGroups, Reply, Go
<1>9. CASE ReadTotals
  <2>1. pc = "totals"  BY <1>9, <1>r DEF ReadTotals
  <2> QED  BY <1>9, <1>e, <1>n, <2>1 DEF ReadTotals, Reply, Go
<1>10. CASE ReadGroupProfile
  <2>1. pc = "groups"  BY <1>10, <1>r DEF ReadGroupProfile
  <2> QED  BY <1>10, <1>e, <1>n, <2>1 DEF ReadGroupProfile, Reply, Go
<1>11. CASE ReadGroupTopN
  <2>1. pc = "grouptopn"  BY <1>11, <1>r DEF ReadGroupTopN
  <2> QED  BY <1>11, <1>e, <1>n, <2>1 DEF ReadGroupTopN, Reply, Go, GroupDone
<1>12. CASE ReadGroupRows
  <2>1. pc = "grouprows"  BY <1>12, <1>r DEF ReadGroupRows
  <2> QED  BY <1>12, <1>e, <1>n, <2>1 DEF ReadGroupRows, Reply, Go, GroupDone
<1>13. CASE FinishGroups
  <2>1. pc = "groups" /\ fresh /\ seen' = seen /\ query' = query /\ TopGroups' = TopGroups
        /\ Totals' = Totals
    BY <1>13, <1>r DEF FinishGroups
  <2>2. /\ Len(part.groups) = Len(part.topGroups)
        /\ reply' = [Answer("OK") EXCEPT !.groups = part.groups, !.tail = GroupsTail]
    BY <1>13 DEF FinishGroups, Reply
  <2>3. /\ part.topGroups = TopGroups /\ ~ HasNull(TopGroups) /\ part.totals = Totals
        /\ GroupsTold(part.groups)
    BY <2>1 DEF PartInv
  <2>4. GroupsTail = TailOf(TopGroups)  BY <2>3 DEF GroupsTail, TailOf
  <2>5. reply'.groups = part.groups /\ reply'.tail = GroupsTail  BY <2>2 DEF Answer
  <2>6. GroupsTold(reply.groups)'  BY <2>1, <2>3, <2>5 DEF GroupsTold, GroupTold
  <2>7. TailOf(TopGroups)' = TailOf(TopGroups)  BY <2>1 DEF TailOf
  <2>8. query'.groups = 1  BY <2>1 DEF ControlInv
  <2> QED  BY <2>1, <2>2, <2>3, <2>4, <2>5, <2>6, <2>7, <2>8 DEF ReplyInv
<1>14. ASSUME NEW args \in Calls, BeginAnalysis(args) PROVE FALSE
  <2>1. query' = AnalyzeInput(args)  BY <1>14 DEF BeginAnalysis, Call
  <2>2. AnalyzeInput(args).tool = "analyze"  BY DEF AnalyzeInput
  <2> QED  BY <1>0, <2>1, <2>2
<1>15. CASE ReadAnalysis
  <2>1. pc = "analyze" /\ query' = query  BY <1>15, <1>r DEF ReadAnalysis
  <2> QED  BY <1>0, <2>1 DEF ControlInv
<1>16. CASE UNCHANGED vars
  BY <1>16, <1>u DEF vars
<1> QED
  BY <1>1, <1>2, <1>3, <1>4, <1>5, <1>6, <1>7, <1>8, <1>9, <1>10, <1>11, <1>12, <1>13,
     <1>14, <1>15, <1>16 DEF AnalysisNext, Next

LEMMA Invariant == AnalysisSpec => []Inv
<1>1. Inv /\ [AnalysisNext]_vars => Inv'  BY ControlStep, PartStep, ReplyStep DEF Inv
<1> QED  BY <1>1, InitInv, PTL DEF AnalysisSpec

-----------------------------------------------------------------------------
(* What a told profile says                                                *)

LEMMA ProfileCovers ==
  ASSUME NEW x, Column(x.rows), ProfileTold(x.profile, x.rows), RowsTold(x.data, x.rows)
  PROVE  Covers(x) /\ RowsCover(x)
<1> DEFINE vals == x.rows  top == TopN(vals, ValueTopN)  pr == x.profile
           tail == {i \in DOMAIN vals : \A t \in Range(top) : t.value # vals[i]}
<1>0. ValueTopN \in Nat  BY DistributionAssumption DEF DistributionAssumption
<1>1. /\ pr.count = Count(vals) /\ pr.distinct = Cardinality(Range(vals) \ {Null})
      /\ pr.topN = top /\ pr.tailCount = Count(vals) - HeadSum(top)
  <2>1. pr = WithTop(Profile(vals), top)  BY DEF ProfileTold
  <2> QED  BY <2>1 DEF WithTop, Profile
<1>2. DOMAIN vals # {} /\ ~ HasNull(top)  BY DEF ProfileTold
<1> HIDE DEF top, pr, vals
<1>c. Column(vals)  BY DEF vals
<1>3. /\ Count(vals) - HeadSum(top) = Cardinality(tail)
      /\ Cardinality(tail) = 0 <=> Len(top) = Cardinality(Range(vals))
  BY <1>0, <1>c, TailFacts DEF top
<1>4. Count(vals) \in Nat /\ (Count(vals) = 0 <=> DOMAIN vals = {})  BY <1>c, ColumnFacts
<1>5. Len(top) = Cardinality(Range(vals)) => Null \notin Range(vals)
  <2>1. Len(top) = Cardinality(Range(vals)) => \A v \in Range(vals) : \E i \in DOMAIN top : top[i].value = v
    BY <1>0, <1>c, TopNFacts DEF top
  <2> QED  BY <1>2, <2>1 DEF HasNull
<1>6. Null \notin Range(vals) => Range(vals) \ {Null} = Range(vals)  OBVIOUS
<1>7. Covers(x)
  <2>1. x.profile.count = Count(x.rows) /\ x.profile.count > 0  BY <1>1, <1>2, <1>4 DEF pr, vals
  <2>2. x.profile.tailCount = Cardinality(tail) /\ x.profile.topN = top  BY <1>1, <1>3 DEF pr
  <2>3. x.profile.tailCount = 0 => Len(x.profile.topN) = x.profile.distinct
    BY <1>1, <1>3, <1>5, <1>6, <2>2 DEF pr
  <2> QED  BY <2>1, <2>2, <2>3 DEF Covers, vals
<1>8. RowsCover(x)
  <2>1. CASE x.data = <<>>  BY <2>1 DEF RowsCover
  <2>2. CASE x.data # <<>>
    <3>1. PICK bucket : KnownBucket(bucket) /\ x.data = Distribution(vals, bucket)
      BY <2>2 DEF RowsTold, vals
    <3> QED  BY <1>c, <3>1, DistributionFacts DEF RowsCover, vals
  <2> QED  BY <2>1, <2>2
<1> QED  BY <1>7, <1>8

LEMMA ProfileQuantiles ==
  ASSUME NEW x, Column(x.rows), ProfileTold(x.profile, x.rows), Null \notin Range(x.rows), NEW p \in Percents
  PROVE  x.profile.quantile[p] =
           Min({v \in Range(x.rows) :
                  100 * Cardinality({i \in DOMAIN x.rows : x.rows[i] <= v}) >= p * Count(x.rows)})
<1>1. x.profile = WithTop(Profile(x.rows), TopN(x.rows, ValueTopN)) /\ DOMAIN x.rows # {}
  BY DEF ProfileTold
<1>2. x.profile.quantile = Profile(x.rows).quantile  BY <1>1 DEF WithTop, Profile
<1> QED  BY <1>1, <1>2, QuantileFacts

(* Nobody is left out of the groups and their tail, unless a row has no    *)
(* group.                                                                  *)
LEMMA GroupsCover ==
  ASSUME seen \in Contents, GroupsTold(reply.groups), Len(reply.groups) = Len(TopGroups),
         reply.tail = TailOf(TopGroups), Null \notin Range(GroupsOf(seen))
  PROVE  LET counts == [i \in DOMAIN reply.groups |-> reply.groups[i].profile.count] IN
         /\ SumFunction(counts) + reply.tail.players = Count(seen)
         /\ Len(reply.groups) + reply.tail.groups = Cardinality(Range(GroupsOf(seen)))
<1> DEFINE names == GroupsOf(seen)  n == Len(TopGroups)  k == Cardinality(Range(names))
           counts == [i \in DOMAIN reply.groups |-> reply.groups[i].profile.count]
           tail == {i \in DOMAIN names : \A t \in Range(TopGroups) : t.value # names[i]}
<1>1. Column(names) /\ Count(seen) = Count(names) /\ Count(seen) \in Nat
      /\ \A g : Count(Values(InGroup(seen, g))) = Occurrences(names, g)
  BY TableFacts
<1>2. GroupsTopN \in Nat  BY DistributionAssumption DEF DistributionAssumption
<1> HIDE DEF names
<1>3. /\ n \in Nat /\ DOMAIN TopGroups = 1..n /\ k \in Nat /\ n \in 0..k
      /\ \A i \in DOMAIN TopGroups : TopGroups[i].count = Occurrences(names, TopGroups[i].value)
  BY <1>1, <1>2, TopNFacts DEF TopGroups, names
<1>4. /\ HeadSum(TopGroups) \in Nat /\ Count(names) - HeadSum(TopGroups) = Cardinality(tail)
      /\ Cardinality(tail) = 0 <=> n = k
  BY <1>1, <1>2, TailFacts DEF TopGroups, names
<1>5. Totals.groups = k /\ Totals.players = Count(seen)
  <2>1. Range(names) \ {Null} = Range(names)  BY DEF names
  <2> QED  BY <2>1 DEF Totals, names
<1>6. DOMAIN reply.groups = 1..n
  BY DEF GroupsTold
<1>7. counts = Counts(TopGroups)
  <2>1. ASSUME NEW i \in 1..n PROVE reply.groups[i].profile.count = TopGroups[i].count
    <3> DEFINE v == TopGroups[i].value
    <3>1. GroupTold(reply.groups[i], v)  BY <2>1 DEF GroupsTold
    <3> HIDE DEF v
    <3> DEFINE vals == Values(InGroup(seen, v))
    <3>2. reply.groups[i].profile = WithTop(Profile(vals), TopN(vals, ValueTopN))
      BY <3>1 DEF GroupTold, ProfileTold
    <3>3. reply.groups[i].profile.count = Count(vals)
      <4> HIDE DEF vals
      <4> QED  BY <3>2 DEF WithTop, Profile
    <3>4. Count(vals) = Occurrences(names, v)  BY <1>1
    <3> QED  BY <1>3, <3>3, <3>4 DEF v
  <2>2. counts = [i \in 1..n |-> reply.groups[i].profile.count]  BY <1>6
  <2>3. Counts(TopGroups) = [i \in 1..n |-> TopGroups[i].count]  BY <1>3 DEF Counts
  <2> HIDE DEF counts, n
  <2> QED  BY <2>1, <2>2, <2>3
<1>8. SumFunction(counts) = HeadSum(TopGroups)  BY <1>7 DEF HeadSum
<1> HIDE DEF counts, tail, k
<1>9. CASE n = k
  <2>1. reply.tail = NoTail  BY <1>3, <1>5, <1>9 DEF TailOf
  <2>2. reply.tail.players = 0 /\ reply.tail.groups = 0  BY <2>1 DEF NoTail
  <2> QED  BY <1>1, <1>3, <1>4, <1>8, <1>9, <2>2 DEF counts, k, names
<1>10. CASE n # k
  <2>1. reply.tail = [groups |-> k - n, players |-> Count(seen) - HeadSum(TopGroups)]
    BY <1>3, <1>5, <1>10 DEF TailOf
  <2>2. reply.tail.groups = k - n /\ reply.tail.players = Count(seen) - HeadSum(TopGroups)  BY <2>1
  <2>3. n + reply.tail.groups = k  BY <1>3, <2>2
  <2>4. HeadSum(TopGroups) + reply.tail.players = Count(seen)  BY <1>1, <1>4, <2>2
  <2> QED  BY <1>8, <2>3, <2>4 DEF counts, k, names
<1> QED  BY <1>9, <1>10

(* What holds of a told profile holds of each part of an answer.           *)
LEMMA PartsTold ==
  ASSUME Inv, Told, NEW x \in Parts
  PROVE  Column(x.rows) /\ ProfileTold(x.profile, x.rows) /\ RowsTold(x.data, x.rows)
<1>1. seen \in Contents  BY DEF Inv, ControlInv, Told
<1>2. CASE query.groups = 1
  <2>1. GroupsTold(reply.groups) /\ Len(reply.groups) = Len(TopGroups)
    BY <1>2 DEF Inv, ReplyInv
  <2>2. PICK g \in Range(reply.groups) :
          x = [rows |-> Values(InGroup(seen, g.group)), profile |-> g.profile, data |-> g.data]
    BY <1>2 DEF Parts
  <2>3. PICK i \in 1..Len(reply.groups) : g = reply.groups[i]
    BY <2>1, <2>2 DEF GroupsTold, Range
  <2>4. GroupTold(g, g.group)  BY <2>1, <2>3 DEF GroupsTold, GroupTold
  <2>5. Column(Values(InGroup(seen, g.group)))  BY <1>1, TableFacts
  <2> QED  BY <2>2, <2>4, <2>5 DEF GroupTold
<1>3. CASE query.groups # 1
  <2>1. x = [rows |-> Values(seen), profile |-> reply.profile, data |-> reply.data]
    BY <1>3 DEF Parts
  <2>2. ProfileTold(reply.profile, Values(seen)) /\ RowsTold(reply.data, Values(seen))
    BY <1>3 DEF Inv, ReplyInv
  <2>3. Column(Values(seen))  BY <1>1, TableFacts
  <2> QED  BY <2>1, <2>2, <2>3
<1> QED  BY <1>2, <1>3

(* EveryRowToldOnce: an answer that no refresh interrupts accounts for     *)
(* every row, whatever the table, the buckets and the limits.              *)
THEOREM RowsToldOnce == AnalysisSpec => []EveryRowToldOnce
<1>1. Inv => EveryRowToldOnce
  <2> SUFFICES ASSUME Inv, Told PROVE EveryRowToldOnce
    BY DEF EveryRowToldOnce
  <2>1. \A x \in Parts : Covers(x) /\ RowsCover(x)  BY PartsTold, ProfileCovers
  <2>2. ASSUME query.groups = 1, Null \notin Range(GroupsOf(seen))
        PROVE  LET counts == [i \in DOMAIN reply.groups |-> reply.groups[i].profile.count] IN
               /\ SumFunction(counts) + reply.tail.players = Count(seen)
               /\ Len(reply.groups) + reply.tail.groups = Cardinality(Range(GroupsOf(seen)))
    <3>1. seen \in Contents  BY DEF Inv, ControlInv, Told
    <3>2. /\ GroupsTold(reply.groups) /\ Len(reply.groups) = Len(TopGroups)
          /\ reply.tail = TailOf(TopGroups)
      BY <2>2 DEF Inv, ReplyInv
    <3> QED  BY <2>2, <3>1, <3>2, GroupsCover
  <2> QED  BY <2>1, <2>2 DEF EveryRowToldOnce
<1> QED  BY <1>1, Invariant, PTL

(* QuantilesNearestRank: every quantile told is the smallest value that    *)
(* has its share of all rows at or below it.                               *)
THEOREM QuantilesCorrect == AnalysisSpec => []QuantilesNearestRank
<1>1. Inv => QuantilesNearestRank
  <2> SUFFICES ASSUME Inv, Told, NEW x \in Parts, Null \notin Range(x.rows), NEW p \in Percents
               PROVE  x.profile.quantile[p] =
                        Min({v \in Range(x.rows) :
                               100 * Cardinality({i \in DOMAIN x.rows : x.rows[i] <= v}) >= p * Count(x.rows)})
    BY DEF QuantilesNearestRank
  <2>1. Column(x.rows) /\ ProfileTold(x.profile, x.rows)  BY PartsTold
  <2> QED  BY <2>1, ProfileQuantiles
<1> QED  BY <1>1, Invariant, PTL

-----------------------------------------------------------------------------
(* The answers of analyze                                                  *)

IsSeq(s) == s \in Seq(Range(s))

LEMMA SeqIntro ==
  ASSUME NEW n \in Nat, NEW s, DOMAIN s = 1..n, s = [i \in 1..n |-> s[i]]
  PROVE  IsSeq(s) /\ Len(s) = n
<1> DEFINE R == Range(s)
<1>1. \A i \in 1..n : s[i] \in R  BY DEF Range
<1> HIDE DEF R
<1>2. s \in [1..n -> R]  BY <1>1
<1>3. s \in Seq(R) /\ Len(s) = n  BY <1>2
<1> QED  BY <1>3 DEF R, IsSeq

LEMMA SeqFacts ==
  ASSUME NEW s, IsSeq(s)
  PROVE  Len(s) \in Nat /\ DOMAIN s = 1..Len(s) /\ s = [i \in 1..Len(s) |-> s[i]]
BY DEF IsSeq

LEMMA ConcatFacts ==
  ASSUME NEW s, NEW t, IsSeq(s), IsSeq(t)
  PROVE  /\ IsSeq(s \o t) /\ Len(s \o t) = Len(s) + Len(t)
         /\ Len(s) \in Nat /\ Len(t) \in Nat /\ DOMAIN (s \o t) = 1..(Len(s) + Len(t))
         /\ \A i \in 1..Len(s) : (s \o t)[i] = s[i]
         /\ \A i \in 1..Len(t) : (s \o t)[Len(s) + i] = t[i]
         /\ \A i \in DOMAIN (s \o t) : i \in 1..Len(s) \/ \E k \in 1..Len(t) : i = Len(s) + k
<1> DEFINE R == Range(s) \cup Range(t)  u == s \o t
<1>1. s \in Seq(R) /\ t \in Seq(R)
  <2>1. s \in Seq(Range(s)) /\ t \in Seq(Range(t))  BY DEF IsSeq
  <2>2. Range(s) \subseteq R /\ Range(t) \subseteq R  OBVIOUS
  <2> QED  BY <2>1, <2>2
<1> HIDE DEF R
<1>2. /\ u \in Seq(R) /\ Len(u) = Len(s) + Len(t) /\ Len(s) \in Nat /\ Len(t) \in Nat
      /\ \A i \in 1..Len(s) : u[i] = s[i]
      /\ \A i \in 1..Len(t) : u[Len(s) + i] = t[i]
  <2>1. /\ u \in Seq(R) /\ Len(u) = Len(s) + Len(t) /\ Len(s) \in Nat /\ Len(t) \in Nat
        /\ \A i \in 1..(Len(s) + Len(t)) : u[i] = IF i <= Len(s) THEN s[i] ELSE t[i - Len(s)]
    BY <1>1
  <2> HIDE DEF u
  <2> QED  BY <2>1
<1> HIDE DEF u
<1>3. DOMAIN u = 1..(Len(s) + Len(t)) /\ u = [i \in 1..(Len(s) + Len(t)) |-> u[i]]  BY <1>2
<1>4. \A i \in 1..(Len(s) + Len(t)) : i \in 1..Len(s) \/ (i - Len(s) \in 1..Len(t) /\ i = Len(s) + (i - Len(s)))
  BY <1>2
<1>5. \A i \in DOMAIN u : i \in 1..Len(s) \/ \E k \in 1..Len(t) : i = Len(s) + k  BY <1>3, <1>4
<1>6. IsSeq(u)  BY <1>2, <1>3, SeqIntro
<1> QED  BY <1>2, <1>3, <1>5, <1>6 DEF u

LEMMA ItemsAtFacts ==
  ASSUME NEW s, IsSeq(s), NEW S, S \subseteq DOMAIN s
  PROVE  /\ IsSeq(ItemsAt(s, S))
         /\ \A i \in S : \E k \in DOMAIN ItemsAt(s, S) : ItemsAt(s, S)[k] = s[i]
         /\ \A k \in DOMAIN ItemsAt(s, S) : \E i \in S : ItemsAt(s, S)[k] = s[i]
<1> DEFINE at == Ascending(S)  n == Cardinality(S)  u == ItemsAt(s, S)
<1>1. S \in SUBSET Int /\ IsFiniteSet(S)
  <2>1. Len(s) \in Nat /\ DOMAIN s = 1..Len(s)  BY SeqFacts
  <2>2. IsFiniteSet(1..Len(s))  BY <2>1, FS_Interval
  <2>3. S \in SUBSET (1..Len(s))  BY <2>1
  <2> QED  BY <2>1, <2>2, <2>3, FS_Subset
<1>2. n \in Nat /\ at \in [1..n -> S] /\ \A x \in S : \E i \in 1..n : at[i] = x
  BY <1>1, AscendingFacts
<1> HIDE DEF at, n
<1>3. u = [i \in 1..n |-> s[at[i]]]  BY <1>2 DEF ItemsAt, at
<1>4. DOMAIN u = 1..n /\ \A i \in 1..n : u[i] = s[at[i]]  BY <1>3
<1>5. u = [i \in 1..n |-> u[i]]  BY <1>3
<1> HIDE DEF u
<1>6. IsSeq(u)  BY <1>2, <1>4, <1>5, SeqIntro
<1>7. \A i \in S : \E k \in 1..n : u[k] = s[i]  BY <1>2, <1>4
<1>8. \A k \in 1..n : \E i \in S : u[k] = s[i]  BY <1>2, <1>4
<1> QED  BY <1>4, <1>6, <1>7, <1>8 DEF u

(* What a call asks for, once converted.                                   *)
IsCall(q) == IsSeq(q.group_by) /\ IsSeq(q.aggregates) /\ IsSeq(q.order_by)

LEMMA CallFacts ==
  ASSUME NEW args \in Calls
  PROVE  IsCall(AnalyzeInput(args)) /\ AnalyzeInput(args).tool = "analyze"
<1>1. ASSUME NEW list \in Lists PROVE IsSeq(AsSlice(args[list]))
  <2> DEFINE x == args[list]
  <2>1. WellShaped(x) => IsSeq(x)  BY AnalysisAssumption DEF AnalysisAssumption, IsSeq
  <2> HIDE DEF x
  <2>2. CASE WellShaped(x)
    <3> DEFINE S == {i \in DOMAIN x : WellShaped(x[i])}
    <3>1. AsSlice(x) = ItemsAt(x, S)  BY <2>2 DEF AsSlice
    <3>2. S \subseteq DOMAIN x  OBVIOUS
    <3> HIDE DEF S
    <3> QED  BY <2>1, <2>2, <3>1, <3>2, ItemsAtFacts DEF x
  <2>3. CASE ~ WellShaped(x)
    <3>1. AsSlice(x) = <<>>  BY <2>3 DEF AsSlice
    <3>2. IsSeq(<<>>)  BY DEF IsSeq
    <3> QED  BY <3>1, <3>2 DEF x
  <2> QED  BY <2>2, <2>3
<1>2. IsSeq(AsSlice(args.group_by)) /\ IsSeq(AsSlice(args.aggregates)) /\ IsSeq(AsSlice(args.order_by))
  BY <1>1 DEF Lists
<1> QED  BY <1>2 DEF IsCall, AnalyzeInput

LEMMA SumType ==
  ASSUME NEW T, IsFiniteSet(T), NEW h \in [T -> Nat]
  PROVE  SumFunctionOnSet(h, T) \in Nat
<1> DEFINE c == [x \in T |-> {x} \X (1..h[x])]  D == UNION {c[x] : x \in T}
<1>1. \A x \in T : IsFiniteSet(c[x]) /\ h[x] = Cardinality(c[x])
  <2> SUFFICES ASSUME NEW x \in T
               PROVE  IsFiniteSet({x} \X (1..h[x])) /\ h[x] = Cardinality({x} \X (1..h[x]))
    OBVIOUS
  <2>1. IsFiniteSet({x}) /\ Cardinality({x}) = 1  BY FS_Singleton
  <2>2. h[x] \in Nat  OBVIOUS
  <2>3. IsFiniteSet(1..h[x]) /\ Cardinality(1..h[x]) = h[x]  BY <2>2, FS_Interval
  <2>4. IsFiniteSet({x} \X (1..h[x]))
        /\ Cardinality({x} \X (1..h[x])) = Cardinality({x}) * Cardinality(1..h[x])
    BY <2>1, <2>3, FS_Product
  <2> QED  BY <2>1, <2>2, <2>3, <2>4
<1>2. IsFiniteSet(D)
  <2> DEFINE f == [x \in T |-> c[x]]
  <2>1. f \in Surjection(T, {c[x] : x \in T})  BY DEF Surjection
  <2>2. IsFiniteSet({c[x] : x \in T})  BY <2>1, FS_Surjection
  <2>3. \A C \in {c[x] : x \in T} : IsFiniteSet(C)  BY <1>1
  <2> HIDE DEF c
  <2> QED  BY <2>2, <2>3, FS_UNION
<1>3. \A x, y \in T : x # y => c[x] \cap c[y] = {}  OBVIOUS
<1>4. c \in [T -> SUBSET D]  OBVIOUS
<1> HIDE DEF c
<1>5. SumFunctionOnSet(h, T) = Cardinality(D)
  <2>1. D = UNION {c[x] : x \in T}  OBVIOUS
  <2> HIDE DEF D
  <2>2. SumFunctionOnSet(h, T) = Cardinality(UNION {c[x] : x \in T})
    BY <1>1, <1>2, <1>3, <1>4, SumOfClasses
  <2> QED  BY <2>1, <2>2
<1> QED  BY <1>2, <1>5, FS_CardinalityType

(* A group of rows, as the functions that aggregate see it.                *)
IsGroup(rows) == IsFiniteSet(DOMAIN rows) /\ rows \in [DOMAIN rows -> Rows]

LEMMA RowsOfFacts ==
  ASSUME NEW rows \in Contents, NEW q, NEW key
  PROVE  /\ IsGroup(RowsOf(q, rows, key))
         /\ \A i \in DOMAIN RowsOf(q, rows, key) : KeyOf(q, RowsOf(q, rows, key)[i]) = key
         /\ key \in Keys(q, rows) /\ q.group_by # <<>> => DOMAIN RowsOf(q, rows, key) # {}
<1> DEFINE w == Where(q, rows)  g == RowsOf(q, rows, key)
           W == {i \in DOMAIN rows : \A f \in ToSet(q.filters) : Holds(f, rows[i])}
           G == {i \in DOMAIN w : KeyOf(q, w[i]) = key}
<1>1. IsFiniteSet(DOMAIN rows) /\ rows \in [DOMAIN rows -> Rows]
  BY DistributionAssumption DEF DistributionAssumption
<1>2. w = [i \in W |-> rows[i]]  BY DEF Where, RestrictValues, Restrict
<1>3. g = [i \in G |-> w[i]]  BY DEF RowsOf, RestrictValues, Restrict
<1>4. key \in Keys(q, rows) /\ q.group_by # <<>> => key \in {KeyOf(q, row) : row \in Range(w)}
  BY DEF Keys
<1>5. W \in SUBSET DOMAIN rows /\ G \in SUBSET DOMAIN w  OBVIOUS
<1>6. \A i \in G : KeyOf(q, w[i]) = key  OBVIOUS
<1>7. key \in {KeyOf(q, row) : row \in Range(w)} => G # {}  BY DEF Range
<1> HIDE DEF w, W, G, g
<1>8. IsFiniteSet(W) /\ DOMAIN w = W /\ \A i \in W : w[i] \in Rows  BY <1>1, <1>2, <1>5, FS_Subset
<1>9. IsFiniteSet(G) /\ DOMAIN g = G /\ \A i \in G : g[i] = w[i]  BY <1>3, <1>5, <1>8, FS_Subset
<1>10. g \in [DOMAIN g -> Rows]  BY <1>3, <1>5, <1>8, <1>9
<1> QED  BY <1>4, <1>6, <1>7, <1>9, <1>10 DEF IsGroup, g

(* The values an aggregate sees, and that it gives a number or Null.       *)
CellsOf(a, rows) ==
  RestrictValues([i \in DOMAIN rows |-> rows[i][a.column]], LAMBDA v : v # Null)

LEMMA CellsFacts ==
  ASSUME NEW a, a.column \in Columns, NEW rows, IsGroup(rows)
  PROVE  LET cells == CellsOf(a, rows) IN
         /\ IsFiniteSet(DOMAIN cells) /\ cells \in [DOMAIN cells -> Nat]
         /\ IsFiniteSet(Range(cells)) /\ Range(cells) \in SUBSET Int /\ Range(cells) \subseteq Nat
         /\ DOMAIN cells \subseteq DOMAIN rows
         /\ \A i \in DOMAIN cells : cells[i] = rows[i][a.column]
         /\ \A i \in DOMAIN rows \ DOMAIN cells : rows[i][a.column] = Null
<1> DEFINE column == [i \in DOMAIN rows |-> rows[i][a.column]]
           C == {i \in DOMAIN rows : column[i] # Null}
           cells == CellsOf(a, rows)
<1>1. \A i \in DOMAIN rows : rows[i][a.column] \in Nat \cup {Null}
  <2> SUFFICES ASSUME NEW i \in DOMAIN rows PROVE rows[i][a.column] \in Nat \cup {Null}
    OBVIOUS
  <2>1. rows[i] \in Rows  BY DEF IsGroup
  <2> QED  BY <2>1 DEF Rows, Columns
<1>2. cells = [i \in C |-> column[i]]  BY DEF CellsOf, RestrictValues, Restrict
<1>3. C \in SUBSET DOMAIN rows /\ IsFiniteSet(DOMAIN rows)  BY DEF IsGroup
<1>4. \A i \in DOMAIN rows : column[i] = rows[i][a.column] /\ (i \in C <=> rows[i][a.column] # Null)
  OBVIOUS
<1> HIDE DEF C, column, cells
<1>5. DOMAIN cells = C /\ IsFiniteSet(C) /\ \A i \in C : cells[i] = rows[i][a.column]
  BY <1>2, <1>3, <1>4, FS_Subset
<1>6. \A i \in C : cells[i] \in Nat  BY <1>1, <1>3, <1>4, <1>5
<1>7. cells = [i \in C |-> cells[i]]  BY <1>2, <1>5
<1>8. cells \in [DOMAIN cells -> Nat]  BY <1>5, <1>6, <1>7
<1>9. IsFiniteSet(Range(cells))  BY <1>5, <1>7, RangeFacts
<1>10. Range(cells) \subseteq Nat /\ Range(cells) \in SUBSET Int  BY <1>5, <1>6 DEF Range
<1> QED  BY <1>3, <1>4, <1>5, <1>8, <1>9, <1>10 DEF cells

AggregateValid(a) == a.fn \in Functions /\ (CountsRows(a) \/ a.column \in Columns)

LEMMA AggregateFacts ==
  ASSUME NEW a, AggregateValid(a), NEW rows, IsGroup(rows)
  PROVE  /\ Aggregate(a, rows) \in Int
         /\ a.fn \in {"min", "max"} /\ DOMAIN rows # {} =>
              \E i \in DOMAIN rows : rows[i][a.column] = Aggregate(a, rows)
<1> DEFINE cells == CellsOf(a, rows)
<1>0. Null \in Int  BY DEF Null
<1>1. CASE CountsRows(a)
  <2>1. Aggregate(a, rows) = Cardinality(DOMAIN rows) /\ a.fn \notin {"min", "max"}
    BY <1>1 DEF Aggregate, Count, CountsRows
  <2>2. Cardinality(DOMAIN rows) \in Nat  BY FS_CardinalityType DEF IsGroup
  <2> QED  BY <2>1, <2>2
<1>2. CASE ~ CountsRows(a)
  <2>1. a.column \in Columns  BY <1>2 DEF AggregateValid
  <2>2. /\ IsFiniteSet(DOMAIN cells) /\ cells \in [DOMAIN cells -> Nat]
        /\ IsFiniteSet(Range(cells)) /\ Range(cells) \in SUBSET Int /\ Range(cells) \subseteq Nat
        /\ DOMAIN cells \subseteq DOMAIN rows
        /\ \A i \in DOMAIN cells : cells[i] = rows[i][a.column]
        /\ \A i \in DOMAIN rows \ DOMAIN cells : rows[i][a.column] = Null
    BY <2>1, CellsFacts
  <2>3. Aggregate(a, rows) =
          CASE a.fn = "count"          -> Count(cells)
            [] a.fn = "count_distinct" -> Cardinality(Range(cells))
            [] OTHER -> IF DOMAIN cells = {} THEN Null ELSE OfCells(a.fn, cells)
    BY <1>2 DEF Aggregate, CellsOf
  <2> HIDE DEF cells
  <2>4. CASE a.fn = "count"
    <3>1. Aggregate(a, rows) = Cardinality(DOMAIN cells)  BY <2>3, <2>4 DEF Count
    <3>2. Cardinality(DOMAIN cells) \in Nat  BY <2>2, FS_CardinalityType
    <3> QED  BY <2>4, <3>1, <3>2
  <2>5. CASE a.fn = "count_distinct"
    <3>1. Aggregate(a, rows) = Cardinality(Range(cells))  BY <2>3, <2>5
    <3>2. Cardinality(Range(cells)) \in Nat  BY <2>2, FS_CardinalityType
    <3> QED  BY <2>5, <3>1, <3>2
  <2>6. CASE a.fn \in {"sum", "min", "max"} /\ DOMAIN cells = {}
    <3>1. Aggregate(a, rows) = Null  BY <2>3, <2>6
    <3> QED  BY <1>0, <2>2, <2>6, <3>1
  <2>7. CASE a.fn = "sum" /\ DOMAIN cells # {}
    <3>1. Aggregate(a, rows) = SumFunctionOnSet(cells, DOMAIN cells)
      BY <2>3, <2>7 DEF OfCells, SumFunction
    <3>2. SumFunctionOnSet(cells, DOMAIN cells) \in Nat  BY <2>2, SumType
    <3> QED  BY <2>7, <3>1, <3>2
  <2>8. CASE a.fn \in {"min", "max"} /\ DOMAIN cells # {}
    <3>1. Aggregate(a, rows) = Min(Range(cells)) \/ Aggregate(a, rows) = Max(Range(cells))
      BY <2>3, <2>8 DEF OfCells
    <3>2. Range(cells) # {}  BY <2>8 DEF Range
    <3>3. Aggregate(a, rows) \in Range(cells)  BY <2>2, <3>1, <3>2, ExtremeFacts
    <3>4. PICK i \in DOMAIN cells : Aggregate(a, rows) = cells[i]  BY <3>3 DEF Range
    <3>5. Aggregate(a, rows) \in Int  BY <2>2, <3>3
    <3> QED  BY <2>2, <3>4, <3>5
  <2> QED  BY <2>4, <2>5, <2>6, <2>7, <2>8 DEF AggregateValid, Functions
<1> QED  BY <1>1, <1>2

LEMMA ValidFacts ==
  ASSUME NEW q, IsCall(q), Valid(q)
  PROVE  /\ \A i \in DOMAIN q.group_by : q.group_by[i] \in Columns
         /\ \A i \in DOMAIN q.aggregates : AggregateValid(q.aggregates[i])
         /\ Aliases(q) = [i \in DOMAIN q.aggregates |-> q.aggregates[i].as]
         /\ \A i \in DOMAIN q.aggregates, k \in DOMAIN q.group_by : Aliases(q)[i] # q.group_by[k]
         /\ \A h \in ToSet(q.having) : h.alias \in ToSet(OutNames(q))
         /\ \A o \in ToSet(q.order_by) : o.key \in ToSet(OutNames(q))
<1>1. ToSet(q.group_by) \subseteq Columns /\ AggregatesValid(q) /\ HavingValid(q) /\ OrderValid(q)
  BY DEF Valid
<1>2. \A i \in DOMAIN q.group_by : q.group_by[i] \in Columns  BY <1>1 DEF ToSet
<1>3. \A i \in DOMAIN q.aggregates : AggregateValid(q.aggregates[i])
  BY <1>1 DEF AggregatesValid, AggregateValid, ToSet
<1>4. ToSet(Aliases(q)) \cap ToSet(q.group_by) = {}  BY <1>1 DEF AggregatesValid
<1>5. \A i \in DOMAIN q.aggregates, k \in DOMAIN q.group_by : Aliases(q)[i] # q.group_by[k]
  BY <1>4 DEF ToSet, Aliases
<1> QED  BY <1>1, <1>2, <1>3, <1>5 DEF HavingValid, OrderValid, Aliases

LEMMA KeyFacts ==
  ASSUME NEW rows \in Contents, NEW q, IsCall(q), Valid(q), NEW key \in Keys(q, rows)
  PROVE  /\ IsSeq(key) /\ Len(key) = Len(q.group_by)
         /\ \A i \in DOMAIN q.group_by : key[i] \in Int
         /\ \A i, k \in DOMAIN q.group_by : q.group_by[i] = q.group_by[k] => key[i] = key[k]
<1> DEFINE n == Len(q.group_by)
<1>1. n \in Nat /\ DOMAIN q.group_by = 1..n  BY SeqFacts DEF IsCall
<1>2. CASE q.group_by = <<>>
  <2>1. key = <<>>  BY <1>2 DEF Keys
  <2>2. IsSeq(<<>>)  BY DEF IsSeq
  <2>3. DOMAIN q.group_by = {} /\ Len(<<>>) = Len(q.group_by)  BY <1>2
  <2> QED  BY <2>1, <2>2, <2>3
<1>3. CASE q.group_by # <<>>
  <2>1. DOMAIN RowsOf(q, rows, key) # {} /\ IsGroup(RowsOf(q, rows, key))
        /\ \A i \in DOMAIN RowsOf(q, rows, key) : KeyOf(q, RowsOf(q, rows, key)[i]) = key
    BY <1>3, RowsOfFacts
  <2>2. PICK row \in Rows : key = KeyOf(q, row)  BY <2>1 DEF IsGroup
  <2>3. key = [i \in 1..n |-> row[q.group_by[i]]]  BY <1>1, <2>2 DEF KeyOf
  <2>4. \A i \in 1..n : row[q.group_by[i]] \in Int
    <3>1. \A c \in Columns : row[c] \in Int  BY DEF Rows, Columns, Null
    <3>2. \A i \in 1..n : q.group_by[i] \in Columns  BY <1>1, ValidFacts
    <3> QED  BY <3>1, <3>2
  <2> HIDE DEF n
  <2>5. DOMAIN key = 1..n /\ \A i \in 1..n : key[i] = row[q.group_by[i]]  BY <2>3
  <2>6. key = [i \in 1..n |-> key[i]]  BY <2>3
  <2>7. IsSeq(key) /\ Len(key) = n  BY <1>1, <2>5, <2>6, SeqIntro
  <2> QED  BY <1>1, <2>4, <2>5, <2>7 DEF n
<1> QED  BY <1>2, <1>3

LEMMA NameFacts ==
  ASSUME NEW q, IsCall(q), Valid(q)
  PROVE  LET n == Len(q.group_by)  m == Len(q.aggregates)  names == OutNames(q) IN
         /\ n \in Nat /\ m \in Nat /\ DOMAIN q.group_by = 1..n /\ DOMAIN q.aggregates = 1..m
         /\ DOMAIN names = 1..(n + m)
         /\ \A i \in 1..n : names[i] = q.group_by[i]
         /\ \A i \in 1..m : names[n + i] = Aliases(q)[i]
         /\ \A i \in DOMAIN names : i \in 1..n \/ \E k \in 1..m : i = n + k
<1> DEFINE n == Len(q.group_by)  m == Len(q.aggregates)  al == Aliases(q)
<1>1. n \in Nat /\ m \in Nat /\ DOMAIN q.group_by = 1..n /\ DOMAIN q.aggregates = 1..m
  BY SeqFacts DEF IsCall
<1>2. IsSeq(al) /\ Len(al) = m
  <2>1. al = [i \in 1..m |-> q.aggregates[i].as]  BY <1>1 DEF Aliases
  <2>2. DOMAIN al = 1..m /\ al = [i \in 1..m |-> al[i]]  BY <2>1
  <2> HIDE DEF al, m
  <2> QED  BY <1>1, <2>2, SeqIntro
<1>3. IsSeq(q.group_by) /\ OutNames(q) = q.group_by \o al  BY DEF IsCall, OutNames
<1> HIDE DEF al, n, m
<1>4. Len(q.group_by) = n  BY DEF n
<1> DEFINE g == q.group_by  u == g \o al
<1> HIDE DEF g
<1>5. Len(g) = n  BY <1>4 DEF g
<1>s. IsSeq(g) /\ IsSeq(al)  BY <1>2, <1>3 DEF g
<1>6. /\ DOMAIN u = 1..(Len(g) + Len(al))
      /\ \A i \in 1..Len(g) : u[i] = g[i]
      /\ \A i \in 1..Len(al) : u[Len(g) + i] = al[i]
      /\ \A i \in DOMAIN u : i \in 1..Len(g) \/ \E k \in 1..Len(al) : i = Len(g) + k
  BY <1>s, ConcatFacts
<1> HIDE DEF u
<1>7. /\ DOMAIN u = 1..(n + m)
      /\ \A i \in 1..n : u[i] = g[i]
      /\ \A i \in 1..m : u[n + i] = al[i]
      /\ \A i \in DOMAIN u : i \in 1..n \/ \E k \in 1..m : i = n + k
  BY <1>2, <1>5, <1>6
<1>8. OutNames(q) = u  BY <1>3 DEF g, u
<1> QED  BY <1>1, <1>7, <1>8 DEF al, n, m, g

(* The cell of a name in the output of a group: a number or Null, and the  *)
(* group's own for a column it is grouped by.                              *)
LEMMA OutputFacts ==
  ASSUME NEW rows \in Contents, NEW q, IsCall(q), Valid(q), NEW key \in Keys(q, rows)
  PROVE  /\ \A name \in ToSet(OutNames(q)) : Cell(q, Output(q, rows, key), name) \in Int
         /\ \A i \in DOMAIN q.group_by : Cell(q, Output(q, rows, key), q.group_by[i]) = key[i]
<1> DEFINE n == Len(q.group_by)  m == Len(q.aggregates)  names == OutNames(q)
           aggs == [i \in DOMAIN q.aggregates |-> Aggregate(q.aggregates[i], RowsOf(q, rows, key))]
           o == Output(q, rows, key)
           At(name) == CHOOSE i \in DOMAIN names : names[i] = name
<1>1. /\ n \in Nat /\ m \in Nat /\ DOMAIN q.group_by = 1..n /\ DOMAIN q.aggregates = 1..m
      /\ DOMAIN names = 1..(n + m)
      /\ \A i \in 1..n : names[i] = q.group_by[i]
      /\ \A i \in 1..m : names[n + i] = Aliases(q)[i]
      /\ \A i \in DOMAIN names : i \in 1..n \/ \E k \in 1..m : i = n + k
  BY NameFacts
<1>2. /\ IsSeq(key) /\ Len(key) = n
      /\ \A i \in DOMAIN q.group_by : key[i] \in Int
      /\ \A i, k \in DOMAIN q.group_by : q.group_by[i] = q.group_by[k] => key[i] = key[k]
  BY KeyFacts
<1>3. \A i \in 1..m : aggs[i] \in Int
  <2>1. IsGroup(RowsOf(q, rows, key))  BY RowsOfFacts
  <2>2. \A i \in 1..m : AggregateValid(q.aggregates[i])  BY <1>1, ValidFacts
  <2>3. \A i \in 1..m : Aggregate(q.aggregates[i], RowsOf(q, rows, key)) \in Int
    BY <2>1, <2>2, AggregateFacts
  <2>4. \A i \in 1..m : aggs[i] = Aggregate(q.aggregates[i], RowsOf(q, rows, key))  BY <1>1
  <2> QED  BY <2>3, <2>4
<1>4. IsSeq(aggs) /\ Len(aggs) = m
  <2>1. DOMAIN aggs = 1..m /\ aggs = [i \in 1..m |-> aggs[i]]  BY <1>1
  <2> HIDE DEF aggs, m
  <2> QED  BY <1>1, <2>1, SeqIntro
<1>5. o = key \o aggs  BY DEF Output
<1>6. \A name : Cell(q, o, name) = o[At(name)]  BY DEF Cell
<1>7. \A name \in ToSet(names) : At(name) \in DOMAIN names /\ names[At(name)] = name
  BY DEF ToSet
<1>8. \A i \in 1..m, k \in 1..n : Aliases(q)[i] # q.group_by[k]  BY <1>1, ValidFacts
<1> HIDE DEF n, m, names, aggs, o, At
<1>9. (\A i \in 1..n : o[i] = key[i]) /\ (\A i \in 1..m : o[n + i] = aggs[i])
  BY <1>2, <1>4, <1>5, ConcatFacts
<1>10. ASSUME NEW i \in DOMAIN names PROVE o[i] \in Int
  <2>1. CASE i \in 1..n  BY <1>1, <1>2, <1>9, <2>1
  <2>2. ASSUME NEW k \in 1..m, i = n + k PROVE o[i] \in Int  BY <1>3, <1>9, <2>2
  <2> QED  BY <1>1, <2>1, <2>2
<1>11. \A name \in ToSet(names) : Cell(q, o, name) \in Int  BY <1>6, <1>7, <1>10
<1>12. ASSUME NEW i \in 1..n PROVE Cell(q, o, q.group_by[i]) = key[i]
  <2> DEFINE name == q.group_by[i]  a == At(name)
  <2>1. name \in ToSet(names)
    <3>1. i \in DOMAIN names /\ names[i] = name  BY <1>1
    <3> QED  BY <3>1 DEF ToSet
  <2>2. a \in DOMAIN names /\ names[a] = name  BY <1>7, <2>1
  <2> HIDE DEF a
  <2>3. a \in 1..n  BY <1>1, <1>8, <2>2
  <2>4. q.group_by[a] = q.group_by[i]  BY <1>1, <2>2, <2>3
  <2>5. key[a] = key[i]  BY <1>1, <1>2, <2>3, <2>4
  <2> QED  BY <1>6, <1>9, <2>3, <2>5 DEF a
<1> QED  BY <1>1, <1>11, <1>12 DEF names, o

(* Which row of a group HAVING looks at makes no difference, unless an     *)
(* alias hides a column.                                                   *)
LEMMA BareFacts ==
  ASSUME NEW rows \in Contents, NEW q, IsCall(q), Valid(q), NEW key \in Keys(q, rows)
  PROVE  /\ BareRows(q, rows, key) # {}
         /\ \A bare \in BareRows(q, rows, key) : q.group_by # <<>> => KeyOf(q, bare) = key
<1> DEFINE group == RowsOf(q, rows, key)
           extremal == {i \in DOMAIN q.aggregates : q.aggregates[i].fn \in {"min", "max"}}
           attained == {row \in Range(group) :
             \E i \in extremal : row[q.aggregates[i].column] = Aggregate(q.aggregates[i], group)}
<1>1. /\ IsGroup(group) /\ \A i \in DOMAIN group : KeyOf(q, group[i]) = key
      /\ q.group_by # <<>> => DOMAIN group # {}
  BY RowsOfFacts
<1>2. BareRows(q, rows, key) = IF DOMAIN group = {} THEN {[c \in Columns |-> Null]}
                               ELSE IF Cardinality(extremal) = 1 THEN attained ELSE Range(group)
  BY DEF BareRows
<1>3. \A row \in Range(group) : KeyOf(q, row) = key  BY <1>1 DEF Range
<1>4. attained \subseteq Range(group)  OBVIOUS
<1>5. DOMAIN group # {} => Range(group) # {}  BY DEF Range
<1>6. Cardinality(extremal) = 1 /\ DOMAIN group # {} => attained # {}
  <2> SUFFICES ASSUME Cardinality(extremal) = 1, DOMAIN group # {} PROVE attained # {}
    OBVIOUS
  <2>1. extremal # {}  BY FS_EmptySet
  <2>2. PICK i \in extremal : TRUE  BY <2>1
  <2>3. AggregateValid(q.aggregates[i])  BY ValidFacts
  <2>4. PICK j \in DOMAIN group : group[j][q.aggregates[i].column] = Aggregate(q.aggregates[i], group)
    BY <1>1, <2>3, AggregateFacts
  <2>5. group[j] \in Range(group)  BY DEF Range
  <2> HIDE DEF group, extremal
  <2> QED  BY <2>2, <2>4, <2>5
<1> HIDE DEF group, extremal, attained
<1>7. BareRows(q, rows, key) # {}  BY <1>2, <1>5, <1>6
<1>8. ASSUME NEW bare \in BareRows(q, rows, key), q.group_by # <<>> PROVE KeyOf(q, bare) = key
  <2>1. bare \in Range(group)  BY <1>1, <1>2, <1>4, <1>8
  <2> QED  BY <1>3, <2>1
<1> QED  BY <1>7, <1>8

LEMMA HavingFacts ==
  ASSUME NEW rows \in Contents, NEW q, IsCall(q), Valid(q), ~ Shadowed(q), NEW key \in Keys(q, rows),
         NEW bare \in BareRows(q, rows, key)
  PROVE  HavingHolds(q, Output(q, rows, key), bare) <=> Qualifies(q, Output(q, rows, key))
<1> DEFINE o == Output(q, rows, key)  n == Len(q.group_by)  m == Len(q.aggregates)
<1>1. ASSUME NEW h \in ToSet(q.having), h.alias \in Columns PROVE bare[h.alias] = Cell(q, o, h.alias)
  <2>1. h.alias \in ToSet(OutNames(q))  BY ValidFacts
  <2>2. PICK i \in DOMAIN OutNames(q) : OutNames(q)[i] = h.alias  BY <2>1 DEF ToSet
  <2> HIDE DEF o, n, m
  <2>3. /\ n \in Nat /\ m \in Nat /\ DOMAIN q.group_by = 1..n /\ DOMAIN q.aggregates = 1..m
        /\ \A k \in 1..n : OutNames(q)[k] = q.group_by[k]
        /\ \A k \in 1..m : OutNames(q)[n + k] = Aliases(q)[k]
        /\ (i \in 1..n \/ \E k \in 1..m : i = n + k)
    BY NameFacts DEF n, m
  <2>4. ASSUME NEW k \in 1..m, i = n + k PROVE FALSE
    <3>1. Aliases(q)[k] = h.alias  BY <2>2, <2>3, <2>4
    <3>2. DOMAIN Aliases(q) = 1..m  BY <2>3 DEF Aliases
    <3>3. h.alias \in ToSet(Aliases(q))  BY <3>1, <3>2 DEF ToSet
    <3> QED  BY <1>1, <3>3 DEF Shadowed
  <2>5. i \in 1..n /\ q.group_by[i] = h.alias  BY <2>2, <2>3, <2>4
  <2>6. Cell(q, o, h.alias) = key[i]  BY <2>3, <2>5, OutputFacts DEF o
  <2>7. q.group_by # <<>>
    <3>1. i \in DOMAIN q.group_by  BY <2>3, <2>5
    <3> QED  BY <3>1
  <2>8. KeyOf(q, bare) = key  BY <2>7, BareFacts
  <2>9. KeyOf(q, bare)[i] = bare[q.group_by[i]]  BY <2>3, <2>5 DEF KeyOf
  <2> QED  BY <2>5, <2>6, <2>8, <2>9
<1> HIDE DEF o
<1>2. \A h \in ToSet(q.having) :
        (IF h.alias \in Columns THEN bare[h.alias] ELSE Cell(q, o, h.alias)) = Cell(q, o, h.alias)
  BY <1>1
<1>3. HavingHolds(q, o, bare) <=>
        \A h \in ToSet(q.having) :
          Compare(h.op, IF h.alias \in Columns THEN bare[h.alias] ELSE Cell(q, o, h.alias), h.value)
  BY DEF HavingHolds
<1>4. Qualifies(q, o) <=> \A h \in ToSet(q.having) : Compare(h.op, Cell(q, o, h.alias), h.value)
  BY DEF Qualifies
<1> QED  BY <1>2, <1>3, <1>4 DEF o

LEMMA KeptFacts ==
  ASSUME NEW rows \in Contents, NEW q, IsCall(q), Valid(q), ~ Shadowed(q), NEW keys \in Kept(q, rows)
  PROVE  /\ keys \subseteq Keys(q, rows)
         /\ {Output(q, rows, key) : key \in keys} = Qualifying(q, rows)
<1> DEFINE may == {key \in Keys(q, rows) :
                     \E bare \in BareRows(q, rows, key) : HavingHolds(q, Output(q, rows, key), bare)}
           must == {key \in may :
                     \A bare \in BareRows(q, rows, key) : HavingHolds(q, Output(q, rows, key), bare)}
           good == {key \in Keys(q, rows) : Qualifies(q, Output(q, rows, key))}
<1>1. keys \in SUBSET may /\ must \subseteq keys  BY DEF Kept
<1>2. may = good  BY HavingFacts, BareFacts
<1>3. must = good  BY <1>2, HavingFacts
<1> HIDE DEF may, must
<1>4. keys = good  BY <1>1, <1>2, <1>3
<1> QED  BY <1>4 DEF Qualifying

(* The order names outputs only, and every column of group_by.             *)
LEMMA OrderKeysFacts ==
  ASSUME NEW q, IsCall(q), Valid(q)
  PROVE  /\ IsSeq(OrderKeys(q))
         /\ \A i \in DOMAIN OrderKeys(q) : OrderKeys(q)[i].key \in ToSet(OutNames(q))
         /\ \A i \in DOMAIN q.group_by : \E k \in DOMAIN OrderKeys(q) : OrderKeys(q)[k].key = q.group_by[i]
<1> DEFINE asked == {q.order_by[i].key : i \in DOMAIN q.order_by}
           left  == {i \in DOMAIN q.group_by : q.group_by[i] \notin asked}
           items == ItemsAt(q.group_by, left)
           rest  == [i \in DOMAIN items |-> [key |-> items[i], desc |-> FALSE]]
           first == q.order_by
           all   == first \o rest
<1>1. OrderKeys(q) = all  BY DEF OrderKeys
<1>2. IsSeq(q.group_by) /\ IsSeq(first)  BY DEF IsCall
<1>3. left \subseteq DOMAIN q.group_by  OBVIOUS
<1>4. \A i \in DOMAIN q.group_by : i \in left \/ \E k \in DOMAIN first : first[k].key = q.group_by[i]
  OBVIOUS
<1> HIDE DEF left
<1>5. /\ IsSeq(items)
      /\ \A i \in left : \E k \in DOMAIN items : items[k] = q.group_by[i]
      /\ \A k \in DOMAIN items : \E i \in left : items[k] = q.group_by[i]
  BY <1>2, <1>3, ItemsAtFacts
<1> HIDE DEF items
<1>6. DOMAIN rest = DOMAIN items /\ \A i \in DOMAIN items : rest[i].key = items[i]  OBVIOUS
<1>7. IsSeq(rest) /\ Len(rest) = Len(items) /\ DOMAIN items = 1..Len(items)
  <2>1. Len(items) \in Nat /\ DOMAIN items = 1..Len(items)  BY <1>5, SeqFacts
  <2>2. rest = [i \in 1..Len(items) |-> rest[i]]  BY <2>1
  <2> HIDE DEF rest
  <2> QED  BY <1>6, <2>1, <2>2, SeqIntro
<1> HIDE DEF first, rest
<1>8. DOMAIN first = 1..Len(first) /\ Len(first) \in Nat  BY <1>2, SeqFacts
<1>9. /\ IsSeq(all) /\ DOMAIN all = 1..(Len(first) + Len(rest)) /\ Len(rest) \in Nat
      /\ \A i \in 1..Len(first) : all[i] = first[i]
      /\ \A i \in 1..Len(rest) : all[Len(first) + i] = rest[i]
      /\ \A i \in DOMAIN all : i \in 1..Len(first) \/ \E k \in 1..Len(rest) : i = Len(first) + k
  BY <1>2, <1>7, ConcatFacts
<1> HIDE DEF all
<1>10. ASSUME NEW i \in DOMAIN q.group_by PROVE q.group_by[i] \in ToSet(OutNames(q))
  <2> DEFINE n == Len(q.group_by)  m == Len(q.aggregates)
  <2>1. /\ n \in Nat /\ m \in Nat /\ DOMAIN q.group_by = 1..n /\ DOMAIN OutNames(q) = 1..(n + m)
        /\ \A k \in 1..n : OutNames(q)[k] = q.group_by[k]
    BY NameFacts
  <2> HIDE DEF n, m
  <2>2. i \in DOMAIN OutNames(q) /\ OutNames(q)[i] = q.group_by[i]  BY <2>1
  <2> QED  BY <2>2 DEF ToSet
<1>11. ASSUME NEW i \in DOMAIN all PROVE all[i].key \in ToSet(OutNames(q))
  <2>1. CASE i \in 1..Len(first)
    <3>1. first[i] \in ToSet(q.order_by)  BY <1>8, <2>1 DEF ToSet, first
    <3> QED  BY <1>9, <2>1, <3>1, ValidFacts
  <2>2. ASSUME NEW k \in 1..Len(rest), i = Len(first) + k PROVE all[i].key \in ToSet(OutNames(q))
    <3>1. all[i].key = items[k] /\ k \in DOMAIN items  BY <1>6, <1>7, <1>9, <2>2
    <3>2. PICK j \in left : items[k] = q.group_by[j]  BY <1>5, <3>1
    <3> QED  BY <1>3, <1>10, <3>1, <3>2
  <2> QED  BY <1>9, <2>1, <2>2
<1>12. ASSUME NEW i \in DOMAIN q.group_by PROVE \E k \in DOMAIN all : all[k].key = q.group_by[i]
  <2>1. CASE i \in left
    <3>1. PICK k \in 1..Len(rest) : rest[k].key = q.group_by[i]  BY <1>5, <1>6, <1>7, <2>1
    <3>2. Len(first) + k \in DOMAIN all /\ all[Len(first) + k] = rest[k]  BY <1>8, <1>9
    <3> QED  BY <3>1, <3>2
  <2>2. ASSUME NEW k \in DOMAIN first, first[k].key = q.group_by[i]
        PROVE  \E l \in DOMAIN all : all[l].key = q.group_by[i]
    <3>1. k \in DOMAIN all /\ all[k] = first[k]  BY <1>8, <1>9
    <3> QED  BY <2>2, <3>1
  <2> QED  BY <1>4, <2>1, <2>2
<1> QED  BY <1>1, <1>9, <1>11, <1>12

(* The first cell in which two outputs differ decides which is before.     *)
Less(desc, a, b) == IF desc THEN a > b ELSE a < b
Precedes(desc, n, a, b) ==
  \E i \in 1..n : Less(desc[i], a[i], b[i]) /\ \A k \in 1..(i - 1) : a[k] = b[k]

LEMMA LessFacts ==
  ASSUME NEW desc, NEW a \in Int, NEW b \in Int, NEW c \in Int
  PROVE  /\ Less(desc, a, b) => a # b
         /\ a # b => Less(desc, a, b) \/ Less(desc, b, a)
         /\ Less(desc, a, b) /\ Less(desc, b, c) => Less(desc, a, c)
BY DEF Less

LEMMA LexicographicFacts ==
  ASSUME NEW S, NEW n \in Nat, NEW desc, NEW c,
         \A x \in S, i \in 1..n : c[x][i] \in Int,
         \A x, y \in S : x # y => \E i \in 1..n : c[x][i] # c[y][i],
         NEW b, b \in [S -> SUBSET S],
         \A x, y \in S : x \in b[y] <=> Precedes(desc, n, c[x], c[y])
  PROVE  StrictOrder(S, b)
<1>1. b \in [S -> SUBSET S]  OBVIOUS
<1>2. \A x, y \in S : x \in b[y] <=> Precedes(desc, n, c[x], c[y])  OBVIOUS
<1>3. ASSUME NEW x \in S PROVE x \notin b[x]
  <2> SUFFICES ASSUME NEW i \in 1..n, Less(desc[i], c[x][i], c[x][i]) PROVE FALSE
    BY <1>2 DEF Precedes
  <2> QED  BY LessFacts
<1>4. ASSUME NEW x \in S, NEW y \in S, NEW z \in S, x \in b[y], z \in b[x] PROVE z \in b[y]
  <2>1. PICK i \in 1..n : Less(desc[i], c[x][i], c[y][i]) /\ \A k \in 1..(i - 1) : c[x][k] = c[y][k]
    BY <1>2, <1>4 DEF Precedes
  <2>2. PICK j \in 1..n : Less(desc[j], c[z][j], c[x][j]) /\ \A k \in 1..(j - 1) : c[z][k] = c[x][k]
    BY <1>2, <1>4 DEF Precedes
  <2> DEFINE m == IF i < j THEN i ELSE j
  <2>3. m \in 1..n /\ \A k \in 1..(m - 1) : k \in 1..(i - 1) /\ k \in 1..(j - 1)
    OBVIOUS
  <2>4. \A k \in 1..(m - 1) : c[z][k] = c[y][k]  BY <2>1, <2>2, <2>3
  <2>5. Less(desc[m], c[z][m], c[y][m])
    <3>1. CASE i < j
      <4>1. m = i /\ i \in 1..(j - 1)  BY <3>1
      <4> QED  BY <2>1, <2>2, <4>1
    <3>2. CASE i = j
      <4>1. Less(desc[i], c[z][i], c[x][i]) /\ Less(desc[i], c[x][i], c[y][i])  BY <2>1, <2>2, <3>2
      <4>2. Less(desc[i], c[z][i], c[y][i])  BY <4>1, LessFacts
      <4> QED  BY <3>2, <4>2
    <3>3. CASE j < i
      <4>1. m = j /\ j \in 1..(i - 1)  BY <3>3
      <4> QED  BY <2>1, <2>2, <4>1
    <3> QED  BY <3>1, <3>2, <3>3
  <2> HIDE DEF m
  <2>6. Precedes(desc, n, c[z], c[y])  BY <2>3, <2>4, <2>5 DEF Precedes
  <2> QED  BY <1>2, <2>6
<1>5. ASSUME NEW x \in S, NEW y \in S, x # y PROVE x \in b[y] \/ y \in b[x]
  <2> DEFINE D == {i \in 1..n : c[x][i] # c[y][i]}
  <2>1. D \in SUBSET (1..n) /\ D \in SUBSET Int /\ D # {}  BY <1>5
  <2>2. IsFiniteSet(D)
    <3>1. IsFiniteSet(1..n)  BY FS_Interval
    <3> HIDE DEF D
    <3> QED  BY <2>1, <3>1, FS_Subset
  <2> DEFINE m == Min(D)
  <2>3. m \in D /\ \A i \in D : m <= i
    <3> HIDE DEF D
    <3> QED  BY <2>1, <2>2, ExtremeFacts
  <2>4. m \in 1..n /\ c[x][m] # c[y][m]  BY <2>3
  <2>5. ASSUME NEW k \in 1..(m - 1) PROVE c[x][k] = c[y][k]
    <3> HIDE DEF m
    <3>1. k \in 1..n /\ ~ m <= k  BY <2>4
    <3> QED  BY <2>3, <3>1
  <2> HIDE DEF m, D
  <2>6. Less(desc[m], c[x][m], c[y][m]) \/ Less(desc[m], c[y][m], c[x][m])  BY <2>4, LessFacts
  <2>7. Precedes(desc, n, c[x], c[y]) \/ Precedes(desc, n, c[y], c[x])
    BY <2>4, <2>5, <2>6 DEF Precedes
  <2> QED  BY <1>2, <2>7
<1>6. \A x, y \in S : x \in b[y] => b[x] \subseteq b[y]
  <2> SUFFICES ASSUME NEW x \in S, NEW y \in S, x \in b[y], NEW z \in b[x] PROVE z \in b[y]
    OBVIOUS
  <2>1. z \in S  BY <1>1
  <2> QED  BY <1>4, <2>1
<1> QED  BY <1>1, <1>3, <1>5, <1>6 DEF StrictOrder

LEMMA QualifyingFacts ==
  ASSUME NEW rows \in Contents, NEW q, IsCall(q), Valid(q)
  PROVE  /\ IsFiniteSet(Qualifying(q, rows)) /\ Cardinality(Qualifying(q, rows)) \in Nat
         /\ \A o \in Qualifying(q, rows) : \E key \in Keys(q, rows) : o = Output(q, rows, key)
<1> DEFINE Out == [key \in Keys(q, rows) |-> Output(q, rows, key)]  W == Where(q, rows)
<1>1. IsFiniteSet(Keys(q, rows))
  <2>1. CASE q.group_by = <<>>
    <3>1. Keys(q, rows) = {<<>>}  BY <2>1 DEF Keys
    <3>2. IsFiniteSet({<<>>})  BY FS_Singleton
    <3> QED  BY <3>1, <3>2
  <2>2. CASE q.group_by # <<>>
    <3>1. Keys(q, rows) = {KeyOf(q, row) : row \in Range(W)}  BY <2>2 DEF Keys
    <3>2. IsFiniteSet(DOMAIN W)
      <4>1. DOMAIN W \in SUBSET DOMAIN rows  BY DEF Where, RestrictValues, Restrict
      <4>2. IsFiniteSet(DOMAIN rows)  BY DistributionAssumption DEF DistributionAssumption
      <4> QED  BY <4>1, <4>2, FS_Subset
    <3> DEFINE f == [i \in DOMAIN W |-> KeyOf(q, W[i])]
    <3>3. DOMAIN f = DOMAIN W /\ Range(f) = {KeyOf(q, row) : row \in Range(W)}  BY DEF Range
    <3>4. f = [i \in DOMAIN f |-> f[i]]  OBVIOUS
    <3> HIDE DEF f
    <3>5. IsFiniteSet(Range(f))  BY <3>2, <3>3, <3>4, RangeFacts
    <3> QED  BY <3>1, <3>3, <3>5
  <2> QED  BY <2>1, <2>2
<1>2. Out = [key \in DOMAIN Out |-> Out[key]] /\ DOMAIN Out = Keys(q, rows)  OBVIOUS
<1>3. Range(Out) = {Output(q, rows, key) : key \in Keys(q, rows)}  BY DEF Range
<1> HIDE DEF Out
<1>4. IsFiniteSet(Range(Out))  BY <1>1, <1>2, RangeFacts
<1>5. Qualifying(q, rows) \in SUBSET Range(Out)  BY <1>3 DEF Qualifying
<1>6. IsFiniteSet(Qualifying(q, rows))  BY <1>4, <1>5, FS_Subset
<1>7. \A o \in Qualifying(q, rows) : \E key \in Keys(q, rows) : o = Output(q, rows, key)
  BY DEF Qualifying
<1> QED  BY <1>6, <1>7, FS_CardinalityType

(* The order of the outputs is total: it ends with all of group_by.        *)
Earlier(q, S) == [o \in S |-> {p \in S : Before(q, p, o)}]

LEMMA BeforeFacts ==
  ASSUME NEW rows \in Contents, NEW q, IsCall(q), Valid(q)
  PROVE  StrictOrder(Qualifying(q, rows), Earlier(q, Qualifying(q, rows)))
<1> DEFINE S == Qualifying(q, rows)  order == OrderKeys(q)  n == Len(order)
           c == [o \in S |-> [i \in 1..n |-> Cell(q, o, order[i].key)]]
           desc == [i \in 1..n |-> order[i].desc]
<1>1. /\ n \in Nat /\ DOMAIN order = 1..n
      /\ \A i \in DOMAIN order : order[i].key \in ToSet(OutNames(q))
      /\ \A i \in DOMAIN q.group_by : \E k \in DOMAIN order : order[k].key = q.group_by[i]
  BY OrderKeysFacts, SeqFacts
<1>2. \A o \in S : \E key \in Keys(q, rows) : o = Output(q, rows, key)  BY QualifyingFacts
<1>3. \A o \in S, i \in 1..n : c[o][i] = Cell(q, o, order[i].key)  OBVIOUS
<1>4. \A i \in 1..n : desc[i] = order[i].desc  OBVIOUS
<1>5. \A o, p \in S : Before(q, p, o) <=> Precedes(desc, n, c[p], c[o])
  <2> SUFFICES ASSUME NEW o \in S, NEW p \in S
               PROVE  Before(q, p, o) <=> Precedes(desc, n, c[p], c[o])
    OBVIOUS
  <2> HIDE DEF c, desc, S, order, n
  <2>1. \A i \in 1..n : c[p][i] = Cell(q, p, order[i].key) /\ c[o][i] = Cell(q, o, order[i].key)
                        /\ desc[i] = order[i].desc
    BY <1>3, <1>4
  <2>2. \A i \in 1..n : \A k \in 1..(i - 1) : k \in 1..n  BY <1>1
  <2>3. Before(q, p, o) <=>
          \E i \in 1..n :
            /\ IF order[i].desc THEN Cell(q, p, order[i].key) > Cell(q, o, order[i].key)
                                ELSE Cell(q, p, order[i].key) < Cell(q, o, order[i].key)
            /\ \A k \in 1..(i - 1) : Cell(q, p, order[k].key) = Cell(q, o, order[k].key)
    BY <1>1 DEF Before, order
  <2> QED  BY <2>1, <2>2, <2>3 DEF Precedes, Less
<1> HIDE DEF c, desc, S, order, n
<1>6. ASSUME NEW o \in S, NEW i \in 1..n PROVE c[o][i] \in Int
  <2>1. PICK key \in Keys(q, rows) : o = Output(q, rows, key)  BY <1>2
  <2>2. order[i].key \in ToSet(OutNames(q))  BY <1>1
  <2> QED  BY <1>3, <2>1, <2>2, OutputFacts
<1>7. ASSUME NEW o \in S, NEW p \in S, \A i \in 1..n : c[o][i] = c[p][i] PROVE o = p
  <2>1. PICK key \in Keys(q, rows) : o = Output(q, rows, key)  BY <1>2
  <2>2. PICK other \in Keys(q, rows) : p = Output(q, rows, other)  BY <1>2
  <2>3. ASSUME NEW i \in DOMAIN q.group_by PROVE key[i] = other[i]
    <3>1. Cell(q, o, q.group_by[i]) = key[i] /\ Cell(q, p, q.group_by[i]) = other[i]
      BY <2>1, <2>2, OutputFacts
    <3>2. PICK k \in 1..n : order[k].key = q.group_by[i]  BY <1>1
    <3> QED  BY <1>3, <1>7, <3>1, <3>2
  <2>4. key = other
    <3>1. IsSeq(key) /\ Len(key) = Len(q.group_by) /\ IsSeq(other) /\ Len(other) = Len(q.group_by)
      BY KeyFacts
    <3>2. DOMAIN q.group_by = 1..Len(q.group_by)  BY SeqFacts DEF IsCall
    <3> DEFINE m == Len(q.group_by)
    <3>3. key = [i \in 1..m |-> key[i]] /\ other = [i \in 1..m |-> other[i]]  BY <3>1, SeqFacts
    <3>4. \A i \in 1..m : key[i] = other[i]  BY <2>3, <3>2
    <3> HIDE DEF m
    <3>5. [i \in 1..m |-> key[i]] = [i \in 1..m |-> other[i]]  BY <3>4
    <3> QED  BY <3>3, <3>5
  <2> QED  BY <2>1, <2>2, <2>4
<1> DEFINE b == Earlier(q, S)
<1>8. b \in [S -> SUBSET S] /\ \A o, p \in S : o \in b[p] <=> Precedes(desc, n, c[o], c[p])
  BY <1>5 DEF Earlier
<1> HIDE DEF b
<1>9. \A o \in S, i \in 1..n : c[o][i] \in Int  BY <1>6
<1>10. \A o, p \in S : o # p => \E i \in 1..n : c[o][i] # c[p][i]  BY <1>7
<1>11. n \in Nat  BY <1>1
<1>12. StrictOrder(S, b)  BY <1>8, <1>9, <1>10, <1>11, LexicographicFacts
<1> QED  BY <1>12 DEF S, b

LEMMA OrderedFacts ==
  ASSUME NEW q, NEW S, IsFiniteSet(S), StrictOrder(S, Earlier(q, S)),
         NEW n \in Nat, NEW s \in Ordered(q, S, n)
  PROVE  /\ Len(s) = n /\ DOMAIN s = 1..n
         /\ \A i \in 1..n : s[i] \in S /\ Cardinality(Earlier(q, S)[s[i]]) = i - 1
<1> DEFINE low(o) == {p \in S : Before(q, p, o)}  high(o) == {p \in S : Before(q, o, p)}
           may == [i \in 1..n |-> {o \in S : /\ Cardinality(low(o)) < i
                                             /\ i <= Cardinality(S) - Cardinality(high(o))}]
<1>1. s \in [1..n -> UNION Range(may)] /\ \A i \in 1..n : s[i] \in may[i]
  BY DEF Ordered
<1>2. Cardinality(S) \in Nat  BY FS_CardinalityType
<1>3. ASSUME NEW o \in S
      PROVE  /\ Cardinality(low(o)) \in Nat /\ Cardinality(high(o)) \in Nat
             /\ Cardinality(S) = Cardinality(low(o)) + 1 + Cardinality(high(o))
  <2>1. /\ \A p \in S : Before(q, p, o) <=> p \in Earlier(q, S)[o]
        /\ \A p \in S : Before(q, o, p) <=> o \in Earlier(q, S)[p]
    BY DEF Earlier
  <2>2. /\ ~ Before(q, o, o)
        /\ \A p \in S : ~ (Before(q, p, o) /\ Before(q, o, p))
        /\ \A p \in S : p = o \/ Before(q, p, o) \/ Before(q, o, p)
    <3> HIDE DEF low, high, may
    <3> QED  BY <2>1 DEF StrictOrder
  <2> DEFINE lo == low(o)  hi == high(o)  rest == S \ {o}
  <2>3. lo \in SUBSET S /\ hi \in SUBSET S /\ lo \cap hi = {} /\ lo \cup hi = rest  BY <2>2
  <2>4. IsFiniteSet(rest) /\ Cardinality(rest) = Cardinality(S) - 1  BY FS_RemoveElement
  <2> HIDE DEF lo, hi, rest
  <2>5. IsFiniteSet(lo) /\ IsFiniteSet(hi)  BY <2>3, FS_Subset
  <2>6. Cardinality(lo \cup hi) = Cardinality(lo) + Cardinality(hi) - Cardinality(lo \cap hi)
    BY <2>5, FS_Union
  <2>7. Cardinality(lo \cap hi) = 0  BY <2>3, FS_EmptySet
  <2>8. Cardinality(lo) \in Nat /\ Cardinality(hi) \in Nat  BY <2>5, FS_CardinalityType
  <2>9. Cardinality(lo \cup hi) = Cardinality(S) - 1  BY <2>3, <2>4
  <2>10. Cardinality(S) - 1 = Cardinality(lo) + Cardinality(hi)  BY <2>6, <2>7, <2>8, <2>9
  <2>11. Cardinality(S) = Cardinality(lo) + 1 + Cardinality(hi)  BY <1>2, <2>8, <2>10
  <2> QED  BY <2>8, <2>11 DEF lo, hi
<1>4. ASSUME NEW i \in 1..n PROVE s[i] \in S /\ Cardinality(low(s[i])) = i - 1
  <2>1. /\ s[i] \in S /\ Cardinality(low(s[i])) < i
        /\ i <= Cardinality(S) - Cardinality(high(s[i]))
    BY <1>1
  <2> HIDE DEF low, high
  <2>2. /\ Cardinality(low(s[i])) \in Nat /\ Cardinality(high(s[i])) \in Nat
        /\ Cardinality(S) = Cardinality(low(s[i])) + 1 + Cardinality(high(s[i]))
    BY <1>3, <2>1
  <2> QED  BY <1>2, <2>1, <2>2
<1>5. Len(s) = n /\ DOMAIN s = 1..n
  <2> HIDE DEF may
  <2>1. DOMAIN s = 1..n /\ s = [i \in 1..n |-> s[i]]  BY <1>1
  <2> QED  BY <2>1, SeqIntro
<1>6. \A o \in S : Earlier(q, S)[o] = low(o)  BY DEF Earlier
<1> HIDE DEF low, may
<1> QED  BY <1>4, <1>5, <1>6

(* Where everything has the right type, nothing is left out.               *)
LEMMA ItemsAtAll ==
  ASSUME NEW s, IsSeq(s)
  PROVE  ItemsAt(s, DOMAIN s) = s
<1> DEFINE n == Len(s)  S == 1..n  b == [x \in S |-> {y \in S : y < x}]
<1>1. n \in Nat /\ DOMAIN s = S /\ s = [i \in S |-> s[i]]  BY SeqFacts
<1>2. ASSUME NEW x \in S PROVE Cardinality(b[x]) = x - 1
  <2>1. x \in Nat /\ x - 1 \in Nat /\ b[x] = 1..(x - 1)  BY <1>1
  <2> HIDE DEF b
  <2> QED  BY <2>1, FS_Interval
<1>3. IsFiniteSet(S) /\ Cardinality(S) = n
  <2> HIDE DEF n
  <2> QED  BY <1>1, FS_Interval
<1>4. Ascending(S) = [i \in 1..Cardinality(S) |-> CHOOSE x \in S : Cardinality(b[x]) = i - 1]
  BY DEF Ascending, InOrder
<1> HIDE DEF b
<1>5. ASSUME NEW i \in S PROVE (CHOOSE x \in S : Cardinality(b[x]) = i - 1) = i
  <2>1. ASSUME NEW x \in S PROVE Cardinality(b[x]) = i - 1 <=> x = i
    BY <1>1, <1>2
  <2> QED  BY <2>1
<1>6. DOMAIN Ascending(S) = S /\ \A i \in S : Ascending(S)[i] = i  BY <1>3, <1>4, <1>5
<1>7. ItemsAt(s, S) = [i \in S |-> s[i]]  BY <1>6 DEF ItemsAt
<1> QED  BY <1>1, <1>7

LEMMA SliceOfAll ==
  ASSUME NEW s, IsSeq(s), WellShaped(s), \A i \in DOMAIN s : WellShaped(s[i])
  PROVE  AsSlice(s) = s
<1>1. {i \in DOMAIN s : WellShaped(s[i])} = DOMAIN s  OBVIOUS
<1> QED  BY <1>1, ItemsAtAll DEF AsSlice

LEMMA DeclaredFacts ==
  ASSUME NEW args \in Calls, Understood(args)
  PROVE  AnalyzeInput(args) = Declared(args)
<1>1. ASSUME NEW list \in Lists PROVE AsSlice(args[list]) = args[list]
  <2> DEFINE x == args[list]
  <2>1. WellShaped(x) /\ \A i \in DOMAIN x : WellShaped(x[i])  BY DEF Understood, ListsUnderstood
  <2>2. IsSeq(x)  BY <2>1, AnalysisAssumption DEF AnalysisAssumption, IsSeq
  <2> HIDE DEF x
  <2>3. AsSlice(x) = x  BY <2>1, <2>2, SliceOfAll
  <2> QED  BY <2>3 DEF x
<1>2. /\ AsSlice(args.filters) = args.filters /\ AsSlice(args.group_by) = args.group_by
      /\ AsSlice(args.aggregates) = args.aggregates /\ AsSlice(args.having) = args.having
      /\ AsSlice(args.order_by) = args.order_by
  BY <1>1 DEF Lists
<1>3. WellShaped(args.limit)  BY DEF Understood
<1> QED  BY <1>2, <1>3 DEF AnalyzeInput, Declared

(* An OK of analyze answers a valid query about a table as it was.         *)
Made(q) == q.args \in Calls /\ q = AnalyzeInput(q.args) /\ IsCall(q)

CallInv ==
  /\ pc \in Plain \cup Grouped => query.tool = "query_distribution"
  /\ pc = "analyze" => Made(query)

AnswerInv ==
  Analyzed => Made(query) /\ Valid(query) /\ seen \in Contents /\ reply.rows \in Answers(query, seen)

LEMMA CallStep == ControlInv /\ CallInv /\ [AnalysisNext]_vars => CallInv'
<1> SUFFICES ASSUME ControlInv, CallInv, [AnalysisNext]_vars PROVE CallInv'  OBVIOUS
<1> USE DEF CallInv, Plain, Grouped
<1>1. ASSUME NEW rows \in Contents, Refresh(rows) PROVE CallInv'
  BY <1>1 DEF Refresh
<1>2. ASSUME NEW q \in Queries, Begin(q) PROVE CallInv'
  <2>1. q.tool = "query_distribution"  BY DistributionAssumption DEF DistributionAssumption
  <2>2. query' = q /\ pc' \in {"summary", "profile"}  BY <1>2 DEF Begin, Call
  <2> QED  BY <2>1, <2>2
<1>3. CASE StatementFails
  BY <1>3 DEF StatementFails, Reply
<1>4. CASE Deliver
  BY <1>4 DEF Deliver
<1>5. ASSUME NEW place \in Plain \cup Grouped, Reading(place),
             pc' \in {"told"} \cup Plain \cup Grouped
      PROVE  CallInv'
  BY <1>5 DEF Reading
<1>6. CASE ReadProfile
  BY <1>5, <1>6 DEF ReadProfile, Reply, Go
<1>7. CASE ReadTopN
  BY <1>5, <1>7 DEF ReadTopN, Reply, Go
<1>8. CASE ReadRows
  BY <1>5, <1>8 DEF ReadRows, Reply
<1>9. CASE ReadGroups
  BY <1>5, <1>9 DEF ReadGroups, Reply, Go
<1>10. CASE ReadTotals
  BY <1>5, <1>10 DEF ReadTotals, Reply, Go
<1>11. CASE ReadGroupProfile
  BY <1>5, <1>11 DEF ReadGroupProfile, Reply, Go
<1>12. CASE ReadGroupTopN
  BY <1>5, <1>12 DEF ReadGroupTopN, Reply, Go, GroupDone
<1>13. CASE ReadGroupRows
  BY <1>5, <1>13 DEF ReadGroupRows, Reply, Go, GroupDone
<1>14. CASE FinishGroups
  BY <1>5, <1>14 DEF FinishGroups, Reply
<1>15. ASSUME NEW args \in Calls, BeginAnalysis(args) PROVE CallInv'
  <2>1. query' = AnalyzeInput(args) /\ pc' \in {"told", "analyze"}  BY <1>15 DEF BeginAnalysis, Call
  <2>2. AnalyzeInput(args).args = args  BY DEF AnalyzeInput
  <2>3. IsCall(query') /\ query'.args = args  BY <2>1, <2>2, CallFacts
  <2> QED  BY <2>1, <2>3 DEF Made
<1>16. CASE ReadAnalysis
  BY <1>16 DEF ReadAnalysis, Reply
<1>17. CASE UNCHANGED vars
  BY <1>17 DEF vars
<1> QED
  BY <1>1, <1>2, <1>3, <1>4, <1>6, <1>7, <1>8, <1>9, <1>10, <1>11, <1>12, <1>13, <1>14,
     <1>15, <1>16, <1>17 DEF AnalysisNext, Next

LEMMA AnswerStep == ControlInv /\ CallInv /\ AnswerInv /\ [AnalysisNext]_vars => AnswerInv'
<1> SUFFICES ASSUME ControlInv, CallInv, AnswerInv, [AnalysisNext]_vars, Analyzed' PROVE AnswerInv'
  BY DEF AnswerInv
<1>0. reply'.status = "OK" /\ fresh' /\ query'.tool = "analyze"  BY DEF Analyzed
<1>u. ASSUME UNCHANGED <<query, reply, seen>>, fresh' => fresh PROVE AnswerInv'
  BY <1>u DEF AnswerInv, Analyzed
<1>n. ASSUME reply' = reply, pc # "told" PROVE FALSE  BY <1>0, <1>n DEF ControlInv
<1>e. ASSUME NEW status, reply' = Answer(status), status # "OK" PROVE FALSE
  BY <1>0, <1>e DEF Answer
<1>r. ASSUME NEW place \in Plain \cup Grouped, Reading(place) PROVE FALSE
  BY <1>0, <1>r DEF Reading, CallInv
<1>1. ASSUME NEW rows \in Contents, Refresh(rows) PROVE AnswerInv'
  BY <1>1, <1>u DEF Refresh
<1>2. ASSUME NEW q, Begin(q) PROVE FALSE
  BY <1>2, <1>n DEF Begin, Call
<1>3. CASE StatementFails
  BY <1>3, <1>e DEF StatementFails, Reply
<1>4. CASE Deliver
  BY <1>4, <1>e DEF Deliver, NoReply
<1>5. CASE ReadProfile \/ ReadTopN \/ ReadRows \/ ReadGroups \/ ReadTotals \/ ReadGroupProfile
           \/ ReadGroupTopN \/ ReadGroupRows \/ FinishGroups
  <2>1. \E place \in Plain \cup Grouped : Reading(place)
    BY <1>5 DEF Plain, Grouped, ReadProfile, ReadTopN, ReadRows, ReadGroups, ReadTotals,
                ReadGroupProfile, ReadGroupTopN, ReadGroupRows, FinishGroups
  <2> QED  BY <1>r, <2>1
<1>6. ASSUME NEW args \in Calls, BeginAnalysis(args) PROVE FALSE
  BY <1>6, <1>e, <1>n DEF BeginAnalysis, Call
<1>7. CASE ReadAnalysis
  <2>1. pc = "analyze" /\ UNCHANGED <<query, seen, fresh>> /\ table \in Contents
    BY <1>7 DEF ReadAnalysis, Reading, ControlInv
  <2>2. seen = table /\ Made(query)  BY <1>0, <2>1 DEF ControlInv, CallInv
  <2>3. Valid(query) /\ \E rows \in Answers(query, table) : reply' = [status |-> "OK", rows |-> rows]
    BY <1>7, <1>e DEF ReadAnalysis, Reply
  <2>4. reply'.rows \in Answers(query, table)
    <3> DEFINE A == Answers(query, table)
    <3>1. \E rows \in A : reply' = [status |-> "OK", rows |-> rows]  BY <2>3
    <3> HIDE DEF A
    <3>2. reply'.rows \in A  BY <3>1
    <3> QED  BY <3>2 DEF A
  <2>5. Made(query)' /\ Valid(query)' /\ Answers(query, seen)' = Answers(query, table)
    BY <2>1, <2>2, <2>3
  <2> QED  BY <2>1, <2>2, <2>4, <2>5 DEF AnswerInv
<1>8. CASE UNCHANGED vars
  BY <1>8, <1>u DEF vars
<1> QED
  BY <1>1, <1>2, <1>3, <1>4, <1>5, <1>6, <1>7, <1>8 DEF AnalysisNext, Next

(* An OK of analyze to a call whose arguments can be understood holds the  *)
(* groups of the query they declare that meet the conditions on the        *)
(* outputs, the first of them in the order of buildOrderBy, up to the      *)
(* limit, and none is missing (analysis_builder.go:203), whichever row of  *)
(* a group and whichever of two equals SQLite takes.                       *)
THEOREM AnswersCorrect == AnalysisSpec => []AnsweredAsDeclared
<1>1. Init => CallInv /\ AnswerInv
  <2>1. Init => CallInv  BY DEF Init, CallInv, Plain, Grouped
  <2>2. NoReply.status = ""  BY DEF NoReply, Answer
  <2>3. Init => ~ Analyzed  BY <2>2 DEF Init, Analyzed
  <2> QED  BY <2>1, <2>3 DEF AnswerInv
<1>2. Inv /\ CallInv /\ AnswerInv /\ [AnalysisNext]_vars => CallInv' /\ AnswerInv'
  BY CallStep, AnswerStep DEF Inv
<1>3. AnswerInv => AnsweredAsDeclared
  <2>0. ASSUME AnswerInv, Analyzed, Understood(query.args) PROVE Declared(query.args) = query
    BY <2>0, DeclaredFacts DEF AnswerInv, Made
  <2> SUFFICES ASSUME AnswerInv, Analyzed, ~ Shadowed(query)
               PROVE  LET all == Qualifying(query, seen) IN
                      /\ Len(reply.rows) = Min({Limit(query), Cardinality(all)})
                      /\ \A i \in DOMAIN reply.rows :
                           /\ reply.rows[i] \in all
                           /\ Cardinality({output \in all : Before(query, output, reply.rows[i])}) = i - 1
    BY <2>0 DEF AnsweredAsDeclared
  <2> DEFINE all == Qualifying(query, seen)  n == Min({Limit(query), Cardinality(all)})
  <2>1. IsCall(query) /\ Valid(query) /\ seen \in Contents /\ reply.rows \in Answers(query, seen)
    BY DEF AnswerInv, Made
  <2>2. IsFiniteSet(all) /\ Cardinality(all) \in Nat  BY <2>1, QualifyingFacts
  <2>3. StrictOrder(all, Earlier(query, all))  BY <2>1, BeforeFacts
  <2>4. n \in Nat
    <3>1. Limit(query) \in Nat  BY AnalysisAssumption DEF Limit, AnalysisAssumption
    <3> DEFINE c == Cardinality(all)  l == Limit(query)
    <3>2. c \in Nat /\ l \in Nat /\ c \in Int /\ l \in Int  BY <2>2, <3>1
    <3> HIDE DEF c, l
    <3>3. Min({l, c}) \in {l, c}  BY <3>2, PairFacts
    <3> QED  BY <3>2, <3>3 DEF c, l
  <2>5. reply.rows \in Ordered(query, all, n)
    <3> DEFINE of(keys) == {Output(query, seen, key) : key \in keys}
    <3>1. PICK keys \in Kept(query, seen) :
            reply.rows \in Ordered(query, of(keys), Min({Limit(query), Cardinality(of(keys))}))
      BY <2>1 DEF Answers
    <3>2. of(keys) = all  BY <2>1, KeptFacts
    <3> HIDE DEF of, all
    <3> QED  BY <3>1, <3>2
  <2> HIDE DEF all, n
  <2>6. /\ Len(reply.rows) = n /\ DOMAIN reply.rows = 1..n
        /\ \A i \in 1..n : /\ reply.rows[i] \in all
                           /\ Cardinality(Earlier(query, all)[reply.rows[i]]) = i - 1
    BY <2>2, <2>3, <2>4, <2>5, OrderedFacts
  <2>7. \A o \in all : Earlier(query, all)[o] = {output \in all : Before(query, output, o)}
    BY DEF Earlier
  <2>8. \A i \in DOMAIN reply.rows :
          /\ reply.rows[i] \in all
          /\ Cardinality({output \in all : Before(query, output, reply.rows[i])}) = i - 1
    BY <2>6, <2>7
  <2> QED  BY <2>6, <2>8 DEF all, n
<1> QED  BY <1>1, <1>2, <1>3, Invariant, PTL DEF AnalysisSpec

=============================================================================
