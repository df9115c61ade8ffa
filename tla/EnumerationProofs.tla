-------------------------- MODULE EnumerationProofs --------------------------
(***************************************************************************)
(* Facts about InOrder and InTurn that the tables they are used on rest    *)
(* on: a finite set of numbers has one increasing enumeration, in which    *)
(* each number stands at its rank.                                         *)
(***************************************************************************)
EXTENDS Enumeration, Sequences, Functions, TLAPS, FiniteSetTheorems, WellFoundedInduction

(* A set of numbers that is not empty has a least one.                     *)
LEMMA LeastIs ==
    ASSUME NEW S \in SUBSET Nat, S # {}
    PROVE  \E j \in S : \A k \in S : j <= k
<1> DEFINE Less == {ss \in Nat \X Nat : ss[1] < ss[2]}
<1>1. IsWellFoundedOn(Less, Nat)
  BY NatLessThanWellFounded DEF OpToRel
<1> HIDE DEF Less
<1>2. PICK j \in S : \A k \in S : <<k, j>> \notin Less
  BY <1>1, WFMin
<1>3. \A k \in S : j <= k
  <2> SUFFICES ASSUME NEW k \in S, k < j PROVE FALSE
    OBVIOUS
  <2>1. <<k, j>> \in Nat \X Nat /\ <<k, j>>[1] < <<k, j>>[2]
    OBVIOUS
  <2>2. <<k, j>> \in Less
    BY <2>1 DEF Less
  <2> QED BY <1>2, <2>2
<1> QED BY <1>3

(* An increasing enumeration of a finite set of numbers.                   *)
Rising(f, n) == \A i, j \in 1..n : i < j => f[i] < f[j]
Enumerates(f, S) == f \in [1..Cardinality(S) -> S] /\ Rising(f, Cardinality(S))

UpTo(S, k) == {j \in S : j <= k}

(* The ranks of the numbers of a set are 1 to its size, each taken once.   *)
LEMMA Ranks ==
    ASSUME NEW S \in SUBSET Nat, IsFiniteSet(S)
    PROVE  /\ \A k, l \in S : k < l => Cardinality(UpTo(S, k)) < Cardinality(UpTo(S, l))
           /\ \A k \in S : Cardinality(UpTo(S, k)) \in 1..Cardinality(S)
           /\ \A i \in 1..Cardinality(S) : \E k \in S : Cardinality(UpTo(S, k)) = i
<1> DEFINE n == Cardinality(S)
           Rank == [k \in S |-> Cardinality(UpTo(S, k))]
<1>1. n \in Nat /\ IsFiniteSet(1..n) /\ Cardinality(1..n) = n
  BY FS_CardinalityType, FS_Interval
<1>2. \A k : UpTo(S, k) \in SUBSET S
  BY DEF UpTo
<1>3. \A T \in SUBSET S : IsFiniteSet(T) /\ Cardinality(T) \in Nat
  BY FS_Subset, FS_CardinalityType
<1>4. ASSUME NEW k \in S, NEW l \in S, k < l
      PROVE  Cardinality(UpTo(S, k)) < Cardinality(UpTo(S, l))
  <2>1. UpTo(S, k) \in SUBSET UpTo(S, l)
    <3> SUFFICES ASSUME NEW j \in S, j <= k PROVE j <= l
      BY DEF UpTo
    <3>1. j \in Nat /\ k \in Nat /\ l \in Nat
      OBVIOUS
    <3> QED BY <1>4, <3>1
  <2>2. l \in UpTo(S, l) /\ l \notin UpTo(S, k)
    <3>1. k \in Nat /\ l \in Nat
      OBVIOUS
    <3> QED BY <1>4, <3>1 DEF UpTo
  <2>3. PICK U, V : U = UpTo(S, k) /\ V = UpTo(S, l)
    OBVIOUS
  <2>4. IsFiniteSet(V) /\ Cardinality(U) \in Nat /\ Cardinality(V) \in Nat
    BY <1>2, <1>3, <2>3
  <2>5. Cardinality(U) <= Cardinality(V) /\ Cardinality(U) # Cardinality(V)
    BY <2>1, <2>2, <2>3, <2>4, FS_Subset
  <2> QED BY <2>3, <2>4, <2>5
<1>5. ASSUME NEW k \in S PROVE Cardinality(UpTo(S, k)) \in 1..n
  <2>1. PICK U : U = UpTo(S, k)
    OBVIOUS
  <2>2. U \in SUBSET S /\ k \in U
    BY <2>1 DEF UpTo
  <2>3. IsFiniteSet(U) /\ Cardinality(U) \in Nat /\ Cardinality(U) <= n
    BY <1>3, <2>2, FS_Subset
  <2>4. Cardinality(U) # 0
    BY <2>2, <2>3, FS_EmptySet
  <2> QED BY <1>1, <2>1, <2>3, <2>4
<1>6. Rank \in Injection(S, 1..n)
  <2>1. Rank \in [S -> 1..n]
    BY <1>5
  <2>2. ASSUME NEW k \in S, NEW l \in S, Rank[k] = Rank[l] PROVE k = l
    <3>1. k \in Nat /\ l \in Nat /\ Cardinality(UpTo(S, k)) \in Nat
      BY <1>1, <1>5
    <3>2. ~(k < l) /\ ~(l < k)
      BY <1>4, <2>2, <3>1
    <3> QED BY <3>1, <3>2
  <2> HIDE DEF Rank
  <2> QED BY <2>1, <2>2 DEF Injection, IsInjective
<1>7. Rank \in Surjection(S, 1..n)
  BY <1>1, <1>6, FS_Injection
<1>8. \A i \in 1..n : \E k \in S : Rank[k] = i
  BY <1>7 DEF Surjection
<1> QED BY <1>4, <1>5, <1>8

LEMMA InOrderEnumerates ==
    ASSUME NEW S \in SUBSET Nat, IsFiniteSet(S)
    PROVE  Enumerates(InOrder(S), S)
<1> DEFINE n == Cardinality(S)
<1>1. PICK o : o = InOrder(S)
  OBVIOUS
<1>2. o = [i \in 1..n |-> CHOOSE k \in S : Cardinality(UpTo(S, k)) = i]
  BY <1>1 DEF InOrder, UpTo
<1>3. ASSUME NEW i \in 1..n PROVE o[i] \in S /\ Cardinality(UpTo(S, o[i])) = i
  <2>1. \E k \in S : Cardinality(UpTo(S, k)) = i
    BY Ranks
  <2>2. o[i] = CHOOSE k \in S : Cardinality(UpTo(S, k)) = i
    BY <1>2
  <2> QED BY <2>1, <2>2
<1>4. ASSUME NEW i \in 1..n, NEW j \in 1..n, i < j PROVE o[i] < o[j]
  <2>1. PICK k, l : k = o[i] /\ l = o[j]
    OBVIOUS
  <2>2. /\ k \in S /\ l \in S /\ Cardinality(UpTo(S, k)) = i /\ Cardinality(UpTo(S, l)) = j
    BY <1>3, <2>1
  <2>0. k \in Nat /\ l \in Nat /\ i \in Nat /\ j \in Nat
    BY <2>2
  <2>3. l < k => j < i
    BY <2>2, Ranks
  <2>4. l = k => j = i
    BY <2>2
  <2> QED BY <1>4, <2>0, <2>1, <2>3, <2>4
<1> QED BY <1>1, <1>2, <1>3, <1>4 DEF Enumerates, Rising

(* It leaves nothing out,                                                  *)
LEMMA EnumerationCovers ==
    ASSUME NEW S \in SUBSET Nat, IsFiniteSet(S), NEW f, Enumerates(f, S)
    PROVE  \A s \in S : \E i \in 1..Cardinality(S) : f[i] = s
<1> DEFINE n == Cardinality(S)
<1>1. n \in Nat /\ IsFiniteSet(1..n) /\ Cardinality(1..n) = n
  BY FS_CardinalityType, FS_Interval
<1>2. f \in [1..n -> S] /\ \A i, j \in 1..n : i < j => f[i] < f[j]
  BY DEF Enumerates, Rising
<1>3. \A i, j \in 1..n : f[i] = f[j] => i = j
  <2> SUFFICES ASSUME NEW i \in 1..n, NEW j \in 1..n, f[i] = f[j], i < j PROVE FALSE
    BY <1>1
  <2>1. f[i] \in Nat /\ f[i] < f[j]
    BY <1>1, <1>2
  <2> QED BY <2>1
<1>4. f \in Injection(1..n, S)
  BY <1>2, <1>3 DEF Injection, IsInjective
<1>5. f \in Surjection(1..n, S)
  BY <1>1, <1>4, FS_Injection
<1> QED BY <1>5 DEF Surjection

(* and there is one only.                                                  *)
LEMMA EnumerationUnique ==
    ASSUME NEW S \in SUBSET Nat, IsFiniteSet(S),
           NEW f, NEW g, Enumerates(f, S), Enumerates(g, S)
    PROVE  f = g
<1> DEFINE n == Cardinality(S)
           unlike == {i \in 1..n : f[i] # g[i]}
<1>0. n \in Nat /\ f \in [1..n -> S] /\ g \in [1..n -> S]
  BY FS_CardinalityType DEF Enumerates
<1> SUFFICES ASSUME unlike # {} PROVE FALSE
  BY <1>0
<1>1. unlike \in SUBSET Nat
  BY <1>0
<1>2. PICK i \in unlike : \A j \in unlike : i <= j
  BY <1>1, LeastIs
<1>3. i \in 1..n /\ f[i] # g[i] /\ \A j \in 1..n : j < i => f[j] = g[j]
  BY <1>0, <1>2
<1>4. ASSUME NEW h, NEW k, Enumerates(h, S), Enumerates(k, S), h[i] < k[i],
             \A j \in 1..n : j < i => h[j] = k[j]
      PROVE  FALSE
  <2>0. /\ h \in [1..n -> S] /\ k \in [1..n -> S]
        /\ \A a, b \in 1..n : a < b => h[a] < h[b] /\ k[a] < k[b]
    BY <1>4 DEF Enumerates, Rising
  <2>1. h[i] \in Nat /\ k[i] \in Nat /\ h[i] \in S
    BY <1>3, <2>0
  <2>2. PICK j \in 1..n : k[j] = h[i]
    BY <1>4, <2>1, EnumerationCovers
  <2>3. CASE j < i
    <3>1. h[j] = h[i] /\ h[j] < h[i] /\ h[i] \in Nat
      BY <1>3, <1>4, <2>0, <2>1, <2>2, <2>3
    <3> QED BY <3>1
  <2>4. CASE j = i
    BY <1>4, <2>1, <2>2, <2>4
  <2>5. CASE j > i
    <3>1. k[i] < k[j]
      BY <1>3, <2>0, <2>5
    <3> QED BY <1>4, <2>1, <2>2, <3>1
  <2> QED BY <1>0, <1>3, <2>3, <2>4, <2>5
<1>5. f[i] \in Nat /\ g[i] \in Nat
  BY <1>0, <1>3
<1>6. f[i] < g[i] \/ g[i] < f[i]
  BY <1>3, <1>5
<1> QED BY <1>3, <1>4, <1>6

LEMMA InOrderIs ==
    ASSUME NEW S \in SUBSET Nat, IsFiniteSet(S)
    PROVE  /\ Enumerates(InOrder(S), S)
           /\ \A f : Enumerates(f, S) => f = InOrder(S)
           /\ \A s \in S : \E i \in 1..Cardinality(S) : InOrder(S)[i] = s
BY InOrderEnumerates, EnumerationUnique, EnumerationCovers

LEMMA Ordered ==
    ASSUME NEW S \in SUBSET Nat, IsFiniteSet(S), NEW o, o = InOrder(S),
           NEW n, n = Cardinality(S)
    PROVE  /\ n \in Nat /\ DOMAIN o = 1..n
           /\ \A i \in 1..n : o[i] \in S
           /\ \A i, j \in 1..n : i < j => o[i] < o[j]
           /\ \A s \in S : \E i \in 1..n : o[i] = s
           /\ o \in Seq(Nat) /\ Len(o) = n
<1>1. Enumerates(o, S) /\ n \in Nat /\ \A s \in S : \E i \in 1..n : o[i] = s
  BY InOrderIs, FS_CardinalityType
<1>2. o \in [1..n -> S] /\ \A i, j \in 1..n : i < j => o[i] < o[j]
  BY <1>1 DEF Enumerates, Rising
<1>3. o \in [1..n -> Nat]
  BY <1>2
<1>4. o \in Seq(Nat) /\ Len(o) = n
  BY <1>1, <1>3
<1> QED BY <1>1, <1>2, <1>4

(* The enumeration of two sets, the second past the first.                 *)
LEMMA InOrderJoins ==
    ASSUME NEW S \in SUBSET Nat, IsFiniteSet(S), NEW T \in SUBSET Nat, IsFiniteSet(T),
           \A s \in S, t \in T : s < t,
           NEW m, m = Cardinality(S), NEW n, n = Cardinality(T),
           NEW o, o = InOrder(S), NEW p, p = InOrder(T)
    PROVE  /\ Cardinality(S \cup T) = m + n /\ IsFiniteSet(S \cup T)
           /\ InOrder(S \cup T) = [i \in 1..(m + n) |-> IF i <= m THEN o[i] ELSE p[i - m]]
<1>2. /\ m \in Nat /\ n \in Nat
      /\ \A i \in 1..m : o[i] \in S
      /\ \A i \in 1..n : p[i] \in T
      /\ \A i, j \in 1..m : i < j => o[i] < o[j]
      /\ \A i, j \in 1..n : i < j => p[i] < p[j]
  BY Ordered
<1>3. S \cap T = {}
  <2> SUFFICES ASSUME NEW s \in S, s \in T PROVE FALSE
    OBVIOUS
  <2> QED BY s < s
<1>4. Cardinality(S \cup T) = m + n /\ IsFiniteSet(S \cup T)
  <2>1. /\ IsFiniteSet(S \cup T)
        /\ Cardinality(S \cup T) = Cardinality(S) + Cardinality(T) - Cardinality(S \cap T)
    BY FS_Union
  <2>2. Cardinality(S \cap T) = 0
    BY <1>3, FS_EmptySet
  <2> QED BY <1>2, <2>1, <2>2
<1> DEFINE f == [i \in 1..(m + n) |-> IF i <= m THEN o[i] ELSE p[i - m]]
<1>5. \A i \in 1..m : f[i] = o[i]
  BY <1>2
<1>6. \A i \in (m + 1)..(m + n) : f[i] = p[i - m] /\ i - m \in 1..n
  BY <1>2
<1>7. \A i \in 1..(m + n) : i \in 1..m \/ i \in (m + 1)..(m + n)
  BY <1>2
<1>8. f \in [1..(m + n) -> S \cup T]
  <2>1. \A i \in 1..(m + n) : (IF i <= m THEN o[i] ELSE p[i - m]) \in S \cup T
    BY <1>2
  <2> QED BY <2>1
<1> HIDE DEF f
<1>9. ASSUME NEW i \in 1..(m + n), NEW j \in 1..(m + n), i < j PROVE f[i] < f[j]
  <2>1. CASE j \in 1..m
    <3>1. i \in 1..m
      BY <1>2, <1>9, <2>1
    <3> QED BY <1>2, <1>5, <1>9, <2>1, <3>1
  <2>2. CASE i \in 1..m /\ j \in (m + 1)..(m + n)
    <3>1. f[i] = o[i] /\ o[i] \in S /\ f[j] = p[j - m] /\ p[j - m] \in T
      BY <1>2, <1>5, <1>6, <2>2
    <3> QED BY <3>1
  <2>3. CASE i \in (m + 1)..(m + n)
    <3>1. j \in (m + 1)..(m + n)
      BY <1>2, <1>9, <2>3
    <3>2. i - m \in 1..n /\ j - m \in 1..n /\ i - m < j - m
      BY <1>2, <1>6, <1>9, <2>3, <3>1
    <3> QED BY <1>2, <1>6, <2>3, <3>1, <3>2
  <2> QED BY <1>7, <2>1, <2>2, <2>3
<1>10. Enumerates(f, S \cup T)
  BY <1>4, <1>8, <1>9 DEF Enumerates, Rising
<1>11. f = InOrder(S \cup T)
  BY <1>4, <1>10, InOrderIs
<1> QED BY <1>4, <1>11 DEF f

=============================================================================
