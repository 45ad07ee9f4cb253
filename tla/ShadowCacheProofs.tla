------------------------- MODULE ShadowCacheProofs -------------------------
(***************************************************************************)
(* Proofs about the shadow cache: map, list and byte counter agree after   *)
(* any sequence of operations, and eviction takes the least recently used  *)
(* entries and no more than it has to.                                     *)
(***************************************************************************)
EXTENDS ShadowCache, FiniteSetTheorems, WellFoundedInduction, TLAPS

\* The arithmetic and set solver has half a minute for each leaf.
USE SMTT(30)

\* The keys of a list.
Listed(list) == {list[i] : i \in 1 .. Len(list)}

\* Every entry of the list is newer than those behind it.
Ordered(list, R) == \A i, j \in 1 .. Len(list) : i < j => list[i] # list[j] /\ <<list[i], list[j]>> \in R

\* No two keys are each newer than the other.
Asymmetric(R) == \A k, l \in Keys : <<k, l>> \in R => <<l, k>> \notin R

\* The inductive invariant.
ShadowInv ==
  /\ cached \subseteq Keys /\ lru \in Seq(Keys) /\ last \in [op : Operations, key : Keys]
  /\ newer \subseteq Keys \X Keys /\ Asymmetric(newer)
  /\ cached = Listed(lru) /\ Ordered(lru, newer)
  /\ IsFiniteSet(Bytes(cached)) /\ cachedBytes = BytesOf(cached)
  /\ Capacity # 0 => BytesOf(cached) <= Capacity

-----------------------------------------------------------------------------
(* Numbers and finite sets. *)

\* A non-empty set of naturals has a least element.
LEMMA LeastNat ==
  ASSUME NEW S \in SUBSET Nat, S # {}
  PROVE  \E m \in S : \A n \in S : m <= n
<1>1. IsWellFoundedOn(OpToRel(<, Nat), Nat)
  BY NatLessThanWellFounded, Zenon
<1>2. PICK m \in S : \A n \in S : ~(<<n, m>> \in OpToRel(<, Nat))
  BY <1>1, WFMin, Zenon
<1>3. \A n \in S : ~(n < m)
  BY <1>2, Zenon DEF OpToRel
<1>. QED
  BY <1>3

\* A set of numbers up to n is finite and has at most n elements.
LEMMA CountUpTo ==
  ASSUME NEW n \in Nat, NEW S \in SUBSET (1 .. n)
  PROVE  IsFiniteSet(S) /\ Cardinality(S) \in Nat /\ Cardinality(S) <= n
<1>1. IsFiniteSet(1 .. n) /\ Cardinality(1 .. n) = n
  BY FS_Interval
<1>. QED
  BY <1>1, FS_Subset, FS_CardinalityType, Zenon

\* The elements of disjoint sets are counted separately.
LEMMA CountApart ==
  ASSUME NEW S, IsFiniteSet(S), NEW T, IsFiniteSet(T), S \cap T = {}
  PROVE  /\ IsFiniteSet(S \cup T) /\ Cardinality(S) \in Nat /\ Cardinality(T) \in Nat
         /\ Cardinality(S \cup T) = Cardinality(S) + Cardinality(T)
<1>1. Cardinality(S \cap T) = 0
  BY FS_EmptySet
<1>2. Cardinality(S) \in Nat /\ Cardinality(T) \in Nat
  BY FS_CardinalityType
<1>3. /\ IsFiniteSet(S \cup T)
      /\ Cardinality(S \cup T) = Cardinality(S) + Cardinality(T) - Cardinality(S \cap T)
  BY FS_Union
<1>. QED
  BY <1>1, <1>2, <1>3

\* In a finite set with a strict total order R, every place from 0 to the last
\* one is taken: some element has exactly so many before it.
LEMMA EveryPlaceTaken ==
  ASSUME NEW S, IsFiniteSet(S), NEW R,
         \A x \in S : <<x, x>> \notin R,
         \A x, y, z \in S : <<x, y>> \in R /\ <<y, z>> \in R => <<x, z>> \in R,
         \A x, y \in S : x # y => <<x, y>> \in R \/ <<y, x>> \in R
  PROVE  /\ Cardinality(S) \in Nat
         /\ \A x \in S : Cardinality({y \in S : <<y, x>> \in R}) \in 0 .. (Cardinality(S) - 1)
         /\ \A x, z \in S : Cardinality({y \in S : <<y, x>> \in R}) < Cardinality({y \in S : <<y, z>> \in R})
                              <=> <<x, z>> \in R
         /\ \A j \in 0 .. (Cardinality(S) - 1) :
              \E x \in S : Cardinality({y \in S : <<y, x>> \in R}) = j
<1>. DEFINE Below(x) == {y \in S : <<y, x>> \in R}
            C(x) == Cardinality(Below(x))
            place == [x \in S |-> C(x)]
<1>0. PICK n : n = Cardinality(S)
  OBVIOUS
<1>1. n \in Nat
  BY <1>0, FS_CardinalityType
<1>2. \A x \in S : IsFiniteSet(Below(x)) /\ C(x) \in 0 .. (n - 1) /\ C(x) \in Nat
  <2>. TAKE x \in S
  <2>1. Below(x) \in SUBSET S /\ Below(x) # S
    BY Zenon
  <2>2. IsFiniteSet(Below(x)) /\ C(x) <= n /\ C(x) # n
    BY <1>0, <2>1, FS_Subset, Zenon
  <2>3. C(x) \in Nat
    BY <2>2, FS_CardinalityType
  <2>. QED BY <1>1, <2>2, <2>3
<1>3. \A x, z \in S : <<x, z>> \in R => C(x) < C(z)
  <2>. SUFFICES ASSUME NEW x \in S, NEW z \in S, <<x, z>> \in R PROVE C(x) < C(z)
    OBVIOUS
  <2>1. Below(x) \in SUBSET Below(z) /\ x \in Below(z) /\ x \notin Below(x)
    OBVIOUS
  <2>2. C(x) <= C(z) /\ C(x) # C(z)
    BY <1>2, <2>1, FS_Subset, Zenon
  <2>3. C(x) \in Nat /\ C(z) \in Nat
    BY <1>2
  <2>. HIDE DEF C
  <2>. QED BY <2>2, <2>3
<1>a. \A x \in S : place[x] = C(x) /\ C(x) \in Nat /\ C(x) \in 0 .. (n - 1)
  BY <1>2
<1>4. \A x, z \in S : C(x) < C(z) <=> <<x, z>> \in R
  <2>. SUFFICES ASSUME NEW x \in S, NEW z \in S PROVE C(x) < C(z) <=> <<x, z>> \in R
    BY Zenon
  <2>1. C(x) \in Nat /\ C(z) \in Nat
    BY <1>a
  <2>2. (<<x, z>> \in R => C(x) < C(z)) /\ (<<z, x>> \in R => C(z) < C(x))
    BY <1>3
  <2>3. x = z => C(x) = C(z)
    OBVIOUS
  <2>. HIDE DEF C
  <2>. QED BY <2>1, <2>2, <2>3
<1>5. place \in [S -> 0 .. (n - 1)] /\ \A x, z \in S : place[x] = place[z] => x = z
  <2>1. ASSUME NEW x \in S, NEW z \in S, C(x) = C(z) PROVE x = z
    <3>1. C(x) \in Nat /\ C(z) \in Nat
      BY <1>a
    <3>2. ~(<<x, z>> \in R) /\ ~(<<z, x>> \in R)
      <4>1. (<<x, z>> \in R => C(x) < C(z)) /\ (<<z, x>> \in R => C(z) < C(x))
        BY <1>3
      <4>. HIDE DEF C
      <4>. QED BY <2>1, <3>1, <4>1
    <3>. QED BY <3>2
  <2>. HIDE DEF C
  <2>. QED BY <1>a, <2>1
<1>6. place \in Injection(S, 0 .. (n - 1))
  <2>. HIDE DEF place
  <2>. QED BY <1>5 DEF Injection, IsInjective
<1>7. IsFiniteSet(0 .. (n - 1)) /\ Cardinality(0 .. (n - 1)) = n
  <2>1. /\ IsFiniteSet(0 .. (n - 1))
        /\ Cardinality(0 .. (n - 1)) = IF 0 > n - 1 THEN 0 ELSE (n - 1) - 0 + 1
    BY <1>1, FS_Interval
  <2>. QED BY <1>1, <2>1
<1>8. place \in Surjection(S, 0 .. (n - 1))
  BY <1>0, <1>6, <1>7, FS_Injection
<1>9. \A j \in 0 .. (n - 1) : \E x \in S : C(x) = j
  <2>. HIDE DEF C
  <2>. QED BY <1>8, Zenon DEF Surjection
<1>. QED
  BY <1>0, <1>1, <1>2, <1>4, <1>9, Zenon

-----------------------------------------------------------------------------
(* Bytes. *)

\* The bytes of one key.
LEMMA BytesOfKey ==
  ASSUME NEW k \in Keys
  PROVE  /\ Size(k) \in Nat \ {0} /\ IsFiniteSet(Bytes({k})) /\ BytesOf({k}) = Size(k)
<1>1. PICK lo \in Nat : lo = k.lo
  BY KeysAssumption
<1>2. PICK s \in Nat \ {0} : s = Size(k) /\ k.hi = lo + s
  BY <1>1, KeysAssumption DEF Size
<1>3. PICK I : I = lo .. (lo + s - 1)
  OBVIOUS
<1>4. IsFiniteSet(I) /\ Cardinality(I) = s
  <2>1. PICK x \in Int : x = lo
    OBVIOUS
  <2>2. PICK y \in Int : y = lo + s - 1
    OBVIOUS
  <2>3. IsFiniteSet(x .. y) /\ Cardinality(x .. y) = IF x > y THEN 0 ELSE y - x + 1
    BY FS_Interval
  <2>4. (IF x > y THEN 0 ELSE y - x + 1) = s
    BY <2>1, <2>2
  <2>. QED BY <1>3, <2>1, <2>2, <2>3, <2>4
<1>5. Bytes({k}) = {k} \X I
  <2>1. k.lo .. (k.hi - 1) = I
    BY <1>1, <1>2, <1>3
  <2>. QED BY <2>1, Zenon DEF Bytes
<1>6. IsFiniteSet({k}) /\ Cardinality({k}) = 1
  BY FS_Singleton, Zenon
<1>7. IsFiniteSet({k} \X I) /\ Cardinality({k} \X I) = Cardinality({k}) * Cardinality(I)
  BY <1>4, <1>6, FS_Product
<1>8. Cardinality({k} \X I) = s
  BY <1>4, <1>6, <1>7
<1>. QED
  BY <1>2, <1>5, <1>7, <1>8, Zenon DEF BytesOf

\* The bytes of two sets of keys.
LEMMA BytesApart ==
  ASSUME NEW S, NEW T, S \cap T = {}
  PROVE  Bytes(S) \cap Bytes(T) = {} /\ Bytes(S \cup T) = Bytes(S) \cup Bytes(T)
<1>1. Bytes(S \cup T) = Bytes(S) \cup Bytes(T)
  BY DEF Bytes
<1>2. ASSUME NEW x \in Bytes(S), x \in Bytes(T) PROVE FALSE
  <2>1. PICK k \in S : x \in {k} \X (k.lo .. (k.hi - 1))
    BY DEF Bytes
  <2>2. PICK l \in T : x \in {l} \X (l.lo .. (l.hi - 1))
    BY <1>2 DEF Bytes
  <2>3. x[1] = k /\ x[1] = l
    BY <2>1, <2>2
  <2>. QED BY <2>3
<1>. QED BY <1>1, <1>2

\* Erasing entries takes off their bytes.
LEMMA BytesErased ==
  ASSUME NEW S, IsFiniteSet(Bytes(S)), NEW T \in SUBSET S
  PROVE  /\ IsFiniteSet(Bytes(S \ T)) /\ BytesOf(S) \in Nat /\ BytesOf(T) \in Nat /\ BytesOf(S \ T) \in Nat
         /\ IsFiniteSet(Bytes(T)) /\ BytesOf(S \ T) = BytesOf(S) - BytesOf(T)
<1>1. PICK U : U = S \ T
  BY Zenon
<1>2. U \cap T = {} /\ U \cup T = S
  BY <1>1
<1>3. Bytes(U) \cap Bytes(T) = {} /\ Bytes(S) = Bytes(U) \cup Bytes(T)
  BY <1>2, BytesApart, Zenon
<1>4. IsFiniteSet(Bytes(U)) /\ IsFiniteSet(Bytes(T))
  BY <1>3, FS_Subset
<1>5. /\ Cardinality(Bytes(U)) \in Nat /\ Cardinality(Bytes(T)) \in Nat
      /\ Cardinality(Bytes(S)) = Cardinality(Bytes(U)) + Cardinality(Bytes(T))
  BY <1>3, <1>4, CountApart
<1>. QED
  BY <1>1, <1>4, <1>5 DEF BytesOf

\* A new entry adds its size.
LEMMA BytesInserted ==
  ASSUME NEW S, IsFiniteSet(Bytes(S)), NEW k \in Keys, k \notin S
  PROVE  /\ IsFiniteSet(Bytes(S \cup {k})) /\ BytesOf(S) \in Nat
         /\ BytesOf(S \cup {k}) = BytesOf(S) + Size(k)
<1>1. PICK T : T = {k}
  BY Zenon
<1>2. Bytes(S) \cap Bytes(T) = {} /\ Bytes(S \cup T) = Bytes(S) \cup Bytes(T)
  BY <1>1, BytesApart
<1>3. IsFiniteSet(Bytes(T)) /\ BytesOf(T) = Size(k)
  BY <1>1, BytesOfKey
<1>4. /\ IsFiniteSet(Bytes(S \cup T)) /\ Cardinality(Bytes(S)) \in Nat
      /\ Cardinality(Bytes(S \cup T)) = Cardinality(Bytes(S)) + Cardinality(Bytes(T))
  BY <1>2, <1>3, CountApart, Zenon
<1>. QED
  BY <1>1, <1>3, <1>4 DEF BytesOf

-----------------------------------------------------------------------------
(* The list. *)

\* Erasing entries takes their keys off the list and keeps the others in order.
LEMMA WithoutKeepsOrder ==
  ASSUME NEW list \in Seq(Keys), NEW V
  PROVE  /\ Without(list, V) \in Seq(Keys)
         /\ Listed(Without(list, V)) = Listed(list) \ V
         /\ \A R : Ordered(list, R) => Ordered(Without(list, V), R)
<1>1. PICK n \in Nat : n = Len(list)
  OBVIOUS
<1>2. PICK kept : kept = {i \in 1 .. n : list[i] \notin V}
  BY Zenon
<1>3. kept \in SUBSET (1 .. n) /\ IsFiniteSet(kept)
  BY <1>2, CountUpTo
<1>4. PICK c : c = Cardinality(kept)
  OBVIOUS
<1>. DEFINE R == {r \in kept \X kept : r[1] < r[2]}
            Rank(i) == Cardinality({h \in kept : h < i})
            Nth(j) == CHOOSE i \in kept : Rank(i) = j - 1
<1>5. /\ \A x \in kept : <<x, x>> \notin R
      /\ \A x, y, z \in kept : <<x, y>> \in R /\ <<y, z>> \in R => <<x, z>> \in R
      /\ \A x, y \in kept : x # y => <<x, y>> \in R \/ <<y, x>> \in R
  BY <1>3
<1>6. \A x \in kept : {y \in kept : <<y, x>> \in R} = {h \in kept : h < x}
  OBVIOUS
<1>7. \A x, y \in kept : <<x, y>> \in R <=> x < y
  OBVIOUS
<1>8. /\ c \in Nat
      /\ \A x \in kept : Rank(x) \in 0 .. (c - 1)
      /\ \A x, z \in kept : Rank(x) < Rank(z) <=> x < z
      /\ \A j \in 0 .. (c - 1) : \E x \in kept : Rank(x) = j
  <2>. HIDE DEF R
  <2>1. /\ Cardinality(kept) \in Nat
        /\ \A x \in kept : Cardinality({y \in kept : <<y, x>> \in R}) \in 0 .. (Cardinality(kept) - 1)
        /\ \A x, z \in kept : Cardinality({y \in kept : <<y, x>> \in R}) < Cardinality({y \in kept : <<y, z>> \in R})
                              <=> <<x, z>> \in R
        /\ \A j \in 0 .. (Cardinality(kept) - 1) :
              \E x \in kept : Cardinality({y \in kept : <<y, x>> \in R}) = j
    BY ONLY <1>3, <1>5, EveryPlaceTaken, Zenon
  <2>. QED BY <1>4, <1>6, <1>7, <2>1, Zenon
<1>. HIDE DEF R, Rank
<1>9. ASSUME NEW j \in 1 .. c PROVE Nth(j) \in kept /\ Rank(Nth(j)) = j - 1
  <2>1. j - 1 \in 0 .. (c - 1)
    BY <1>8
  <2>2. \E i \in kept : Rank(i) = j - 1
    BY <1>8, <2>1
  <2>. QED BY <2>2
<1>. HIDE DEF Nth
<1>10. PICK L : L = [j \in 1 .. c |-> list[Nth(j)]]
  BY Zenon
<1>11. Without(list, V) = L
  BY <1>1, <1>2, <1>4, <1>10 DEF Without, Nth, Rank
<1>12. L \in Seq(Keys) /\ Len(L) = c /\ \A j \in 1 .. c : L[j] = list[Nth(j)]
  <2>1. ASSUME NEW j \in 1 .. c PROVE list[Nth(j)] \in Keys
    <3>1. PICK i \in 1 .. n : i = Nth(j)
      BY <1>3, <1>9, Zenon
    <3>. QED BY <1>1, <3>1
  <2>. QED BY <1>8, <1>10, <2>1
<1>13. Listed(L) = Listed(list) \ V
  <2>1. ASSUME NEW j \in 1 .. c PROVE L[j] \in Listed(list) \ V
    BY <1>1, <1>2, <1>9, <1>12 DEF Listed
  <2>2. ASSUME NEW i \in 1 .. n, list[i] \notin V PROVE \E j \in 1 .. c : L[j] = list[i]
    <3>1. i \in kept
      BY <1>2, <2>2
    <3>2. PICK j : j = Rank(i) + 1
      OBVIOUS
    <3>3. j \in 1 .. c /\ Rank(i) = j - 1 /\ Rank(i) \in Int
      BY <1>8, <3>1, <3>2
    <3>4. Nth(j) \in kept /\ Rank(Nth(j)) = Rank(i)
      BY <1>9, <3>3
    <3>5. Nth(j) = i
      <4>1. PICK a \in kept : a = Nth(j) /\ Rank(a) = Rank(i)
        BY <3>4
      <4>2. ~(Rank(a) < Rank(i)) /\ ~(Rank(i) < Rank(a))
        BY <3>3, <4>1
      <4>3. ~(a < i) /\ ~(i < a)
        BY <1>8, <3>1, <4>2
      <4>4. a \in Nat /\ i \in Nat
        BY <1>3, <3>1
      <4>. QED BY <4>1, <4>3, <4>4
    <3>. QED BY <1>12, <3>3, <3>5
  <2>. QED BY <1>1, <1>12, <2>1, <2>2 DEF Listed
<1>14. ASSUME NEW Q, Ordered(list, Q) PROVE Ordered(L, Q)
  <2>. SUFFICES ASSUME NEW i \in 1 .. c, NEW j \in 1 .. c, i < j
                PROVE  L[i] # L[j] /\ <<L[i], L[j]>> \in Q
    BY <1>12 DEF Ordered
  <2>1. Nth(i) \in kept /\ Nth(j) \in kept /\ Rank(Nth(i)) < Rank(Nth(j))
    BY <1>9
  <2>2. Nth(i) < Nth(j)
    BY <1>8, <2>1
  <2>. QED BY <1>1, <1>3, <1>12, <1>14, <2>1, <2>2, Zenon DEF Ordered
<1>. QED
  BY <1>11, <1>12, <1>13, <1>14

\* A key put in front of a list of older keys.
LEMMA FrontOrdered ==
  ASSUME NEW list \in Seq(Keys), NEW k \in Keys, k \notin Listed(list), NEW R, Ordered(list, R),
         \A l \in Listed(list) : <<k, l>> \in R
  PROVE  /\ <<k>> \o list \in Seq(Keys) /\ Listed(<<k>> \o list) = Listed(list) \cup {k}
         /\ Ordered(<<k>> \o list, R)
<1>1. PICK n \in Nat : n = Len(list)
  OBVIOUS
<1>2. PICK L : L = <<k>> \o list
  BY Zenon
<1>3. L \in Seq(Keys) /\ Len(L) = n + 1 /\ L[1] = k /\ \A i \in 1 .. n : L[i + 1] = list[i]
  BY <1>1, <1>2
<1>4. \A i \in 2 .. (n + 1) : i - 1 \in 1 .. n /\ L[i] = list[i - 1]
  BY <1>3
<1>5. Listed(L) = Listed(list) \cup {k}
  <2>1. \A i \in 1 .. (n + 1) : L[i] \in Listed(list) \cup {k}
    BY <1>1, <1>3, <1>4 DEF Listed
  <2>2. \A i \in 1 .. n : \E j \in 1 .. (n + 1) : L[j] = list[i]
    BY <1>3
  <2>3. \E j \in 1 .. (n + 1) : L[j] = k
    BY <1>3
  <2>. QED BY <1>1, <1>3, <2>1, <2>2, <2>3 DEF Listed
<1>6. Ordered(L, R)
  <2>. SUFFICES ASSUME NEW i \in 1 .. (n + 1), NEW j \in 1 .. (n + 1), i < j
                PROVE  L[i] # L[j] /\ <<L[i], L[j]>> \in R
    BY <1>3 DEF Ordered
  <2>1. j - 1 \in 1 .. n /\ L[j] = list[j - 1] /\ list[j - 1] \in Listed(list)
    BY <1>1, <1>4 DEF Listed
  <2>2. CASE i = 1
    BY <1>3, <2>1, <2>2
  <2>3. CASE i # 1
    <3>1. i - 1 \in 1 .. n /\ L[i] = list[i - 1] /\ i - 1 < j - 1
      BY <1>4, <2>3
    <3>. QED BY <1>1, <2>1, <3>1 DEF Ordered
  <2>. QED BY <2>2, <2>3
<1>. QED BY <1>2, <1>3, <1>5, <1>6

\* A use of k makes it the newest key and leaves the order of the others.
LEMMA UseOrders ==
  ASSUME newer \subseteq Keys \X Keys, Asymmetric(newer), NEW k \in Keys, Use(k)
  PROVE  /\ newer' \subseteq Keys \X Keys /\ Asymmetric(newer)'
         /\ \A l \in Keys \ {k} : <<k, l>> \in newer'
         /\ \A a, b \in Keys : <<a, b>> \in newer /\ b # k => <<a, b>> \in newer'
<1>1. newer' = {r \in newer : r[2] # k} \cup ({k} \X (Keys \ {k}))
  BY DEF Use
<1>2. \A a, b \in Keys : <<a, b>> \in newer' <=> (<<a, b>> \in newer /\ b # k) \/ (a = k /\ b # k)
  BY <1>1
<1>3. newer' \subseteq Keys \X Keys
  BY <1>1
<1>4. Asymmetric(newer)'
  BY <1>2 DEF Asymmetric
<1>. QED BY <1>2, <1>3, <1>4

\* A used key goes to the front of a list that does not hold it.
LEMMA FrontUsed ==
  ASSUME newer \subseteq Keys \X Keys, Asymmetric(newer), NEW k \in Keys, Use(k),
         NEW list \in Seq(Keys), k \notin Listed(list), Ordered(list, newer)
  PROVE  /\ <<k>> \o list \in Seq(Keys) /\ Listed(<<k>> \o list) = Listed(list) \cup {k}
         /\ Ordered(<<k>> \o list, newer')
<1>1. PICK N : N = newer'
  OBVIOUS
<1>2. /\ \A l \in Keys \ {k} : <<k, l>> \in N
      /\ \A a, b \in Keys : <<a, b>> \in newer /\ b # k => <<a, b>> \in N
  BY <1>1, UseOrders
<1>3. \A i \in 1 .. Len(list) : list[i] \in Keys /\ list[i] \in Listed(list) /\ list[i] # k
  BY DEF Listed
<1>4. Ordered(list, N)
  BY <1>2, <1>3 DEF Ordered
<1>5. \A l \in Listed(list) : <<k, l>> \in N
  BY <1>2, <1>3 DEF Listed
<1>. QED
  BY <1>1, <1>4, <1>5, FrontOrdered

\* TouchLocked moves a resident key to the front.
LEMMA TouchedOrders ==
  ASSUME ShadowInv, NEW k \in cached, Use(k)
  PROVE  /\ Touched(lru, k) \in Seq(Keys) /\ Listed(Touched(lru, k)) = cached
         /\ Ordered(Touched(lru, k), newer')
<1>1. PICK list : list = Without(lru, {k})
  OBVIOUS
<1>2. list \in Seq(Keys) /\ Listed(list) = cached \ {k} /\ Ordered(list, newer)
  BY <1>1, WithoutKeepsOrder DEF ShadowInv
<1>3. k \in Keys /\ k \notin Listed(list)
  BY <1>2 DEF ShadowInv
<1>4. /\ <<k>> \o list \in Seq(Keys) /\ Listed(<<k>> \o list) = Listed(list) \cup {k}
      /\ Ordered(<<k>> \o list, newer')
  BY <1>2, <1>3, FrontUsed DEF ShadowInv
<1>5. Listed(list) \cup {k} = cached
  BY <1>2
<1>. QED
  BY <1>1, <1>4, <1>5, Zenon DEF Touched

-----------------------------------------------------------------------------
(* Eviction. *)

\* EvictIfNeededLocked evicts the fewest oldest entries that make room.
LEMMA VictimsMakeRoom ==
  ASSUME ShadowInv, NEW list \in Seq(Keys), Listed(list) = cached, NEW incoming \in Nat
  PROVE  /\ Capacity = 0 => Victims(list, incoming) = {}
         /\ Capacity # 0 => \E n \in 0 .. Len(list) :
              /\ Victims(list, incoming) = Oldest(list, n)
              /\ n = Len(list) \/ BytesOf(cached \ Oldest(list, n)) + incoming <= Capacity
              /\ \A m \in 0 .. (n - 1) : BytesOf(cached \ Oldest(list, m)) + incoming > Capacity
<1>1. PICK N \in Nat : N = Len(list)
  OBVIOUS
<1>. DEFINE Left(n) == BytesOf(cached \ Oldest(list, n))
<1>2. \A n \in 0 .. N : /\ Oldest(list, n) \in SUBSET cached
                        /\ Erased(Oldest(list, n) \cap cached, cachedBytes) = Left(n)
  <2>. SUFFICES ASSUME NEW n \in 0 .. N
                PROVE  /\ Oldest(list, n) \in SUBSET cached
                       /\ Erased(Oldest(list, n) \cap cached, cachedBytes) = Left(n)
    BY Zenon
  <2>1. (N - n + 1) .. N \subseteq 1 .. N
    OBVIOUS
  <2>2. PICK V : V = Oldest(list, n)
    OBVIOUS
  <2>3. V \in SUBSET cached
    BY <1>1, <2>1, <2>2 DEF Oldest, Listed
  <2>4. BytesOf(cached \ V) = BytesOf(cached) - BytesOf(V) /\ V \cap cached = V
    BY <2>3, BytesErased DEF ShadowInv
  <2>5. Erased(V, cachedBytes) = BytesOf(cached) - BytesOf(V)
    BY DEF Erased, ShadowInv
  <2>. QED BY <2>2, <2>3, <2>4, <2>5, Zenon
<1>3. \A n \in 0 .. N : Left(n) \in Nat
  <2>1. ASSUME NEW n \in 0 .. N PROVE Left(n) \in Nat
    <3>1. PICK V : V = Oldest(list, n)
      OBVIOUS
    <3>2. V \in SUBSET cached
      BY <1>2, <3>1, Zenon
    <3>. QED BY <3>1, <3>2, BytesErased, Zenon DEF ShadowInv
  <2>. QED BY <2>1
<1>4. CASE Capacity # 0
  <2>. DEFINE Enough(n) == n = N \/ Left(n) + incoming <= Capacity
  <2>. HIDE DEF Left
  <2>1. PICK S : S = {n \in 0 .. N : Enough(n)}
    BY Zenon
  <2>2. S \in SUBSET Nat /\ N \in S
    BY <2>1
  <2>3. PICK f \in S : \A x \in S : f <= x
    BY <2>2, LeastNat
  <2>4. f \in 0 .. N /\ Enough(f)
    BY <2>1, <2>3
  <2>5. \A m \in 0 .. (f - 1) : Left(m) + incoming > Capacity
    <3>. SUFFICES ASSUME NEW m \in 0 .. (f - 1) PROVE Left(m) + incoming > Capacity
      OBVIOUS
    <3>1. m \in 0 .. N /\ m < f
      BY <2>4
    <3>2. m \notin S
      BY <2>2, <2>3, <3>1
    <3>3. ~Enough(m)
      BY <2>1, <3>1, <3>2
    <3>4. Left(m) \in Nat /\ Capacity \in Nat
      BY <1>3, <3>1, CapacityAssumption
    <3>. QED BY <3>3, <3>4
  <2>6. PICK n : n = CHOOSE i \in 0 .. N : Enough(i) /\ \A m \in 0 .. (i - 1) : Left(m) + incoming > Capacity
    OBVIOUS
  <2>7. n \in 0 .. N /\ Enough(n) /\ \A m \in 0 .. (n - 1) : Left(m) + incoming > Capacity
    <3>. HIDE DEF Enough
    <3>. QED BY <2>4, <2>5, <2>6
  <2>8. Victims(list, incoming) = Oldest(list, n)
    <3>2. \A i \in 0 .. N : Erased(Oldest(list, i) \cap cached, cachedBytes) = Left(i)
      BY <1>2 DEF Left
    <3>3. \A i \in 0 .. N : (/\ i = N \/ Erased(Oldest(list, i) \cap cached, cachedBytes) + incoming <= Capacity
                             /\ \A m \in 0 .. (i - 1) :
                                  Erased(Oldest(list, m) \cap cached, cachedBytes) + incoming > Capacity)
                         <=> (Enough(i) /\ \A m \in 0 .. (i - 1) : Left(m) + incoming > Capacity)
      <4>. SUFFICES ASSUME NEW i \in 0 .. N
                    PROVE  (/\ i = N \/ Erased(Oldest(list, i) \cap cached, cachedBytes) + incoming <= Capacity
                            /\ \A m \in 0 .. (i - 1) :
                                  Erased(Oldest(list, m) \cap cached, cachedBytes) + incoming > Capacity)
                           <=> (Enough(i) /\ \A m \in 0 .. (i - 1) : Left(m) + incoming > Capacity)
        BY Zenon
      <4>1. \A m \in 0 .. (i - 1) : m \in 0 .. N
        OBVIOUS
      <4>. QED BY <3>2, <4>1, Zenon
    <3>. QED BY <1>1, <1>4, <2>6, <3>3, Zenon DEF Victims
  <2>. QED BY <1>1, <1>4, <2>7, <2>8, Zenon DEF Left
<1>5. Capacity = 0 => Victims(list, incoming) = {}
  BY DEF Victims
<1>. QED BY <1>4, <1>5, Zenon

\* An insertion that fits evicts nothing; one that is not too large makes room.
LEMMA RoomMade ==
  ASSUME ShadowInv, NEW list \in Seq(Keys), Listed(list) = cached, NEW incoming \in Nat
  PROVE  LET V == Victims(list, incoming)
         IN /\ V \in SUBSET cached
            /\ BytesOf(cached) + incoming <= Capacity => V = {}
            /\ Capacity # 0 /\ incoming <= Capacity => BytesOf(cached \ V) + incoming <= Capacity
<1>1. PICK V : V = Victims(list, incoming)
  OBVIOUS
<1>2. Capacity \in Nat /\ BytesOf(cached) \in Nat
  BY CapacityAssumption, BytesErased, Zenon DEF ShadowInv
<1>3. CASE Capacity = 0
  BY <1>3, VictimsMakeRoom
<1>4. CASE Capacity # 0
  <2>1. PICK N \in Nat : N = Len(list)
    OBVIOUS
  <2>2. PICK n \in 0 .. N :
          /\ V = Oldest(list, n)
          /\ n = N \/ BytesOf(cached \ V) + incoming <= Capacity
          /\ \A m \in 0 .. (n - 1) : BytesOf(cached \ Oldest(list, m)) + incoming > Capacity
    BY <1>1, <1>4, <2>1, VictimsMakeRoom, Zenon
  <2>3. V \in SUBSET cached
    <3>1. (N - n + 1) .. N \subseteq 1 .. N
      OBVIOUS
    <3>. QED BY <2>1, <2>2, <3>1 DEF Oldest, Listed
  <2>4. Oldest(list, 0) = {}
    <3>1. (N - 0 + 1) .. N = {}
      OBVIOUS
    <3>. QED BY <2>1, <3>1 DEF Oldest
  <2>5. BytesOf(cached) + incoming <= Capacity => V = {}
    <3>. SUFFICES ASSUME BytesOf(cached) + incoming <= Capacity PROVE V = {}
      OBVIOUS
    <3>1. cached \ Oldest(list, 0) = cached
      BY <2>4
    <3>2. ~(0 \in 0 .. (n - 1))
      <4>1. 0 \in 0 .. (n - 1) => BytesOf(cached) + incoming > Capacity
        BY <2>2, <3>1
      <4>. QED BY <1>2, <4>1
    <3>3. n = 0
      BY <2>2, <3>2
    <3>. QED BY <2>2, <2>4, <3>3
  <2>6. incoming <= Capacity => BytesOf(cached \ V) + incoming <= Capacity
    <3>1. CASE n = N
      <4>1. (N - N + 1) .. N = 1 .. N
        OBVIOUS
      <4>2. V = cached
        BY <2>1, <2>2, <3>1, <4>1 DEF Oldest, Listed
      <4>3. Bytes({}) = {}
        BY DEF Bytes
      <4>4. BytesOf({}) = 0
        BY <4>3, FS_EmptySet DEF BytesOf
      <4>5. cached \ V = {}
        BY <4>2
      <4>6. BytesOf(cached \ V) = 0
        BY <4>4, <4>5
      <4>7. incoming <= Capacity => 0 + incoming <= Capacity
        BY <1>2
      <4>. QED BY <4>6, <4>7
    <3>2. CASE n # N
      BY <2>2, <3>2
    <3>. QED BY <3>1, <3>2
  <2>. QED BY <1>1, <2>3, <2>5, <2>6
<1>. QED BY <1>3, <1>4

-----------------------------------------------------------------------------
(* The operations. *)

\* A hit keeps the invariant: it only reorders.
LEMMA HitStep ==
  ASSUME ShadowInv, NEW k \in cached, HitEntry(k), last' \in [op : Operations, key : Keys]
  PROVE  ShadowInv'
<1>1. k \in Keys /\ Use(k) /\ lru' = Touched(lru, k) /\ cached' = cached /\ cachedBytes' = cachedBytes
  BY DEF ShadowInv, HitEntry
<1>2. lru' \in Seq(Keys) /\ Listed(lru') = cached /\ Ordered(lru', newer')
  BY <1>1, TouchedOrders
<1>3. newer' \subseteq Keys \X Keys /\ Asymmetric(newer)'
  BY <1>1, UseOrders DEF ShadowInv
<1>4. Asymmetric(newer')
  BY <1>3 DEF Asymmetric
<1>. QED BY <1>1, <1>2, <1>3, <1>4 DEF ShadowInv

\* Overwriting a resident key evicts nothing.
LEMMA OverwriteStep ==
  ASSUME ShadowInv, NEW k \in Keys, Overwrite(k), last' \in [op : Operations, key : Keys]
  PROVE  ShadowInv' /\ cached' = cached
<1>1. k \in cached /\ Use(k)
  BY DEF Overwrite
<1>2. PICK list : list = Touched(lru, k)
  OBVIOUS
<1>3. list \in Seq(Keys) /\ Listed(list) = cached /\ Ordered(list, newer')
  BY <1>1, <1>2, TouchedOrders
<1>4. Victims(list, 0) = {}
  <2>1. Capacity = 0 => Victims(list, 0) = {}
    BY DEF Victims
  <2>2. Capacity # 0 => BytesOf(cached) + 0 <= Capacity
    <3>1. PICK b \in Nat : b = BytesOf(cached)
      BY BytesErased DEF ShadowInv
    <3>2. Capacity # 0 => b <= Capacity
      BY <3>1 DEF ShadowInv
    <3>. QED BY <3>1, <3>2
  <2>. QED BY <1>3, <2>1, <2>2, RoomMade, Zenon
<1>5. /\ cached' = cached \ {} /\ lru' = Without(list, {})
      /\ cachedBytes' = Erased({} \cap cached, cachedBytes)
  BY <1>2, <1>4 DEF Overwrite
<1>6. cachedBytes' = cachedBytes
  <2>1. BytesOf({}) = 0
    <3>1. Bytes({}) = {}
      BY DEF Bytes
    <3>. QED BY <3>1, FS_EmptySet DEF BytesOf
  <2>2. {} \cap cached = {} /\ cachedBytes \in Nat
    BY BytesErased, Zenon DEF ShadowInv
  <2>. QED BY <1>5, <2>1, <2>2 DEF Erased
<1>7. lru' \in Seq(Keys) /\ Listed(lru') = cached /\ Ordered(lru', newer')
  <2>1. PICK N : N = newer'
    OBVIOUS
  <2>2. /\ Without(list, {}) \in Seq(Keys) /\ Listed(Without(list, {})) = Listed(list) \ {}
        /\ Ordered(Without(list, {}), N)
    BY <1>3, <2>1, WithoutKeepsOrder, Zenon
  <2>. QED BY <1>3, <1>5, <2>1, <2>2
<1>8. newer' \subseteq Keys \X Keys /\ Asymmetric(newer)'
  BY <1>1, UseOrders DEF ShadowInv
<1>9. Asymmetric(newer')
  BY <1>8 DEF Asymmetric
<1>10. cached' = cached
  BY <1>5
<1>. QED BY <1>6, <1>7, <1>8, <1>9, <1>10 DEF ShadowInv

\* A new key that is not too large fits after the eviction.
LEMMA InsertNewStep ==
  ASSUME ShadowInv, NEW k \in Keys, InsertNew(k), ~TooLarge(k), last' \in [op : Operations, key : Keys]
  PROVE  ShadowInv'
<1>0. lru \in Seq(Keys) /\ Listed(lru) = cached /\ Size(k) \in Nat
  BY BytesOfKey, Zenon DEF ShadowInv
<1>1. PICK V : V = Victims(lru, Size(k))
  OBVIOUS
<1>2. V \in SUBSET cached /\ (Capacity # 0 => BytesOf(cached \ V) + Size(k) <= Capacity)
  <2>1. Capacity # 0 => Size(k) <= Capacity
    BY <1>0, CapacityAssumption DEF TooLarge
  <2>. QED BY <1>0, <1>1, <2>1, RoomMade, Zenon
<1>3. PICK rest : rest = Without(lru, V)
  OBVIOUS
<1>4. /\ k \notin cached /\ Use(k) /\ cached' = (cached \ V) \cup {k} /\ lru' = <<k>> \o rest
      /\ cachedBytes' = Erased(V \cap cached, cachedBytes) + Size(k)
  BY <1>1, <1>3 DEF InsertNew
<1>5. rest \in Seq(Keys) /\ Listed(rest) = cached \ V /\ Ordered(rest, newer)
  BY <1>0, <1>3, WithoutKeepsOrder DEF ShadowInv
<1>6. lru' \in Seq(Keys) /\ Listed(lru') = cached' /\ Ordered(lru', newer')
  <2>1. /\ <<k>> \o rest \in Seq(Keys) /\ Listed(<<k>> \o rest) = Listed(rest) \cup {k}
        /\ Ordered(<<k>> \o rest, newer')
    BY <1>4, <1>5, FrontUsed DEF ShadowInv
  <2>. QED BY <1>4, <1>5, <2>1
<1>7. newer' \subseteq Keys \X Keys /\ Asymmetric(newer')
  <2>1. newer' \subseteq Keys \X Keys /\ Asymmetric(newer)'
    BY <1>4, UseOrders DEF ShadowInv
  <2>. QED BY <2>1 DEF Asymmetric
<1>8. PICK S : S = cached \ V
  BY Zenon
<1>9. IsFiniteSet(Bytes(S)) /\ BytesOf(S) \in Nat /\ BytesOf(S) = BytesOf(cached) - BytesOf(V)
  BY <1>2, <1>8, BytesErased, Zenon DEF ShadowInv
<1>10. IsFiniteSet(Bytes(S \cup {k})) /\ BytesOf(S \cup {k}) = BytesOf(S) + Size(k)
  BY <1>4, <1>8, <1>9, BytesInserted
<1>11. cachedBytes' = BytesOf(S) + Size(k)
  <2>1. V \cap cached = V
    BY <1>2
  <2>. QED BY <1>4, <1>9, <2>1, Zenon DEF Erased, ShadowInv
<1>12. cached' \subseteq Keys /\ cached' = S \cup {k}
  BY <1>4, <1>8 DEF ShadowInv
<1>13. Capacity # 0 => BytesOf(cached') <= Capacity
  BY <1>2, <1>8, <1>10, <1>12
<1>. QED
  BY <1>6, <1>7, <1>10, <1>11, <1>12, <1>13 DEF ShadowInv

\* Erasing entries keeps the invariant.
LEMMA EraseStep ==
  ASSUME ShadowInv, NEW S \in SUBSET cached, EraseEntries(S), last' \in [op : Operations, key : Keys]
  PROVE  ShadowInv'
<1>1. cached' = cached \ S /\ lru' = Without(lru, S) /\ cachedBytes' = cachedBytes - BytesOf(S) /\ newer' = newer
  BY DEF EraseEntries, Erased
<1>2. lru' \in Seq(Keys) /\ Listed(lru') = cached' /\ Ordered(lru', newer)
  BY <1>1, WithoutKeepsOrder DEF ShadowInv
<1>3. /\ IsFiniteSet(Bytes(cached \ S)) /\ BytesOf(cached \ S) = BytesOf(cached) - BytesOf(S)
      /\ BytesOf(cached) \in Nat /\ BytesOf(S) \in Nat /\ BytesOf(cached \ S) \in Nat
  BY BytesErased, Zenon DEF ShadowInv
<1>4. Capacity # 0 => BytesOf(cached \ S) <= Capacity
  BY <1>3, CapacityAssumption DEF ShadowInv
<1>. QED BY <1>1, <1>2, <1>3, <1>4 DEF ShadowInv

\* The empty cache.
LEMMA EmptyCache ==
  /\ Listed(<<>>) = {} /\ \A R : Ordered(<<>>, R)
  /\ Asymmetric({}) /\ Bytes({}) = {} /\ IsFiniteSet(Bytes({})) /\ BytesOf({}) = 0
<1>1. Bytes({}) = {}
  BY DEF Bytes
<1>2. 1 .. Len(<<>>) = {}
  OBVIOUS
<1>. QED BY <1>1, <1>2, FS_EmptySet DEF Listed, Ordered, Asymmetric, BytesOf

\* The invariant holds in the empty cache.
LEMMA ShadowInit == Init => ShadowInv
<1>. SUFFICES ASSUME Init PROVE ShadowInv
  OBVIOUS
<1>1. last \in [op : Operations, key : Keys]
  BY DEF Init, Operations
<1>2. <<>> \in Seq(Keys) /\ 0 <= Capacity
  BY CapacityAssumption
<1>. QED BY <1>1, <1>2, EmptyCache DEF Init, ShadowInv

\* Every operation keeps it.
LEMMA ShadowStep == ShadowInv /\ [Next]_vars => ShadowInv'
<1>. SUFFICES ASSUME ShadowInv, [Next]_vars PROVE ShadowInv'
  OBVIOUS
<1>0. ASSUME NEW op \in Operations, NEW k \in Keys, Record(op, k)
      PROVE  last' \in [op : Operations, key : Keys]
  BY <1>0 DEF Record
<1>1. ASSUME NEW k \in Keys, TryReadCached(k) PROVE ShadowInv'
  <2>1. last' \in [op : Operations, key : Keys]
    BY <1>0, <1>1 DEF TryReadCached, Operations
  <2>2. ASSUME NEW l \in cached, HitEntry(l) PROVE ShadowInv'
    BY <2>1, <2>2, HitStep
  <2>3. CASE UNCHANGED <<cached, lru, cachedBytes, newer>>
    BY <2>1, <2>3 DEF ShadowInv
  <2>. QED BY <1>1, <2>2, <2>3 DEF TryReadCached
<1>2. ASSUME NEW k \in Keys, InsertCached(k) PROVE ShadowInv'
  <2>1. last' \in [op : Operations, key : Keys]
    BY <1>0, <1>2 DEF InsertCached, Operations
  <2>2. CASE UNCHANGED <<cached, lru, cachedBytes, newer>>
    BY <2>1, <2>2 DEF ShadowInv
  <2>3. CASE ~TooLarge(k) /\ Overwrite(k)
    BY <2>1, <2>3, OverwriteStep
  <2>4. CASE ~TooLarge(k) /\ InsertNew(k)
    BY <2>1, <2>4, InsertNewStep
  <2>. QED BY <1>2, <2>2, <2>3, <2>4 DEF InsertCached
<1>3. ASSUME NEW k \in Keys, Invalidate(k) PROVE ShadowInv'
  <2>1. last' \in [op : Operations, key : Keys]
    BY <1>0, <1>3 DEF Invalidate, Operations
  <2>2. {k} \cap cached \in SUBSET cached
    OBVIOUS
  <2>. QED BY <1>3, <2>1, <2>2, EraseStep DEF Invalidate
<1>4. ASSUME NEW k \in Keys, InvalidateRange(k) PROVE ShadowInv'
  <2>1. last' \in [op : Operations, key : Keys]
    BY <1>0, <1>4 DEF InvalidateRange, Operations
  <2>2. PICK S : S = {l \in cached : RangesOverlap(l, k)}
    BY Zenon
  <2>3. S \in SUBSET cached /\ EraseEntries(S)
    BY <1>4, <2>2 DEF InvalidateRange
  <2>. QED BY <2>1, <2>3, EraseStep
<1>5. CASE Restart
  <2>1. last' \in [op : Operations, key : Keys]
    BY <1>0, <1>5 DEF Restart, Operations
  <2>2. cached' = {} /\ lru' = <<>> /\ cachedBytes' = 0 /\ newer' = {}
    BY <1>5 DEF Restart
  <2>3. <<>> \in Seq(Keys) /\ 0 <= Capacity
    BY CapacityAssumption
  <2>. QED BY <2>1, <2>2, <2>3, EmptyCache DEF ShadowInv
<1>6. CASE UNCHANGED vars
  BY <1>6 DEF vars, ShadowInv
<1>. QED
  BY <1>1, <1>2, <1>3, <1>4, <1>5, <1>6 DEF Next

-----------------------------------------------------------------------------
(* What an insertion evicts. *)

\* An insertion evicts nothing, or the n oldest entries, for a key that is new.
LEMMA InsertEvicts ==
  ASSUME ShadowInv, NEW k \in Keys, InsertCached(k)
  PROVE  \/ cached \ cached' = {}
         \/ /\ k \notin cached
            /\ \E n \in 1 .. Len(lru) :
                 /\ cached' = (cached \ Oldest(lru, n)) \cup {k}
                 /\ BytesOf(cached \ Oldest(lru, n - 1)) + Size(k) > Capacity
<1>1. last' \in [op : Operations, key : Keys]
  BY DEF InsertCached, Record, Operations
<1>2. CASE UNCHANGED <<cached, lru, cachedBytes, newer>>
  BY <1>2
<1>3. CASE Overwrite(k)
  BY <1>1, <1>3, OverwriteStep
<1>4. CASE InsertNew(k)
  <2>0. lru \in Seq(Keys) /\ Listed(lru) = cached /\ Size(k) \in Nat
    BY BytesOfKey, Zenon DEF ShadowInv
  <2>1. PICK V : V = Victims(lru, Size(k))
    OBVIOUS
  <2>2. k \notin cached /\ cached' = (cached \ V) \cup {k}
    BY <1>4, <2>1 DEF InsertNew
  <2>3. CASE Capacity = 0
    <3>1. V = {}
      BY <2>0, <2>1, <2>3, VictimsMakeRoom
    <3>. QED BY <2>2, <3>1
  <2>4. CASE Capacity # 0
    <3>1. PICK N \in Nat : N = Len(lru)
      BY <2>0
    <3>2. PICK n \in 0 .. N :
            /\ V = Oldest(lru, n)
            /\ \A m \in 0 .. (n - 1) : BytesOf(cached \ Oldest(lru, m)) + Size(k) > Capacity
      BY <2>0, <2>1, <2>4, <3>1, VictimsMakeRoom, Zenon
    <3>3. CASE n = 0
      <4>1. (N - 0 + 1) .. N = {}
        OBVIOUS
      <4>2. V = {}
        BY <3>1, <3>2, <3>3, <4>1 DEF Oldest
      <4>. QED BY <2>2, <4>2
    <3>4. CASE n # 0
      <4>1. n \in 1 .. N /\ n - 1 \in 0 .. (n - 1)
        BY <3>4
      <4>. QED BY <2>2, <3>1, <3>2, <4>1
    <3>. QED BY <3>3, <3>4, Zenon
  <2>. QED BY <2>3, <2>4, Zenon
<1>. QED
  BY <1>2, <1>3, <1>4, Zenon DEF InsertCached

\* A step that records InsertCached is one.
LEMMA InsertRecorded ==
  ASSUME Next, last'.op = "InsertCached"
  PROVE  last'.key \in Keys /\ InsertCached(last'.key)
<1>1. \A op : \A k \in Keys : Record(op, k) => last'.op = op /\ last'.key = k
  BY DEF Record
<1>2. ASSUME NEW k \in Keys, TryReadCached(k) \/ Invalidate(k) \/ InvalidateRange(k) PROVE FALSE
  BY <1>1, <1>2 DEF TryReadCached, Invalidate, InvalidateRange
<1>3. ~Restart
  BY <1>1 DEF Restart
<1>4. PICK k \in Keys : InsertCached(k)
  BY <1>2, <1>3 DEF Next
<1>5. last'.key = k
  BY <1>1, <1>4 DEF InsertCached
<1>. QED BY <1>4, <1>5

\* The entries behind a place of the list, and the others.
LEMMA OldestOfList ==
  ASSUME ShadowInv, NEW n \in 1 .. Len(lru)
  PROVE  LET i == Len(lru) - n + 1
         IN /\ i \in 1 .. Len(lru) /\ lru[i] \in Oldest(lru, n) /\ lru[i] \notin Oldest(lru, n - 1)
            /\ Oldest(lru, n) = Oldest(lru, n - 1) \cup {lru[i]}
            /\ Oldest(lru, n) \in SUBSET cached
            /\ \A v \in Oldest(lru, n) : v # lru[i] => <<lru[i], v>> \in newer
            /\ \A v \in Oldest(lru, n), s \in cached \ Oldest(lru, n) : <<s, v>> \in newer
<1>1. PICK N \in Nat : N = Len(lru)
  BY DEF ShadowInv
<1>2. PICK i : i = N - n + 1
  OBVIOUS
<1>3. i \in 1 .. N /\ i .. N \subseteq 1 .. N /\ N - (n - 1) + 1 = i + 1 /\ i .. N = {i} \cup ((i + 1) .. N)
  BY <1>1, <1>2
<1>4. Oldest(lru, n) = {lru[j] : j \in i .. N} /\ Oldest(lru, n - 1) = {lru[j] : j \in (i + 1) .. N}
  BY <1>1, <1>2, <1>3 DEF Oldest
<1>5. cached = {lru[j] : j \in 1 .. N}
  BY <1>1 DEF ShadowInv, Listed
<1>6. \A a, b \in 1 .. N : a < b => lru[a] # lru[b] /\ <<lru[a], lru[b]>> \in newer
  BY <1>1 DEF ShadowInv, Ordered
<1>7. lru[i] \notin Oldest(lru, n - 1)
  <2>1. \A j \in (i + 1) .. N : j \in 1 .. N /\ i < j
    BY <1>3
  <2>. QED BY <1>3, <1>4, <1>6, <2>1, Zenon
<1>8. Oldest(lru, n) = Oldest(lru, n - 1) \cup {lru[i]} /\ lru[i] \in Oldest(lru, n)
  BY <1>3, <1>4
<1>9. Oldest(lru, n) \in SUBSET cached
  BY <1>3, <1>4, <1>5
<1>10. \A v \in Oldest(lru, n) : v # lru[i] => <<lru[i], v>> \in newer
  BY <1>3, <1>4, <1>6
<1>11. ASSUME NEW v \in Oldest(lru, n), NEW s \in cached \ Oldest(lru, n) PROVE <<s, v>> \in newer
  <2>1. PICK b \in i .. N : v = lru[b]
    BY <1>4
  <2>2. PICK a \in 1 .. N : s = lru[a]
    BY <1>5
  <2>3. a < i
    BY <1>3, <1>4, <2>2
  <2>4. a < b /\ b \in 1 .. N
    BY <1>3, <2>1, <2>3
  <2>. QED BY <1>6, <2>1, <2>2, <2>4
<1>. QED
  BY <1>1, <1>2, <1>3, <1>7, <1>8, <1>9, <1>10, <1>11

-----------------------------------------------------------------------------
(* The theorems. *)

\* The invariant holds in every reachable state.
LEMMA ShadowAlways == Spec => []ShadowInv
BY ShadowInit, ShadowStep, PTL DEF Spec

\* Every part of the cache has its type; the byte counter never goes below zero.
THEOREM ShadowTypes == Spec => []TypeOK
<1>1. ASSUME ShadowInv PROVE TypeOK
  BY <1>1, BytesErased, Zenon DEF ShadowInv, TypeOK
<1>. QED BY <1>1, ShadowAlways, PTL

\* For any set of keys and any capacity, after any operations: lru_ lists the
\* entries of cached_reads_, once each, in the order of their last use.
THEOREM LruAlwaysRecency == Spec => []LruIsRecency
<1>1. ShadowInv => LruIsRecency
  BY DEF ShadowInv, LruIsRecency, Listed, Ordered
<1>. QED BY <1>1, ShadowAlways, PTL

\* cached_bytes_, which every operation updates by itself, is the total size of
\* the entries.
THEOREM BytesAlwaysAccounted == Spec => []BytesAccounted
<1>1. ShadowInv => BytesAccounted
  BY DEF ShadowInv, BytesAccounted
<1>. QED BY <1>1, ShadowAlways, PTL

\* The entries never exceed cache_capacity_bytes.
THEOREM CapacityAlwaysRespected == Spec => []CapacityRespected
<1>1. ShadowInv => CapacityRespected
  BY DEF ShadowInv, CapacityRespected
<1>. QED BY <1>1, ShadowAlways, PTL

\* EvictIfNeededLocked evicts an entry only if every entry that stays was used
\* more recently.
THEOREM LeastRecentEvicted == Spec => EvictsLeastRecent
<1>1. ASSUME ShadowInv, Next, last'.op = "InsertCached",
             NEW v \in cached \ cached', NEW s \in (cached \cap cached') \ {last'.key}
      PROVE  <<s, v>> \in newer
  <2>1. PICK k \in Keys : k = last'.key /\ InsertCached(k)
    BY <1>1, InsertRecorded
  <2>2. PICK n \in 1 .. Len(lru) : cached' = (cached \ Oldest(lru, n)) \cup {k}
    BY <1>1, <2>1, InsertEvicts, Zenon
  <2>3. v \in Oldest(lru, n) /\ s \in cached \ Oldest(lru, n)
    BY <2>1, <2>2
  <2>. QED BY <1>1, <2>3, OldestOfList
<1>2. ShadowInv /\ [Next]_vars =>
        [last'.op = "InsertCached" =>
           \A v \in cached \ cached', s \in (cached \cap cached') \ {last'.key} : <<s, v>> \in newer]_vars
  BY <1>1
<1>. QED BY <1>2, ShadowAlways, PTL DEF Spec, EvictsLeastRecent

\* It evicts no entry that could have stayed.
THEOREM NoMoreEvictedThanNeeded == Spec => EvictsNoMoreThanNeeded
<1>1. ASSUME ShadowInv, Next, last'.op = "InsertCached", NEW v \in cached \ cached',
             \A u \in (cached \ cached') \ {v} : <<v, u>> \in newer
      PROVE  BytesOf(cached' \cup {v}) > Capacity
  <2>1. PICK k \in Keys : InsertCached(k)
    BY <1>1, InsertRecorded
  <2>2. k \notin cached /\ \E n \in 1 .. Len(lru) :
          /\ cached' = (cached \ Oldest(lru, n)) \cup {k}
          /\ BytesOf(cached \ Oldest(lru, n - 1)) + Size(k) > Capacity
    BY <1>1, <2>1, InsertEvicts, Zenon
  <2>3. PICK n \in 1 .. Len(lru) :
          /\ cached' = (cached \ Oldest(lru, n)) \cup {k}
          /\ BytesOf(cached \ Oldest(lru, n - 1)) + Size(k) > Capacity
    BY <2>2, Zenon
  <2>4. PICK first : first = lru[Len(lru) - n + 1]
    OBVIOUS
  <2>5. /\ first \in Oldest(lru, n) /\ first \notin Oldest(lru, n - 1)
        /\ Oldest(lru, n) = Oldest(lru, n - 1) \cup {first} /\ Oldest(lru, n) \in SUBSET cached
        /\ \A u \in Oldest(lru, n) : u # first => <<first, u>> \in newer
    BY <1>1, <2>4, OldestOfList
  <2>6. cached \ cached' = Oldest(lru, n)
    BY <2>2, <2>3, <2>5
  <2>7. v = first
    <3>. SUFFICES ASSUME v # first PROVE FALSE
      OBVIOUS
    <3>1. <<first, v>> \in newer /\ <<v, first>> \in newer /\ v \in Keys /\ first \in Keys
      BY <1>1, <2>5, <2>6 DEF ShadowInv
    <3>. QED BY <1>1, <3>1 DEF ShadowInv, Asymmetric
  <2>8. PICK S : S = cached \ Oldest(lru, n - 1)
    BY Zenon
  <2>9. cached' \cup {v} = S \cup {k} /\ k \notin S /\ S = cached \ (Oldest(lru, n - 1) \cap cached)
    BY <2>2, <2>3, <2>5, <2>7, <2>8
  <2>10. IsFiniteSet(Bytes(S))
    <3>1. Oldest(lru, n - 1) \cap cached \in SUBSET cached
      OBVIOUS
    <3>. QED BY <1>1, <2>9, <3>1, BytesErased, Zenon DEF ShadowInv
  <2>11. BytesOf(S \cup {k}) = BytesOf(S) + Size(k)
    BY <2>9, <2>10, BytesInserted
  <2>. QED BY <2>3, <2>8, <2>9, <2>11, Zenon
<1>2. ShadowInv /\ [Next]_vars =>
        [last'.op = "InsertCached" =>
           \A v \in cached \ cached' :
             (\A u \in (cached \ cached') \ {v} : <<v, u>> \in newer) => BytesOf(cached' \cup {v}) > Capacity]_vars
  BY <1>1
<1>. QED BY <1>2, ShadowAlways, PTL DEF Spec, EvictsNoMoreThanNeeded
=============================================================================
