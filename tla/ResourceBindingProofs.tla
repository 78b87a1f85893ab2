----------------------- MODULE ResourceBindingProofs ------------------------
(***************************************************************************)
(* Proofs about ResourceBinding for any keys and values and queries of any *)
(* length.  Before is a strict total order on the positions of a query, so *)
(* that Rank numbers them from 1 on without a gap; everything else follows *)
(* from that.                                                              *)
(***************************************************************************)
EXTENDS ResourceBinding, FiniteSetTheorems, SequenceTheorems, TLAPS

Query == Seq(Pair)

LEMMA PairType ==
  ASSUME NEW q \in Query, NEW i \in DOMAIN q
  PROVE  q[i] \in Pair /\ q[i].key \in Key /\ q[i].key \in Int /\ i \in Int
<1>1. DOMAIN q = 1..Len(q) /\ Len(q) \in Nat
  BY DEF Query
<1>2. q[i] \in Pair
  BY <1>1 DEF Query
<1>3. q[i].key \in Key
  BY <1>2 DEF Pair
<1>4. q[i].key \in Int
  BY <1>3, BindingAssumption
<1>5. i \in Int
  BY <1>1
<1> QED
  BY <1>2, <1>3, <1>4, <1>5

LEMMA BeforeOrders ==
  ASSUME NEW q \in Query
  PROVE  /\ \A i \in DOMAIN q : ~Before(q, i, i)
         /\ \A i, j \in DOMAIN q : Before(q, i, j) \/ Before(q, j, i) \/ i = j
         /\ \A i, j, k \in DOMAIN q : Before(q, i, j) /\ Before(q, j, k) => Before(q, i, k)
<1> USE PairType
<1>1. \A i \in DOMAIN q : ~Before(q, i, i)
  BY DEF Before
<1>2. \A i, j \in DOMAIN q : Before(q, i, j) \/ Before(q, j, i) \/ i = j
  BY DEF Before
<1>3. ASSUME NEW i \in DOMAIN q, NEW j \in DOMAIN q, NEW k \in DOMAIN q,
             Before(q, i, j), Before(q, j, k)
      PROVE  Before(q, i, k)
  BY <1>3 DEF Before
<1> QED
  BY <1>1, <1>2, <1>3

Below(q, i) == {j \in DOMAIN q : Before(q, j, i)}

LEMMA BelowFinite ==
  ASSUME NEW q \in Query, NEW S, S \subseteq DOMAIN q
  PROVE  IsFiniteSet(S) /\ Cardinality(S) \in Nat /\ Cardinality(S) <= Len(q)
<1>1. DOMAIN q = 1..Len(q) /\ Len(q) \in Nat
  BY DEF Query
<1>2. IsFiniteSet(1..Len(q)) /\ Cardinality(1..Len(q)) = Len(q)
  <2>1. Len(q) \in Int /\ 1 \in Int
    BY <1>1
  <2>2. /\ IsFiniteSet(1..Len(q))
        /\ Cardinality(1..Len(q)) = IF 1 > Len(q) THEN 0 ELSE Len(q) - 1 + 1
    BY <2>1, FS_Interval
  <2> QED
    BY <1>1, <2>2
<1>3. S \in SUBSET (1..Len(q))
  BY <1>1
<1> QED
  BY <1>2, <1>3, FS_Subset, FS_CardinalityType

(* What comes earlier has the smaller rank, ...                            *)
LEMMA RankMonotone ==
  ASSUME NEW q \in Query, NEW i \in DOMAIN q, NEW j \in DOMAIN q, Before(q, i, j)
  PROVE  Rank(q, i) < Rank(q, j)
<1>1. Below(q, i) \subseteq Below(q, j)
  BY BeforeOrders DEF Below
<1>2. i \in Below(q, j) /\ i \notin Below(q, i)
  BY BeforeOrders DEF Below
<1>3. Below(q, j) \subseteq DOMAIN q /\ Below(q, i) \subseteq DOMAIN q
  BY DEF Below
<1>4. /\ IsFiniteSet(Below(q, j)) /\ Cardinality(Below(q, j)) \in Nat
      /\ Cardinality(Below(q, i)) \in Nat
  BY <1>3, BelowFinite
<1>5. /\ Cardinality(Below(q, i)) <= Cardinality(Below(q, j))
      /\ Cardinality(Below(q, i)) # Cardinality(Below(q, j))
  BY <1>1, <1>2, <1>4, FS_Subset
<1> QED
  BY <1>4, <1>5 DEF Rank, Below

(* ... the ranks are positions, ...                                        *)
LEMMA RankType ==
  ASSUME NEW q \in Query, NEW i \in DOMAIN q
  PROVE  Rank(q, i) \in DOMAIN q
<1>1. Below(q, i) \subseteq DOMAIN q \ {i}
  BY BeforeOrders DEF Below
<1>2. /\ IsFiniteSet(DOMAIN q) /\ Cardinality(DOMAIN q) \in Nat
      /\ Cardinality(DOMAIN q) <= Len(q)
  BY BelowFinite
<1>3. /\ IsFiniteSet(DOMAIN q \ {i})
      /\ Cardinality(DOMAIN q \ {i}) = Cardinality(DOMAIN q) - 1
  BY <1>2, FS_RemoveElement
<1>4. Cardinality(Below(q, i)) <= Cardinality(DOMAIN q) - 1
  BY <1>1, <1>3, FS_Subset
<1>5. Cardinality(Below(q, i)) \in Nat
  BY <1>1, BelowFinite
<1>6. DOMAIN q = 1..Len(q) /\ Len(q) \in Nat
  BY DEF Query
<1> QED
  BY <1>2, <1>4, <1>5, <1>6 DEF Rank, Below

(* ... no two of them are equal, so that there is a pair for every one.    *)
LEMMA RankBijective ==
  ASSUME NEW q \in Query
  PROVE  /\ \A i, j \in DOMAIN q : Rank(q, i) = Rank(q, j) => i = j
         /\ \A k \in DOMAIN q : \E i \in DOMAIN q : Rank(q, i) = k
<1> DEFINE f == [i \in DOMAIN q |-> Rank(q, i)]
<1>1. \A i, j \in DOMAIN q : Rank(q, i) = Rank(q, j) => i = j
  <2> SUFFICES ASSUME NEW i \in DOMAIN q, NEW j \in DOMAIN q, i # j
               PROVE  Rank(q, i) # Rank(q, j)
    OBVIOUS
  <2>1. Rank(q, i) \in Int /\ Rank(q, j) \in Int
    BY RankType, PairType
  <2>2. Before(q, i, j) \/ Before(q, j, i)
    BY BeforeOrders
  <2>3. Rank(q, i) < Rank(q, j) \/ Rank(q, j) < Rank(q, i)
    BY <2>2, RankMonotone
  <2> QED
    BY <2>1, <2>3
<1>2. f \in Injection(DOMAIN q, DOMAIN q)
  BY <1>1, RankType DEF Injection, IsInjective
<1>3. f \in Surjection(DOMAIN q, DOMAIN q)
  <2>1. IsFiniteSet(DOMAIN q)
    BY BelowFinite
  <2> HIDE DEF f
  <2> QED
    BY <1>2, <2>1, FS_Injection
<1>4. \A k \in DOMAIN q : \E i \in DOMAIN q : f[i] = k
  BY <1>3 DEF Surjection
<1> QED
  BY <1>1, <1>4

(* The position of the pair that comes to place k.                         *)
Place(q, k) == CHOOSE i \in DOMAIN q : Rank(q, i) = k

LEMMA PlaceInverse ==
  ASSUME NEW q \in Query
  PROVE  /\ \A k \in DOMAIN q : Place(q, k) \in DOMAIN q /\ Rank(q, Place(q, k)) = k
         /\ \A i \in DOMAIN q : Place(q, Rank(q, i)) = i
<1>1. ASSUME NEW k \in DOMAIN q
      PROVE  Place(q, k) \in DOMAIN q /\ Rank(q, Place(q, k)) = k
  BY RankBijective DEF Place
<1>2. ASSUME NEW i \in DOMAIN q PROVE Place(q, Rank(q, i)) = i
  <2>1. Rank(q, i) \in DOMAIN q
    BY RankType
  <2> QED
    BY <2>1, <1>1, RankBijective
<1> QED
  BY <1>1, <1>2

LEMMA CanonicalType ==
  ASSUME NEW q \in Query
  PROVE  /\ CanonicalQuery(q) \in Query /\ DOMAIN CanonicalQuery(q) = DOMAIN q
         /\ Len(CanonicalQuery(q)) = Len(q)
         /\ \A k \in DOMAIN q : CanonicalQuery(q)[k] = q[Place(q, k)]
<1> DEFINE c == CanonicalQuery(q)
<1>1. DOMAIN c = DOMAIN q /\ \A k \in DOMAIN q : c[k] = q[Place(q, k)]
  BY DEF CanonicalQuery, Place
<1>2. \A k \in DOMAIN q : c[k] \in Pair
  BY <1>1, PlaceInverse, PairType
<1>3. c = [k \in 1..Len(q) |-> c[k]] /\ Len(q) \in Nat /\ DOMAIN q = 1..Len(q)
  BY <1>1 DEF Query, CanonicalQuery
<1> HIDE DEF c
<1>4. c \in Query /\ Len(c) = Len(q)
  BY <1>2, <1>3 DEF Query
<1> QED
  BY <1>1, <1>4 DEF c

(* The canonical query is in order of its own.                             *)
LEMMA CanonicalSorted ==
  ASSUME NEW q \in Query
  PROVE  \A i, j \in DOMAIN q : i < j <=> Before(CanonicalQuery(q), i, j)
<1> DEFINE c == CanonicalQuery(q)
<1>1. /\ c \in Query /\ DOMAIN c = DOMAIN q
      /\ \A k \in DOMAIN q : c[k] = q[Place(q, k)]
  BY CanonicalType
<1> HIDE DEF c
<1>2. ASSUME NEW i \in DOMAIN q, NEW j \in DOMAIN q, i < j
      PROVE  Before(c, i, j)
  <2>1. /\ Place(q, i) \in DOMAIN q /\ Place(q, j) \in DOMAIN q
        /\ Rank(q, Place(q, i)) = i /\ Rank(q, Place(q, j)) = j
    BY PlaceInverse
  <2>2. i \in Int /\ j \in Int
    BY PairType
  <2>3. ~(j < i) /\ i # j
    BY <1>2, <2>2
  <2>4. Before(q, Place(q, i), Place(q, j))
    BY <2>1, <2>3, BeforeOrders, RankMonotone
  <2>5. \/ q[Place(q, i)].key < q[Place(q, j)].key
        \/ q[Place(q, i)].key = q[Place(q, j)].key
    BY <2>4 DEF Before
  <2> QED
    BY <1>1, <1>2, <2>5 DEF Before
<1>3. ASSUME NEW i \in DOMAIN q, NEW j \in DOMAIN q, Before(c, i, j)
      PROVE  i < j
  <2>1. i \in Int /\ j \in Int
    BY PairType
  <2>2. i # j /\ ~Before(c, j, i)
    BY <1>1, <1>3, BeforeOrders
  <2>3. ~(j < i)
    BY <1>2, <2>2
  <2> QED
    BY <2>1, <2>2, <2>3
<1> QED
  BY <1>2, <1>3 DEF c

(* A query in order is its own canonical form.                             *)
LEMMA SortedIsCanonical ==
  ASSUME NEW c \in Query, \A i, j \in DOMAIN c : i < j <=> Before(c, i, j)
  PROVE  CanonicalQuery(c) = c
<1>0. DOMAIN c = 1..Len(c) /\ Len(c) \in Nat
  BY DEF Query
<1>1. ASSUME NEW i \in DOMAIN c PROVE Rank(c, i) = i
  <2>1. i \in Nat /\ i >= 1 /\ i <= Len(c)
    BY <1>0
  <2>2. Below(c, i) = {j \in DOMAIN c : j < i}
    BY DEF Below
  <2>3. {j \in DOMAIN c : j < i} = 1..(i - 1)
    BY <1>0, <2>1
  <2>4. Cardinality(1..(i - 1)) = i - 1
    <3>1. i - 1 \in Int /\ 1 \in Int
      BY <2>1
    <3>2. Cardinality(1..(i - 1)) = IF 1 > i - 1 THEN 0 ELSE (i - 1) - 1 + 1
      BY <3>1, FS_Interval
    <3> QED
      BY <2>1, <3>2
  <2>5. Rank(c, i) = 1 + Cardinality(Below(c, i))
    BY DEF Rank, Below
  <2>6. Below(c, i) = 1..(i - 1)
    BY <2>2, <2>3
  <2> QED
    BY <2>1, <2>4, <2>5, <2>6
<1>2. \A k \in DOMAIN c : Place(c, k) = k
  BY <1>1, PlaceInverse
<1>3. CanonicalQuery(c) = [k \in DOMAIN c |-> c[Place(c, k)]]
  BY DEF CanonicalQuery, Place
<1> QED
  BY <1>2, <1>3 DEF Query

(* As many pairs of every kind come out as went in.                        *)
LEMMA NothingLost ==
  ASSUME NEW q \in Query, NEW p
  PROVE  Cardinality({k \in DOMAIN q : CanonicalQuery(q)[k] = p})
           = Cardinality({i \in DOMAIN q : q[i] = p})
<1> DEFINE S == {k \in DOMAIN q : CanonicalQuery(q)[k] = p}
           T == {i \in DOMAIN q : q[i] = p}
           f == [k \in S |-> Place(q, k)]
<1>1. \A k \in DOMAIN q : CanonicalQuery(q)[k] = q[Place(q, k)]
  BY CanonicalType
<1>2. f \in [S -> T]
  BY <1>1, PlaceInverse
<1>3. \A k, l \in S : f[k] = f[l] => k = l
  BY PlaceInverse
<1>4. \A i \in T : \E k \in S : f[k] = i
  <2> SUFFICES ASSUME NEW i \in T PROVE Rank(q, i) \in S /\ Place(q, Rank(q, i)) = i
    OBVIOUS
  <2>1. Rank(q, i) \in DOMAIN q /\ Place(q, Rank(q, i)) = i
    BY RankType, PlaceInverse
  <2> QED
    BY <2>1, <1>1
<1>5. IsFiniteSet(S)
  BY BelowFinite
<1> HIDE DEF f, S, T
<1>6. DOMAIN f = S
  BY <1>2
<1>7. f \in Bijection(S, T)
  BY <1>2, <1>3, <1>4, <1>6 DEF Bijection, Injection, Surjection, IsInjective
<1> QED
  BY <1>5, <1>7, FS_Bijection DEF ExistsBijection, S, T
-----------------------------------------------------------------------------
TypeInv == query \in Query

(* Dropping and moving pairs leave a query a query.                        *)
LEMMA NextType ==
  ASSUME TypeInv, [Next]_query
  PROVE  TypeInv'
<1> USE DEF TypeInv
<1>0. Len(query) \in Nat /\ DOMAIN query = 1..Len(query) /\ 1 \in Int
  BY DEF Query
<1>1. ASSUME NEW s \in Query, NEW i \in Int, NEW j \in Int, i >= 1, j <= Len(s)
      PROVE  SubSeq(s, i, j) \in Query
  <2>1. s \in Seq(Pair) /\ Len(s) \in Nat
    BY DEF Query
  <2>2. \A x \in i..j : x \in 1..Len(s)
    BY <1>1, <2>1
  <2>3. \A x \in i..j : s[x] \in Pair
    BY <2>1, <2>2
  <2> QED
    BY <1>1, <2>1, <2>2, <2>3, SMTT(20) DEF Query
<1>2. ASSUME NEW i \in DOMAIN query
      PROVE  /\ RemoveAt(query, i) \in Query
             /\ Len(RemoveAt(query, i)) = Len(query) - 1
  <2>1. i \in Int /\ i >= 1 /\ i <= Len(query) /\ i - 1 \in Int /\ i + 1 \in Int
    BY <1>0
  <2> QED
    BY <1>0, <1>1, <2>1, SMTT(20) DEF RemoveAt, Query
<1>3. ASSUME NEW i \in DOMAIN query, NEW j \in DOMAIN query
      PROVE  InsertAt(RemoveAt(query, i), j, query[i]) \in Query
  <2> DEFINE s == RemoveAt(query, i)
  <2>1. s \in Query /\ Len(s) = Len(query) - 1
    BY <1>2
  <2> HIDE DEF s
  <2>2. j \in Int /\ j >= 1 /\ j - 1 <= Len(s) /\ j - 1 \in Int /\ Len(s) \in Int
    BY <1>0, <2>1
  <2>3. SubSeq(s, 1, j - 1) \in Query /\ SubSeq(s, j, Len(s)) \in Query
    BY <1>0, <1>1, <2>1, <2>2
  <2>4. query[i] \in Pair
    BY PairType
  <2> QED
    BY <2>3, <2>4 DEF InsertAt, Query, s
<1>4. CASE \E p \in Pair : Add(p)
  BY <1>4 DEF Add, Query
<1>5. CASE \E i \in DOMAIN query : Drop(i)
  BY <1>5, <1>2 DEF Drop
<1>6. CASE \E i, j \in DOMAIN query : Move(i, j)
  BY <1>6, <1>3 DEF Move
<1> QED
  BY <1>4, <1>5, <1>6 DEF Next

LEMMA TypeInvariance == Spec => []TypeInv
<1>1. Init => TypeInv
  BY DEF Init, Query, TypeInv
<1> QED
  BY <1>1, NextType, PTL DEF Spec

(* Whoever canonicalises twice, the client and the server, gets what both  *)
(* would get at once; no pair of the request is lost or invented.          *)
THEOREM CanonicalStaysOnce == Spec => []CanonicalOnce
<1>1. ASSUME TypeInv PROVE CanonicalOnce
  <2> USE DEF TypeInv
  <2> DEFINE c == CanonicalQuery(query)
  <2>1. c \in Query /\ DOMAIN c = DOMAIN query
    BY <1>1, CanonicalType
  <2>2. CanonicalQuery(c) = c
    BY <1>1, <2>1, CanonicalSorted, SortedIsCanonical
  <2>3. \A p : Cardinality({k \in DOMAIN c : c[k] = p})
                 = Cardinality({i \in DOMAIN query : query[i] = p})
    BY <1>1, <2>1, NothingLost
  <2> QED
    BY <2>2, <2>3 DEF CanonicalOnce
<1> QED
  BY <1>1, TypeInvariance, PTL
-----------------------------------------------------------------------------
(* Numbers.  A set of naturals has a least one: what induction over the    *)
(* naturals is done with below, by the least counterexample.               *)
LEMMA LeastNumber ==
  ASSUME NEW S, S \subseteq Nat, S # {}
  PROVE  \E m \in S : \A k \in S : m <= k
<1> DEFINE Less == OpToRel(<, Nat)
<1>1. \A p \in Nat \X Nat : p[1] < p[2] => p \in Less
  BY DEF OpToRel
<1>2. \E m \in S : \A k \in S : ~(<<k, m>> \in Less)
  BY WFMin, NatLessThanWellFounded, Zenon
<1> HIDE DEF Less
<1> PICK m \in S : \A k \in S : ~(<<k, m>> \in Less)
  BY <1>2
<1>3. \A k \in S : k \in Nat /\ m \in Nat /\ ~(k < m)
  BY <1>1
<1> QED
  BY <1>3

(* Max of the community modules, over a part of an initial segment.        *)
LEMMA GreatestIndex ==
  ASSUME NEW k \in Nat, NEW s, s \subseteq 1..k, s # {}
  PROVE  Max(s) \in s /\ \A i \in s : i <= Max(s)
<1> DEFINE Bounds == {m \in Nat : \A i \in s : i <= m}
<1>0. \A i \in s : i \in 1..k
  OBVIOUS
<1>1. k \in Bounds /\ Bounds \subseteq Nat
  OBVIOUS
<1> PICK m \in Bounds : \A b \in Bounds : m <= b
  BY <1>1, LeastNumber
<1>2. m \in s
  <2> SUFFICES ASSUME m \notin s PROVE FALSE
    OBVIOUS
  <2>1. \A i \in s : 1 <= i /\ i <= m /\ i # m
    BY <1>0
  <2> PICK i \in s : TRUE
    OBVIOUS
  <2>2. m - 1 \in Nat
    BY <1>0, <2>1
  <2>3. \A j \in s : j <= m - 1
    BY <1>0, <2>1
  <2>4. m - 1 \in Bounds
    BY <2>2, <2>3
  <2> QED
    BY <2>2, <2>4
<1>3. \A i \in s : m >= i
  BY <1>0
<1>4. \E x \in s : \A y \in s : x >= y
  BY <1>2, <1>3
<1>5. Max(s) \in s /\ \A y \in s : Max(s) >= y
  BY <1>4, Zenon DEF Max
<1> QED
  BY <1>0, <1>5

-----------------------------------------------------------------------------
(* Values as the fold it is, over the positions of the query, the last     *)
(* first to be taken off.                                                  *)
Kept(vs, p, k) == IF p.key = k THEN Append(vs, p) ELSE vs

Rest(s) == s \ {Max(s)}

KeptStep(F, q, k, S) ==
  [s \in SUBSET S |-> IF s = {} THEN <<>> ELSE Kept(F[Rest(s)], q[Max(s)], k)]

KeptOf(q, k) == CHOOSE F : F = KeptStep(F, q, k, DOMAIN q)

LEMMA ValuesIsFold ==
  ASSUME NEW q, NEW k
  PROVE  Values(q, k) = KeptOf(q, k)[DOMAIN q]
BY DEF Values, KeptOf, KeptStep, Kept, Rest, FoldLeft, MapThenFoldSet

LEMMA RestIsSmaller ==
  ASSUME NEW n \in Nat, NEW s, s \subseteq 1..n, s # {}
  PROVE  n # 0 /\ Rest(s) \subseteq 1..(n - 1) /\ Max(s) \in 1..n
<1>1. Max(s) \in s /\ \A i \in s : i <= Max(s)
  BY GreatestIndex
<1>2. \A i \in s : i \in 1..n
  OBVIOUS
<1>3. \A i \in Rest(s) : i \in 1..(n - 1)
  <2> TAKE i \in Rest(s)
  <2>1. i \in 1..n /\ i <= Max(s) /\ i # Max(s) /\ Max(s) \in 1..n
    BY <1>1, <1>2 DEF Rest
  <2> QED
    BY <2>1
<1>4. Max(s) \in 1..n
  BY <1>1, <1>2
<1>5. n # 0
  BY <1>4
<1> QED
  BY <1>3, <1>4, <1>5

LEMMA InitialSegment ==
  ASSUME NEW m \in Nat, m # 0
  PROVE  Max(1..m) = m /\ Rest(1..m) = 1..(m - 1) /\ 1..m # {}
<1>1. m \in 1..m
  OBVIOUS
<1>2. 1..m # {}
  BY <1>1
<1>3. Max(1..m) \in 1..m /\ \A i \in 1..m : i <= Max(1..m)
  BY <1>2, GreatestIndex
<1>4. m <= Max(1..m)
  BY <1>1, <1>3
<1> HIDE DEF Max
<1>5. Max(1..m) = m
  BY <1>3, <1>4
<1>6. Rest(1..m) = 1..(m - 1)
  BY <1>5 DEF Rest
<1> QED
  BY <1>2, <1>5, <1>6

(* The fold is defined for the subsets of 1..m, one m after the other.     *)
LEMMA KeptDefined ==
  ASSUME NEW q, NEW k, NEW n \in Nat, DOMAIN q = 1..n
  PROVE  KeptOf(q, k) = KeptStep(KeptOf(q, k), q, k, 1..n)
<1>1. \A m \in 0..n : \E F : F = KeptStep(F, q, k, 1..m)
  <2> DEFINE Bad == {m \in 0..n : ~\E F : F = KeptStep(F, q, k, 1..m)}
  <2> SUFFICES ASSUME Bad # {} PROVE FALSE
    OBVIOUS
  <2>0. Bad \subseteq Nat
    OBVIOUS
  <2> PICK m \in Bad : \A j \in Bad : m <= j
    BY <2>0, LeastNumber
  <2>1. CASE m = 0
    <3> DEFINE F == [s \in SUBSET (1..m) |-> <<>>]
    <3>1. \A s \in SUBSET (1..m) : s = {}
      BY <2>1
    <3>2. F = KeptStep(F, q, k, 1..m)
      BY <3>1 DEF KeptStep
    <3> QED
      BY <3>2
  <2>2. CASE m # 0
    <3>1. m - 1 \in 0..n /\ ~(m <= m - 1) /\ m \in Nat
      BY <2>2
    <3>2. m - 1 \notin Bad
      BY <3>1
    <3> PICK F : F = KeptStep(F, q, k, 1..(m - 1))
      BY <3>1, <3>2
    <3> DEFINE G == KeptStep(F, q, k, 1..m)
    <3>3. ASSUME NEW s \in SUBSET (1..m), s # {}
          PROVE  G[Rest(s)] = F[Rest(s)]
      <4>1. Rest(s) \in SUBSET (1..(m - 1))
        BY <3>1, <3>3, RestIsSmaller
      <4>2. Rest(s) \in SUBSET (1..m)
        BY DEF Rest
      <4> QED
        BY <4>1, <4>2 DEF KeptStep
    <3>4. G = KeptStep(G, q, k, 1..m)
      BY <3>3 DEF KeptStep
    <3> QED
      BY <3>4
  <2> QED
    BY <2>1, <2>2
<1> DEFINE P(F) == F = KeptStep(F, q, k, DOMAIN q)
<1>2. \E F : P(F)
  BY <1>1
<1>3. KeptOf(q, k) = CHOOSE F : P(F)
  BY DEF KeptOf
<1> HIDE DEF P
<1>4. P(KeptOf(q, k))
  BY <1>2, <1>3, Zenon
<1> QED
  BY <1>4 DEF P
-----------------------------------------------------------------------------
(* The positions of key k up to m, and their number.                       *)
UpTo(q, k, m) == {j \in DOMAIN q : q[j].key = k /\ j <= m}

Occ(q, k, m) == Cardinality(UpTo(q, k, m))

LEMMA OccProperties ==
  ASSUME NEW q \in Query, NEW k, NEW m \in Nat, m # 0, m <= Len(q)
  PROVE  /\ Occ(q, k, 0) = 0 /\ Occ(q, k, m) \in Nat
         /\ Occ(q, k, m - 1) \in Nat
         /\ Occ(q, k, m) = IF q[m].key = k THEN Occ(q, k, m - 1) + 1 ELSE Occ(q, k, m - 1)
<1>1. DOMAIN q = 1..Len(q) /\ Len(q) \in Nat /\ m \in DOMAIN q
  BY DEF Query
<1>2. UpTo(q, k, 0) = {}
  BY <1>1 DEF UpTo
<1>3. m \notin UpTo(q, k, m - 1)
  BY <1>1 DEF UpTo
<1>4. UpTo(q, k, m) = IF q[m].key = k THEN UpTo(q, k, m - 1) \cup {m}
                      ELSE UpTo(q, k, m - 1)
  <2>1. \A j \in DOMAIN q : j <= m <=> j <= m - 1 \/ j = m
    BY <1>1
  <2> QED
    BY <1>1, <2>1 DEF UpTo
<1>5. UpTo(q, k, m - 1) \subseteq DOMAIN q /\ UpTo(q, k, m) \subseteq DOMAIN q
  BY DEF UpTo
<1>6. /\ IsFiniteSet(UpTo(q, k, m - 1)) /\ Occ(q, k, m - 1) \in Nat
      /\ Occ(q, k, m) \in Nat
  BY <1>5, BelowFinite DEF Occ
<1>7. Cardinality(UpTo(q, k, m - 1) \cup {m}) = Occ(q, k, m - 1) + 1
  BY <1>3, <1>6, FS_AddElement DEF Occ
<1> QED
  BY <1>2, <1>4, <1>6, <1>7, FS_EmptySet DEF Occ

(* Of two positions of one key the earlier has seen fewer.                 *)
LEMMA OccMonotone ==
  ASSUME NEW q \in Query, NEW k, NEW i \in Nat, NEW j \in Nat, i <= j
  PROVE  /\ Occ(q, k, i) \in Nat /\ Occ(q, k, j) \in Nat /\ Occ(q, k, i) <= Occ(q, k, j)
         /\ i < j /\ j \in DOMAIN q /\ q[j].key = k => Occ(q, k, i) < Occ(q, k, j)
<1>1. DOMAIN q = 1..Len(q) /\ Len(q) \in Nat
  BY DEF Query
<1>2. UpTo(q, k, i) \subseteq UpTo(q, k, j)
  BY <1>1 DEF UpTo
<1>3. UpTo(q, k, i) \subseteq DOMAIN q /\ UpTo(q, k, j) \subseteq DOMAIN q
  BY DEF UpTo
<1>4. /\ IsFiniteSet(UpTo(q, k, j)) /\ Occ(q, k, i) \in Nat /\ Occ(q, k, j) \in Nat
  BY <1>3, BelowFinite DEF Occ
<1>5. /\ Occ(q, k, i) <= Occ(q, k, j)
      /\ Occ(q, k, i) = Occ(q, k, j) => UpTo(q, k, i) = UpTo(q, k, j)
  BY <1>2, <1>4, FS_Subset DEF Occ
<1>6. i < j /\ j \in DOMAIN q /\ q[j].key = k => UpTo(q, k, i) # UpTo(q, k, j)
  BY DEF UpTo
<1> QED
  BY <1>4, <1>5, <1>6

(* What the fold has kept of the first m pairs: all of the key, in order.  *)
KeptUpTo(q, k, m, v) ==
  /\ v \in Query /\ Len(v) = Occ(q, k, m)
  /\ \A i \in 1..m : q[i].key = k => v[Occ(q, k, i)] = q[i]

LEMMA ValuesUpTo ==
  ASSUME NEW q \in Query, NEW k
  PROVE  KeptUpTo(q, k, Len(q), Values(q, k))
<1> DEFINE n == Len(q)
           F == KeptOf(q, k)
<1>1. DOMAIN q = 1..n /\ n \in Nat
  BY DEF Query
<1>2. F = KeptStep(F, q, k, 1..n) /\ Values(q, k) = F[1..n]
  BY <1>1, KeptDefined, ValuesIsFold
<1> HIDE DEF F, n
<1>3. \A m \in 0..n : KeptUpTo(q, k, m, F[1..m])
  <2> DEFINE Bad == {m \in 0..n : ~KeptUpTo(q, k, m, F[1..m])}
  <2> SUFFICES ASSUME Bad # {} PROVE FALSE
    OBVIOUS
  <2>0. Bad \subseteq Nat
    OBVIOUS
  <2> PICK m \in Bad : \A j \in Bad : m <= j
    BY <2>0, LeastNumber
  <2>1. m \in Nat /\ m <= n /\ 1..m \in SUBSET (1..n)
    BY <1>1
  <2>2. CASE m = 0
    <3>1. 1..m = {}
      BY <2>2
    <3>2. F[1..m] = <<>>
      BY <1>2, <2>1, <3>1 DEF KeptStep
    <3>3. UpTo(q, k, 0) = {}
      BY <1>1 DEF UpTo
    <3>4. Occ(q, k, m) = 0
      BY <2>2, <3>3, FS_EmptySet DEF Occ
    <3>5. F[1..m] \in Query /\ Len(F[1..m]) = 0
      BY <3>2 DEF Query
    <3>6. \A i \in 1..m : FALSE
      BY <3>1
    <3> QED
      BY <3>4, <3>5, <3>6 DEF KeptUpTo
  <2>3. CASE m # 0
    <3> DEFINE u == F[1..(m - 1)]
    <3>1. m - 1 \in 0..n /\ ~(m <= m - 1)
      BY <1>1, <2>1, <2>3
    <3>2. KeptUpTo(q, k, m - 1, u)
      BY <3>1
    <3>3. F[1..m] = Kept(u, q[m], k)
      <4>1. Max(1..m) = m /\ Rest(1..m) = 1..(m - 1) /\ 1..m # {}
        BY <2>1, <2>3, InitialSegment
      <4> QED
        BY <1>2, <2>1, <4>1 DEF KeptStep
    <3> HIDE DEF u
    <3>4. u \in Query /\ Len(u) = Occ(q, k, m - 1) /\ q[m] \in Pair
          /\ \A i \in 1..(m - 1) : q[i].key = k => u[Occ(q, k, i)] = q[i]
      <4>1. m \in DOMAIN q
        BY <1>1, <2>1, <2>3
      <4> QED
        BY <3>2, <4>1, PairType DEF KeptUpTo
    <3>5. /\ Occ(q, k, m - 1) \in Nat
          /\ Occ(q, k, m) = IF q[m].key = k THEN Occ(q, k, m - 1) + 1 ELSE Occ(q, k, m - 1)
      BY <2>1, <2>3, OccProperties DEF n
    <3>6. \A i \in 1..m : i # m => i \in 1..(m - 1)
      BY <2>1
    <3>7. CASE q[m].key # k
      <4>1. F[1..m] = u /\ Occ(q, k, m) = Occ(q, k, m - 1)
        BY <3>3, <3>5, <3>7 DEF Kept
      <4>2. \A i \in 1..m : q[i].key = k => u[Occ(q, k, i)] = q[i]
        BY <3>4, <3>6, <3>7
      <4> QED
        BY <3>4, <4>1, <4>2 DEF KeptUpTo
    <3>8. CASE q[m].key = k
      <4> DEFINE v == Append(u, q[m])
      <4>1. F[1..m] = v /\ Occ(q, k, m) = Occ(q, k, m - 1) + 1
        BY <3>3, <3>5, <3>8 DEF Kept
      <4>2. /\ v \in Query /\ Len(v) = Len(u) + 1 /\ v[Len(u) + 1] = q[m]
            /\ \A i \in 1..Len(u) : v[i] = u[i]
        BY <3>4, AppendProperties DEF Query
      <4> HIDE DEF v
      <4>3. ASSUME NEW i \in 1..m, q[i].key = k PROVE v[Occ(q, k, i)] = q[i]
        <5>1. CASE i = m
          BY <3>4, <4>1, <4>2, <5>1
        <5>2. CASE i # m
          <6>1. i \in 1..(m - 1) /\ i \in Nat /\ i # 0 /\ i <= m - 1 /\ m - 1 \in Nat
                /\ i <= Len(q) /\ i \in DOMAIN q
            BY <3>6, <5>2, <2>1, <1>1 DEF n
          <6>2. Occ(q, k, i) \in Nat /\ Occ(q, k, i) <= Occ(q, k, m - 1)
            BY <6>1, OccMonotone
          <6>3. Occ(q, k, i) >= 1
            BY <4>3, <6>1, OccProperties
          <6>4. Occ(q, k, i) \in 1..Len(u)
            BY <3>4, <3>5, <6>2, <6>3
          <6> QED
            BY <3>4, <4>2, <4>3, <6>1, <6>4
        <5> QED
          BY <5>1, <5>2
      <4> QED
        BY <3>4, <4>1, <4>2, <4>3 DEF KeptUpTo
    <3> QED
      BY <3>7, <3>8
  <2> QED
    BY <2>2, <2>3
<1>4. n \in 0..n
  BY <1>1
<1> QED
  BY <1>2, <1>3, <1>4 DEF n
-----------------------------------------------------------------------------
(* A pair of a query is known by its key and by how many of that key there *)
(* are up to it: by where a handler finds it in Values.                    *)
Spot(q, i) == <<q[i].key, Occ(q, q[i].key, i)>>

Spots(q) == {x \in Key \X Nat : x[2] \in 1..Len(Values(q, x[1]))}

Earlier(x, y) == x[1] < y[1] \/ (x[1] = y[1] /\ x[2] < y[2])

LEMMA SpotFound ==
  ASSUME NEW q \in Query, NEW i \in DOMAIN q
  PROVE  /\ Spot(q, i) \in Spots(q)
         /\ Values(q, q[i].key)[Occ(q, q[i].key, i)] = q[i]
<1> DEFINE k == q[i].key
<1>1. DOMAIN q = 1..Len(q) /\ Len(q) \in Nat /\ k \in Key /\ k = q[i].key
  BY PairType DEF Query
<1> HIDE DEF k
<1>2. i \in Nat /\ i # 0 /\ i <= Len(q)
  BY <1>1
<1>3. /\ Occ(q, k, i) \in Nat /\ Occ(q, k, i - 1) \in Nat
      /\ Occ(q, k, i) = Occ(q, k, i - 1) + 1
  BY <1>1, <1>2, OccProperties
<1>4. Occ(q, k, i) <= Occ(q, k, Len(q))
  BY <1>1, <1>2, OccMonotone
<1>5. /\ Len(Values(q, k)) = Occ(q, k, Len(q))
      /\ Values(q, k)[Occ(q, k, i)] = q[i]
  BY <1>1, ValuesUpTo DEF KeptUpTo
<1>6. Occ(q, k, Len(q)) \in Nat
  BY <1>1, <1>2, OccMonotone
<1>7. Occ(q, k, i) \in 1..Len(Values(q, k))
  BY <1>3, <1>4, <1>5, <1>6
<1>8. <<k, Occ(q, k, i)>> \in Spots(q)
  BY <1>1, <1>3, <1>7 DEF Spots
<1> QED
  BY <1>1, <1>5, <1>8 DEF Spot

(* The order of the canonical query is the order of the spots.             *)
LEMMA SpotOrder ==
  ASSUME NEW q \in Query, NEW i \in DOMAIN q, NEW j \in DOMAIN q
  PROVE  /\ Before(q, i, j) <=> Earlier(Spot(q, i), Spot(q, j))
         /\ Spot(q, i) = Spot(q, j) => i = j
<1>1. i \in Nat /\ j \in Nat /\ q[i].key \in Int /\ q[j].key \in Int
  BY PairType DEF Query
<1>2. ASSUME q[i].key = q[j].key
      PROVE  /\ i < j <=> Occ(q, q[i].key, i) < Occ(q, q[j].key, j)
             /\ Occ(q, q[i].key, i) = Occ(q, q[j].key, j) => i = j
  <2> DEFINE k == q[i].key
  <2>1. q[i].key = k /\ q[j].key = k
    BY <1>2
  <2> HIDE DEF k
  <2>2. i < j => Occ(q, k, i) < Occ(q, k, j)
    BY <1>1, <2>1, OccMonotone
  <2>3. j < i => Occ(q, k, j) < Occ(q, k, i)
    BY <1>1, <2>1, OccMonotone
  <2>4. Occ(q, k, i) \in Nat /\ Occ(q, k, j) \in Nat
    BY <1>1, OccMonotone
  <2>5. i < j \/ j < i \/ i = j
    BY <1>1
  <2>6. i < j <=> Occ(q, k, i) < Occ(q, k, j)
    BY <1>1, <2>2, <2>3, <2>4, <2>5
  <2>7. Occ(q, k, i) = Occ(q, k, j) => i = j
    BY <2>2, <2>3, <2>4, <2>5
  <2> QED
    BY <2>1, <2>6, <2>7
<1> QED
  BY <1>1, <1>2 DEF Before, Earlier, Spot

(* There is a pair for every spot.                                         *)
LEMMA SpotTaken ==
  ASSUME NEW q \in Query, NEW x \in Spots(q)
  PROVE  \E i \in DOMAIN q : Spot(q, i) = x
<1> DEFINE k == x[1]
           S == UpTo(q, k, Len(q))
           f == [i \in S |-> Occ(q, k, i)]
<1>1. DOMAIN q = 1..Len(q) /\ Len(q) \in Nat
  BY DEF Query
<1>2. \A i \in S : i \in DOMAIN q /\ q[i].key = k /\ i \in Nat
  BY <1>1 DEF UpTo
<1>3. x = <<k, x[2]>> /\ x[2] \in 1..Len(Values(q, k))
  BY DEF Spots
<1>4. Len(Values(q, k)) = Occ(q, k, Len(q)) /\ Occ(q, k, Len(q)) \in Nat
  BY <1>1, ValuesUpTo, OccMonotone DEF KeptUpTo
<1>5. ASSUME NEW i \in S PROVE f[i] \in 1..Len(Values(q, k)) /\ Spot(q, i) = <<k, f[i]>>
  <2>1. <<k, Occ(q, k, i)>> \in Spots(q)
    BY <1>2, SpotFound DEF Spot
  <2> QED
    BY <1>2, <2>1 DEF Spots, Spot
<1>6. \A i, j \in S : f[i] = f[j] => i = j
  <2> SUFFICES ASSUME NEW i \in S, NEW j \in S, f[i] = f[j] PROVE i = j
    OBVIOUS
  <2> HIDE DEF f
  <2>1. Spot(q, i) = Spot(q, j)
    BY <1>5
  <2> QED
    BY <1>2, <2>1, SpotOrder
<1>7. Cardinality(S) = Occ(q, k, Len(q)) /\ S \subseteq DOMAIN q
  BY DEF Occ, UpTo
<1>8. f \in [S -> 1..Len(Values(q, k))]
  BY <1>5
<1> HIDE DEF f, S, k
<1>9. f \in Injection(S, 1..Len(Values(q, k)))
  <2>1. DOMAIN f = S
    BY <1>8
  <2> QED
    BY <1>6, <1>8, <2>1 DEF Injection, IsInjective
<1>10. /\ IsFiniteSet(1..Len(Values(q, k)))
       /\ Cardinality(1..Len(Values(q, k))) = Len(Values(q, k))
  <2>1. Len(Values(q, k)) \in Nat /\ 1 \in Int /\ Len(Values(q, k)) \in Int
    BY <1>4
  <2>2. /\ IsFiniteSet(1..Len(Values(q, k)))
        /\ Cardinality(1..Len(Values(q, k)))
             = IF 1 > Len(Values(q, k)) THEN 0 ELSE Len(Values(q, k)) - 1 + 1
    BY <2>1, FS_Interval
  <2> QED
    BY <2>1, <2>2
<1>11. f \in Surjection(S, 1..Len(Values(q, k)))
  BY <1>4, <1>7, <1>9, <1>10, FS_Injection
<1>12. \E i \in S : f[i] = x[2]
  BY <1>3, <1>11 DEF Surjection
<1> QED
  BY <1>2, <1>3, <1>5, <1>12

(* A pair comes to the place of its spot among the spots.                  *)
LEMMA RankOfSpot ==
  ASSUME NEW q \in Query, NEW i \in DOMAIN q
  PROVE  Rank(q, i) = 1 + Cardinality({y \in Spots(q) : Earlier(y, Spot(q, i))})
<1> DEFINE S == Below(q, i)
           T == {y \in Spots(q) : Earlier(y, Spot(q, i))}
           f == [j \in S |-> Spot(q, j)]
<1>1. \A j \in S : j \in DOMAIN q /\ Before(q, j, i)
  BY DEF Below
<1>2. f \in [S -> T]
  BY <1>1, SpotFound, SpotOrder
<1>3. \A j, l \in S : f[j] = f[l] => j = l
  BY <1>1, SpotOrder
<1>4. \A y \in T : \E j \in S : f[j] = y
  <2> SUFFICES ASSUME NEW y \in T PROVE \E j \in S : Spot(q, j) = y
    OBVIOUS
  <2> PICK j \in DOMAIN q : Spot(q, j) = y
    BY SpotTaken
  <2>1. Before(q, j, i)
    BY SpotOrder
  <2> QED
    BY <2>1 DEF Below
<1>5. IsFiniteSet(S)
  BY <1>1, BelowFinite
<1>6. Rank(q, i) = 1 + Cardinality(S)
  BY DEF Rank, Below
<1> HIDE DEF f, S, T
<1>7. DOMAIN f = S
  BY <1>2
<1>8. f \in Bijection(S, T)
  BY <1>2, <1>3, <1>4, <1>7 DEF Bijection, Injection, Surjection, IsInjective
<1>9. Cardinality(T) = Cardinality(S)
  BY <1>5, <1>8, FS_Bijection DEF ExistsBijection
<1> QED
  BY <1>6, <1>9 DEF T

LEMMA AsManySpots ==
  ASSUME NEW q \in Query
  PROVE  IsFiniteSet(Spots(q)) /\ Cardinality(Spots(q)) = Len(q)
<1> DEFINE f == [i \in DOMAIN q |-> Spot(q, i)]
<1>1. f \in [DOMAIN q -> Spots(q)]
  BY SpotFound
<1>2. \A i, j \in DOMAIN q : f[i] = f[j] => i = j
  BY SpotOrder
<1>3. \A x \in Spots(q) : \E i \in DOMAIN q : f[i] = x
  BY SpotTaken
<1> HIDE DEF f
<1>4. DOMAIN f = DOMAIN q
  BY <1>1
<1>5. f \in Bijection(DOMAIN q, Spots(q))
  BY <1>1, <1>2, <1>3, <1>4 DEF Bijection, Injection, Surjection, IsInjective
<1>6. DOMAIN q = 1..Len(q) /\ Len(q) \in Nat
  BY DEF Query
<1>7. IsFiniteSet(DOMAIN q) /\ Cardinality(DOMAIN q) = Len(q)
  <2>1. Len(q) \in Int /\ 1 \in Int
    BY <1>6
  <2>2. /\ IsFiniteSet(1..Len(q))
        /\ Cardinality(1..Len(q)) = IF 1 > Len(q) THEN 0 ELSE Len(q) - 1 + 1
    BY <2>1, FS_Interval
  <2> QED
    BY <1>6, <2>2
<1> QED
  BY <1>5, <1>7, FS_Bijection DEF ExistsBijection

(* The values of the keys say what the canonical query is.                 *)
LEMMA ValuesGiveForm ==
  ASSUME NEW p \in Query, NEW q \in Query, \A k \in Key : Values(p, k) = Values(q, k)
  PROVE  CanonicalQuery(p) = CanonicalQuery(q)
<1>1. Spots(p) = Spots(q)
  BY DEF Spots
<1>2. Len(p) = Len(q) /\ DOMAIN p = DOMAIN q
  <2>1. Len(p) = Len(q)
    BY <1>1, AsManySpots
  <2> QED
    BY <2>1 DEF Query
<1>3. ASSUME NEW r \in DOMAIN p
      PROVE  CanonicalQuery(p)[r] = CanonicalQuery(q)[r]
  <2> DEFINE i == Place(p, r)
  <2>1. i \in DOMAIN p /\ Rank(p, i) = r /\ CanonicalQuery(p)[r] = p[i]
    BY PlaceInverse, CanonicalType
  <2> HIDE DEF i
  <2>2. Spot(p, i) \in Spots(q)
    BY <1>1, <2>1, SpotFound
  <2> PICK j \in DOMAIN q : Spot(q, j) = Spot(p, i)
    BY <2>2, SpotTaken
  <2>3. Rank(q, j) = r
    BY <1>1, <2>1, RankOfSpot
  <2>4. CanonicalQuery(q)[r] = q[j]
    BY <1>2, <2>3, PlaceInverse, CanonicalType
  <2>5. /\ q[j].key = p[i].key
        /\ Occ(q, q[j].key, j) = Occ(p, p[i].key, i)
    BY DEF Spot
  <2>6. /\ Values(q, q[j].key)[Occ(q, q[j].key, j)] = q[j]
        /\ Values(p, p[i].key)[Occ(p, p[i].key, i)] = p[i]
        /\ p[i].key \in Key
    BY <2>1, SpotFound, PairType
  <2> QED
    BY <2>1, <2>4, <2>5, <2>6
<1>4. /\ CanonicalQuery(p) = [r \in DOMAIN p |-> CanonicalQuery(p)[r]]
      /\ CanonicalQuery(q) = [r \in DOMAIN q |-> CanonicalQuery(q)[r]]
  BY DEF CanonicalQuery
<1> QED
  BY <1>2, <1>3, <1>4

(* The canonical query has the values of the query: within a key the order *)
(* is kept.                                                                *)
LEMMA OccKept ==
  ASSUME NEW q \in Query, NEW k, NEW S, S \subseteq DOMAIN q, NEW T, T \subseteq DOMAIN q,
         \A j \in DOMAIN q : j \in S <=> Rank(q, j) \in T
  PROVE  Cardinality(S) = Cardinality(T)
<1> DEFINE f == [j \in S |-> Rank(q, j)]
<1>1. f \in [S -> T]
  OBVIOUS
<1>2. \A i, j \in S : f[i] = f[j] => i = j
  BY RankBijective
<1>3. \A r \in T : \E j \in S : f[j] = r
  <2> SUFFICES ASSUME NEW r \in T PROVE \E j \in S : Rank(q, j) = r
    OBVIOUS
  <2>1. Place(q, r) \in DOMAIN q /\ Rank(q, Place(q, r)) = r
    BY PlaceInverse
  <2> QED
    BY <2>1
<1>4. IsFiniteSet(S)
  BY BelowFinite
<1> HIDE DEF f
<1>5. DOMAIN f = S
  BY <1>1
<1>6. f \in Bijection(S, T)
  BY <1>1, <1>2, <1>3, <1>5 DEF Bijection, Injection, Surjection, IsInjective
<1> QED
  BY <1>4, <1>6, FS_Bijection DEF ExistsBijection

LEMMA FormGivesValues ==
  ASSUME NEW q \in Query, NEW k \in Key
  PROVE  Values(CanonicalQuery(q), k) = Values(q, k)
<1> DEFINE c == CanonicalQuery(q)
<1>1. /\ c \in Query /\ DOMAIN c = DOMAIN q /\ Len(c) = Len(q)
      /\ \A r \in DOMAIN q : c[r] = q[Place(q, r)]
  BY CanonicalType
<1> HIDE DEF c
<1>2. DOMAIN q = 1..Len(q) /\ Len(q) \in Nat
  BY DEF Query
<1>3. \A j \in DOMAIN q : Rank(q, j) \in DOMAIN q /\ c[Rank(q, j)] = q[j]
  BY <1>1, RankType, PlaceInverse
<1>4. Occ(c, k, Len(q)) = Occ(q, k, Len(q))
  <2> DEFINE S == UpTo(q, k, Len(q))
             T == UpTo(c, k, Len(q))
  <2>1. S \subseteq DOMAIN q /\ T \subseteq DOMAIN q
    BY <1>1 DEF UpTo
  <2>2. \A j \in DOMAIN q : j \in S <=> Rank(q, j) \in T
    BY <1>1, <1>2, <1>3 DEF UpTo
  <2> QED
    BY <2>1, <2>2, OccKept DEF Occ
<1>5. ASSUME NEW i \in DOMAIN q, q[i].key = k
      PROVE  Occ(c, k, Rank(q, i)) = Occ(q, k, i)
  <2> DEFINE S == UpTo(q, k, i)
             T == UpTo(c, k, Rank(q, i))
  <2>1. S \subseteq DOMAIN q /\ T \subseteq DOMAIN q
    BY <1>1 DEF UpTo
  <2>2. ASSUME NEW j \in DOMAIN q, q[j].key = k
        PROVE  j <= i <=> Rank(q, j) <= Rank(q, i)
    <3>1. i \in Int /\ j \in Int /\ Rank(q, j) \in Int /\ Rank(q, i) \in Int
          /\ q[i].key \in Int
      BY PairType, RankType
    <3>2. i < j <=> Before(q, i, j)
      BY <1>5, <2>2, <3>1 DEF Before
    <3>3. Before(q, i, j) => Rank(q, i) < Rank(q, j)
      BY RankMonotone
    <3>4. Before(q, j, i) => Rank(q, j) < Rank(q, i)
      BY RankMonotone
    <3>5. Before(q, i, j) \/ Before(q, j, i) \/ i = j
      BY BeforeOrders
    <3> HIDE DEF Rank
    <3> QED
      BY <3>1, <3>2, <3>3, <3>4, <3>5
  <2>3. \A j \in DOMAIN q : j \in S <=> Rank(q, j) \in T
    BY <1>1, <1>3, <2>2 DEF UpTo
  <2> QED
    BY <2>1, <2>3, OccKept DEF Occ
<1>6. /\ Values(c, k) \in Query /\ Len(Values(c, k)) = Occ(c, k, Len(q))
      /\ Values(q, k) \in Query /\ Len(Values(q, k)) = Occ(q, k, Len(q))
      /\ \A r \in 1..Len(q) : c[r].key = k => Values(c, k)[Occ(c, k, r)] = c[r]
      /\ \A i \in 1..Len(q) : q[i].key = k => Values(q, k)[Occ(q, k, i)] = q[i]
  BY <1>1, ValuesUpTo DEF KeptUpTo
<1>7. ASSUME NEW o \in 1..Len(Values(q, k))
      PROVE  Values(c, k)[o] = Values(q, k)[o]
  <2>1. <<k, o>> \in Spots(q)
    <3>1. o \in Nat
      BY <1>6 DEF Query
    <3> QED
      BY <3>1 DEF Spots
  <2> PICK i \in DOMAIN q : Spot(q, i) = <<k, o>>
    BY <2>1, SpotTaken
  <2>2. q[i].key = k /\ Occ(q, k, i) = o
    BY DEF Spot
  <2>3. Values(q, k)[o] = q[i]
    BY <1>2, <1>6, <2>2
  <2>4. Rank(q, i) \in DOMAIN q /\ c[Rank(q, i)] = q[i]
    BY <1>3
  <2>5. Occ(c, k, Rank(q, i)) = o
    BY <1>5, <2>2
  <2>6. Values(c, k)[o] = c[Rank(q, i)]
    BY <1>2, <1>6, <2>2, <2>4, <2>5
  <2> QED
    BY <2>3, <2>4, <2>6
<1>8. Len(Values(c, k)) = Len(Values(q, k))
  BY <1>4, <1>6
<1> QED
  BY <1>6, <1>7, <1>8 DEF Query, c

(* Any two requests, however much their queries differ in what was added,  *)
(* dropped or moved: the hash tells them apart exactly if a handler can.   *)
THEOREM FormSaysWhatIsRead ==
  ASSUME NEW p \in Query, NEW q \in Query
  PROVE  CanonicalQuery(p) = CanonicalQuery(q) <=> \A k \in Key : Values(p, k) = Values(q, k)
BY ValuesGiveForm, FormGivesValues

(* An invoice stays good for a request that is rewritten on its way        *)
(* exactly as long as it reads the same.                                   *)
THEOREM HashBindsWhatIsRead == Spec => BindsWhatIsRead
<1> DEFINE Same == CanonicalQuery(query') = CanonicalQuery(query)
                     <=> \A k \in Key : Values(query', k) = Values(query, k)
<1>1. ASSUME TypeInv, TypeInv' PROVE Same
  <2>1. query \in Query /\ query' \in Query
    BY <1>1 DEF TypeInv
  <2> QED
    BY <2>1, FormSaysWhatIsRead
<1> QED
  BY <1>1, TypeInvariance, PTL DEF BindsWhatIsRead
=============================================================================
