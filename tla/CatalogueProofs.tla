-------------------------- MODULE CatalogueProofs ---------------------------
(***************************************************************************)
(* Theorems about Catalogue for every catalogue, injection, feed size,     *)
(* budget and similarity: the exact arm has no regret, exploration fills   *)
(* its pool, the random stream stays aligned until the enable day, and a   *)
(* feed over the graph is short only for a cause.                          *)
(***************************************************************************)
EXTENDS Catalogue, SequenceTheorems, FiniteSetTheorems, TLAPS

------------------------------------------------------------------------------
(* Orders and the best n *)

\* Every reel of a set has a rational score with a positive denominator.
Scored(S, score) ==
  \A r \in S : r \in Int /\ score[r][1] \in Int /\ score[r][2] \in Int /\ score[r][2] > 0

\* Multiplying by a positive number keeps order and equality.
LEMMA MulMono ==
  ASSUME NEW a \in Int, NEW b \in Int, NEW c \in Int, c > 0
  PROVE  (a > b <=> a * c > b * c) /\ (a = b <=> a * c = b * c)
  OBVIOUS

\* Comparing fractions by cross products is transitive.
LEMMA CrossTransitive ==
  ASSUME NEW a \in Int, NEW x \in Int, NEW b \in Int, NEW y \in Int, NEW c \in Int, NEW z \in Int,
         x > 0, y > 0, z > 0, a * y >= b * x, b * z >= c * y
  PROVE  /\ a * z >= c * x
         /\ a * z = c * x => a * y = b * x /\ b * z = c * y
<1>1. (a * y) * z >= (b * x) * z /\ (b * z) * x >= (c * y) * x
  BY MulMono
<1>2. (a * y) * z = (a * z) * y /\ (b * x) * z = (b * z) * x /\ (c * y) * x = (c * x) * y
  OBVIOUS
<1>3. (a * z) * y >= (c * x) * y
  BY <1>1, <1>2
<1>4. a * z >= c * x
  BY <1>3, MulMono
<1>5. ASSUME a * z = c * x PROVE a * y = b * x /\ b * z = c * y
  <2>1. (a * y) * z = (b * x) * z /\ (b * z) * x = (c * y) * x
    BY <1>1, <1>2, <1>5
  <2> QED
    BY <2>1, MulMono
<1> QED
  BY <1>4, <1>5

\* By score, ties by id, is a strict total order of the scored reels.
LEMMA AheadOrders ==
  ASSUME NEW S, NEW score, Scored(S, score)
  PROVE  /\ \A a \in S : ~Ahead(score, a, a)
         /\ \A a, b \in S : a # b => (Ahead(score, a, b) <=> ~Ahead(score, b, a))
         /\ \A a, b, c \in S : Ahead(score, a, b) /\ Ahead(score, b, c) => Ahead(score, a, c)
<1>1. \A a, b \in S : score[a][1] * score[b][2] \in Int
  BY DEF Scored
<1>2. \A a \in S : ~Ahead(score, a, a)
  BY <1>1 DEF Ahead, Scored
<1>3. ASSUME NEW a \in S, NEW b \in S, a # b
      PROVE  Ahead(score, a, b) <=> ~Ahead(score, b, a)
  <2>1. a \in Int /\ b \in Int /\ score[a][1] * score[b][2] \in Int /\ score[b][1] * score[a][2] \in Int
    BY <1>1 DEF Scored
  <2> QED
    BY <2>1, <1>3 DEF Ahead
<1>4. ASSUME NEW a \in S, NEW b \in S, NEW c \in S, Ahead(score, a, b), Ahead(score, b, c)
      PROVE  Ahead(score, a, c)
  <2> DEFINE p == score[a][1]  x == score[a][2]  q == score[b][1]  y == score[b][2]
             r == score[c][1]  z == score[c][2]
  <2>1. /\ p \in Int /\ q \in Int /\ r \in Int /\ x \in Int /\ y \in Int /\ z \in Int
        /\ x > 0 /\ y > 0 /\ z > 0 /\ a \in Int /\ b \in Int /\ c \in Int
    BY DEF Scored
  <2>2. /\ p * y > q * x \/ (p * y = q * x /\ a < b)
        /\ q * z > r * y \/ (q * z = r * y /\ b < c)
    BY <1>4 DEF Ahead
  <2>3. Ahead(score, a, c) <=> (p * z > r * x \/ (p * z = r * x /\ a < c))
    BY DEF Ahead
  <2> HIDE DEF p, q, r, x, y, z
  <2>6. p * y \in Int /\ q * x \in Int /\ q * z \in Int /\ r * y \in Int /\ p * z \in Int /\ r * x \in Int
    BY <2>1
  <2>4. p * y >= q * x /\ q * z >= r * y
    BY <2>2, <2>6
  <2>5. p * z >= r * x /\ (p * z = r * x => p * y = q * x /\ q * z = r * y)
    BY <2>1, <2>4, CrossTransitive
  <2>7. CASE p * z > r * x
    BY <2>7, <2>3
  <2>8. CASE p * z = r * x
    <3>1. a < b /\ b < c
      BY <2>8, <2>5, <2>2, <2>6
    <3> QED
      BY <3>1, <2>8, <2>3, <2>1
  <2> QED
    BY <2>5, <2>6, <2>7, <2>8
<1> QED
  BY <1>2, <1>3, <1>4

\* The numbers of reels ahead of each are 0, 1, 2, ...: everyone has a place of
\* its own and every place is taken.
LEMMA Ranks ==
  ASSUME NEW S, IsFiniteSet(S), NEW score, Scored(S, score)
  PROVE  /\ \A r \in S : Cardinality(Before(S, score, r)) \in 0..(Cardinality(S) - 1)
         /\ \A a, b \in S : Ahead(score, a, b)
              => Cardinality(Before(S, score, a)) < Cardinality(Before(S, score, b))
         /\ \A i \in 0..(Cardinality(S) - 1) :
              \E r \in S : Cardinality(Before(S, score, r)) = i
         /\ \A a, b \in S :
              Cardinality(Before(S, score, a)) = Cardinality(Before(S, score, b)) => a = b
<1> DEFINE n == Cardinality(S)
           B(r) == Before(S, score, r)
           rank == [r \in S |-> Cardinality(B(r))]
<1>1. n \in Nat
  BY FS_CardinalityType
<1>2. ASSUME NEW r \in S
      PROVE  IsFiniteSet(B(r)) /\ Cardinality(B(r)) \in 0..(n - 1)
  <2>1. B(r) \in SUBSET S /\ B(r) # S
    BY AheadOrders DEF Before
  <2>2. IsFiniteSet(B(r)) /\ Cardinality(B(r)) <= n /\ Cardinality(B(r)) # n
    BY <2>1, FS_Subset
  <2>3. Cardinality(B(r)) \in Nat
    BY <2>2, FS_CardinalityType
  <2> QED
    BY <1>1, <2>2, <2>3
<1>3. ASSUME NEW a \in S, NEW b \in S, Ahead(score, a, b)
      PROVE  Cardinality(B(a)) < Cardinality(B(b))
  <2>1. B(a) \in SUBSET B(b) /\ a \in B(b) /\ a \notin B(a)
    BY <1>3, AheadOrders DEF Before
  <2>2. Cardinality(B(a)) <= Cardinality(B(b)) /\ Cardinality(B(a)) # Cardinality(B(b))
    BY <2>1, <1>2, FS_Subset
  <2>3. Cardinality(B(a)) \in Int /\ Cardinality(B(b)) \in Int
    BY <1>1, <1>2
  <2> QED
    BY <2>2, <2>3
<1>8. ASSUME NEW a \in S, NEW b \in S, Cardinality(B(a)) = Cardinality(B(b)) PROVE a = b
  <2>1. Cardinality(B(a)) \in Int
    BY <1>2, <1>1
  <2>2. ~Ahead(score, a, b) /\ ~Ahead(score, b, a)
    BY <2>1, <1>8, <1>3
  <2> QED
    BY <2>2, AheadOrders
<1>4. rank \in Injection(S, 0..(n - 1))
  <2>1. rank \in [S -> 0..(n - 1)]
    BY <1>2
  <2> QED
    BY <2>1, <1>8 DEF Injection, IsInjective
<1>5. IsFiniteSet(0..(n - 1)) /\ Cardinality(0..(n - 1)) = n
  BY <1>1, FS_Interval
<1>6. rank \in Surjection(S, 0..(n - 1))
  BY <1>4, <1>5, FS_Injection
<1>7. \A i \in 0..(n - 1) : \E r \in S : Cardinality(B(r)) = i
  BY <1>6 DEF Surjection
<1> QED
  BY <1>2, <1>3, <1>7, <1>8

\* The best n of a set: how many, which, and in which order.
LEMMA TopByElements ==
  ASSUME NEW S, IsFiniteSet(S), NEW score, Scored(S, score), NEW n \in Nat
  PROVE  /\ TopBy(S, n, score) \in Seq(S)
         /\ Len(TopBy(S, n, score)) = Lower(n, Cardinality(S))
         /\ DOMAIN TopBy(S, n, score) = 1..Lower(n, Cardinality(S))
         /\ Range(TopBy(S, n, score)) = {r \in S : Cardinality(Before(S, score, r)) < n}
         /\ Cardinality(Range(TopBy(S, n, score))) = Lower(n, Cardinality(S))
         /\ \A i \in 1..Lower(n, Cardinality(S)) :
              /\ TopBy(S, n, score)[i] \in S
              /\ Cardinality(Before(S, score, TopBy(S, n, score)[i])) = i - 1
<1> DEFINE m == Lower(n, Cardinality(S))
           R(r) == Cardinality(Before(S, score, r))
           top == TopBy(S, n, score)
           winners == {r \in S : R(r) < n}
<1>1. Cardinality(S) \in Nat /\ m \in Nat /\ m <= n /\ m <= Cardinality(S)
      /\ (m = n \/ m = Cardinality(S))
  BY FS_CardinalityType DEF Lower
<1>2. \A r \in S : R(r) \in 0..(Cardinality(S) - 1)
  BY Ranks
<1>7. \A a, b \in S : R(a) = R(b) => a = b
  BY Ranks
<1> HIDE DEF m
<1>3. top = [i \in 1..m |-> CHOOSE r \in S : R(r) = i - 1]
  BY DEF TopBy, m
<1>4. ASSUME NEW i \in 1..m PROVE top[i] \in S /\ R(top[i]) = i - 1
  <2>1. i - 1 \in 0..(Cardinality(S) - 1)
    BY <1>1
  <2>2. \E r \in S : R(r) = i - 1
    BY <2>1, Ranks
  <2>3. top[i] = CHOOSE r \in S : R(r) = i - 1
    BY <1>3
  <2> HIDE DEF R, top
  <2> QED
    BY <2>2, <2>3
<1> HIDE DEF R, top
<1>5. DOMAIN top = 1..m /\ top \in [1..m -> S]
  BY <1>3, <1>4
<1>6. top \in Seq(S) /\ Len(top) = m
  BY <1>5, <1>1
<1>8. Range(top) = winners
  <2>1. ASSUME NEW i \in 1..m PROVE top[i] \in winners
    BY <1>4, <1>1
  <2>2. ASSUME NEW r \in winners PROVE r \in Range(top)
    <3>1. r \in S /\ R(r) + 1 \in 1..m
      BY <2>2, <1>1, <1>2
    <3>2. R(top[R(r) + 1]) = R(r) /\ top[R(r) + 1] \in S
      BY <3>1, <1>4, <1>2, <1>1
    <3>3. top[R(r) + 1] = r
      BY <3>1, <3>2, <1>7
    <3> QED
      BY <3>1, <3>3, <1>5 DEF Range
  <2> QED
    BY <2>1, <2>2, <1>5 DEF Range
<1>9. Cardinality(winners) = m
  <2>1. top \in Bijection(1..m, winners)
    <3>1. \A i, j \in 1..m : top[i] = top[j] => i = j
      BY <1>4, <1>1
    <3>2. top \in [1..m -> winners]
      BY <1>5, <1>8 DEF Range
    <3>3. \A w \in winners : \E i \in 1..m : top[i] = w
      BY <1>5, <1>8 DEF Range
    <3> QED
      BY <3>1, <3>2, <3>3 DEF Bijection, Injection, Surjection, IsInjective
  <2>2. ExistsBijection(1..m, winners)
    BY <2>1 DEF ExistsBijection
  <2> QED
    BY <2>2, <1>1, FS_CountingElements
<1> QED
  BY <1>4, <1>5, <1>6, <1>8, <1>9 DEF m, R, top

\* Taking the best n of a part U is the same from the whole part as from what
\* of it is among the best k of the whole, if k leaves room for what is not in it.
LEMMA FilteredTop ==
  ASSUME NEW S, IsFiniteSet(S), NEW score, Scored(S, score), NEW U \in SUBSET S,
         NEW n \in Nat, NEW k, k = Lower(n + Cardinality(S \ U), Cardinality(S))
  PROVE  LET V == Range(TopBy(S, k, score)) \cap U IN
         /\ TopBy(V, n, score) = TopBy(U, n, score)
         /\ Cardinality(V) >= Lower(n, Cardinality(U))
<1> DEFINE W == Range(TopBy(S, k, score))
           V == W \cap U
           O == S \ U
<1>1. /\ IsFiniteSet(U) /\ Cardinality(U) \in Nat
      /\ IsFiniteSet(O) /\ Cardinality(O) \in Nat /\ Cardinality(S) \in Nat /\ k \in Nat
      /\ (k = n + Cardinality(O) \/ k = Cardinality(S))
  BY FS_Subset, FS_CardinalityType DEF Lower
<1>2. /\ W = {r \in S : Cardinality(Before(S, score, r)) < k}
      /\ Cardinality(W) = Lower(k, Cardinality(S)) /\ IsFiniteSet(W)
  <2>1. /\ W = {r \in S : Cardinality(Before(S, score, r)) < k}
        /\ Cardinality(W) = Lower(k, Cardinality(S))
    BY <1>1, TopByElements
  <2>2. W \in SUBSET S
    BY <2>1
  <2> HIDE DEF W
  <2> QED
    BY <2>1, <2>2, FS_Subset
<1>3. Cardinality(W) = k
  BY <1>1, <1>2 DEF Lower
<1>4. IsFiniteSet(V) /\ Cardinality(V) \in Nat /\ Cardinality(V) <= Cardinality(U)
  BY <1>1, FS_Subset, FS_CardinalityType
<1>5. Cardinality(V) >= Lower(n, Cardinality(U))
  <2>1. CASE k = n + Cardinality(O)
    <3>1. V = W \ O
      BY <1>2
    <3>2. Cardinality(V) = k - Cardinality(W \cap O)
      BY <3>1, <1>2, <1>3, FS_Difference
    <3>3. Cardinality(W \cap O) <= Cardinality(O) /\ Cardinality(W \cap O) \in Nat
      BY <1>1, FS_Intersection, FS_CardinalityType
    <3> QED
      BY <3>2, <3>3, <2>1, <1>1, <1>4 DEF Lower
  <2>2. CASE k = Cardinality(S)
    <3>1. W = S
      BY <2>2, <1>2, <1>3, FS_Subset
    <3>2. V = U
      BY <3>1
    <3>3. Cardinality(V) = Cardinality(U)
      BY <3>2
    <3> HIDE DEF V
    <3> QED
      BY <3>3, <1>1 DEF Lower
  <2> QED
    BY <2>1, <2>2, <1>1
<1>6. \A r \in V : Before(V, score, r) = Before(U, score, r)
  <2> SUFFICES ASSUME NEW r \in V, NEW b \in U, Ahead(score, b, r) PROVE b \in V
    BY DEF Before
  <2>1. b \in S /\ r \in S /\ Cardinality(Before(S, score, r)) < k
    BY <1>2
  <2>2. /\ Cardinality(Before(S, score, b)) < Cardinality(Before(S, score, r))
        /\ Cardinality(Before(S, score, b)) \in Int /\ Cardinality(Before(S, score, r)) \in Int
    BY <2>1, <1>1, Ranks
  <2>3. Cardinality(Before(S, score, b)) < k
    BY <2>1, <2>2, <1>1
  <2> QED
    BY <2>1, <2>3, <1>2
<1> HIDE DEF W
<1>7. Scored(V, score) /\ Scored(U, score)
  BY DEF Scored
<1> HIDE DEF V
<1>8. V \subseteq U
  BY DEF V
<1> DEFINE m == Lower(n, Cardinality(U))
<1>9. Lower(n, Cardinality(V)) = m
  BY <1>1, <1>4, <1>5 DEF Lower
<1>10. ASSUME NEW i \in 1..m PROVE TopBy(V, n, score)[i] = TopBy(U, n, score)[i]
  <2>1. /\ TopBy(V, n, score)[i] \in V
        /\ Cardinality(Before(V, score, TopBy(V, n, score)[i])) = i - 1
    BY <1>4, <1>7, <1>9, TopByElements
  <2>2. /\ TopBy(U, n, score)[i] \in U
        /\ Cardinality(Before(U, score, TopBy(U, n, score)[i])) = i - 1
    BY <1>1, <1>7, TopByElements
  <2>3. Cardinality(Before(U, score, TopBy(V, n, score)[i])) = i - 1
    BY <2>1, <1>6
  <2> QED
    BY <2>1, <2>2, <2>3, <1>1, <1>7, <1>8, Ranks
<1>11. TopBy(V, n, score) = TopBy(U, n, score)
  <2>1. /\ TopBy(V, n, score) = [i \in 1..m |-> TopBy(V, n, score)[i]]
        /\ TopBy(U, n, score) = [i \in 1..m |-> TopBy(U, n, score)[i]]
    BY <1>9 DEF TopBy
  <2> QED
    BY <2>1, <1>10
<1> QED
  BY <1>5, <1>11 DEF V, W

\* A finite set as a sequence.
LEMMA ListedSet ==
  ASSUME NEW S, IsFiniteSet(S)
  PROVE  /\ SetToSeq(S) \in Seq(S) /\ Len(SetToSeq(S)) = Cardinality(S)
         /\ Range(SetToSeq(S)) = S
<1>1. Cardinality(S) \in Nat
  BY FS_CardinalityType
<1>2. \E f \in [1..Cardinality(S) -> S] : IsInjective(f)
  <2>1. PICK f : f \in Bijection(1..Cardinality(S), S)
    BY FS_CardinalityType DEF ExistsBijection
  <2>2. f \in [1..Cardinality(S) -> S]
        /\ \A i, j \in 1..Cardinality(S) : f[i] = f[j] => i = j
    BY <2>1 DEF Bijection, Injection, IsInjective
  <2> QED
    BY <2>2 DEF IsInjective
<1> DEFINE n == Cardinality(S)  f == SetToSeq(S)
<1>3. f \in [1..n -> S] /\ IsInjective(f)
  BY <1>2 DEF SetToSeq
<1>4. IsFiniteSet(1..n) /\ Cardinality(1..n) = n
  BY <1>1, FS_Interval
<1>5. f \in Injection(1..n, S)
  BY <1>3 DEF IsInjective, Injection
<1>6. f \in Surjection(1..n, S)
  BY <1>4, <1>5, FS_Injection
<1>7. \A x \in S : \E i \in 1..n : f[i] = x
  BY <1>6 DEF Surjection
<1>8. Range(f) = S
  BY <1>3, <1>7 DEF Range
<1> QED
  BY <1>1, <1>3, <1>8

------------------------------------------------------------------------------
(* Types and scores *)

ReelRecords ==
  [creator : Creators, topic : Topics, created : Int, impressions : Nat, engagement : Nat,
   trendingEngagement : Nat, trendingImpressions : Nat]

TypeOK ==
  /\ arm \in Arms /\ explore \in BOOLEAN /\ now \in Nat
  /\ reels \in Seq(ReelRecords)
  /\ seen \in [Users -> SUBSET Reels]
  /\ feed \in Seq(Reels)
  /\ draws \in Nat /\ zeroDraws \in Nat

\* The indexes are live: what is appended is found at once.
IndexLive == Vector => index = Reels /\ ground = Reels

\* An injection is refused where reels need a hidden state.
NoneInjected == arm = "oracle_satisfaction" => Reels = DOMAIN Generated

CatalogueInv == TypeOK /\ IndexLive /\ NoneInjected

\* The unit of the trending sums.
LEMMA UnitType == Unit \in Nat \ {0}
<1>1. IsFiniteSet(1..MaxNow) /\ Cardinality(1..MaxNow) = MaxNow
  BY CatalogueAssumption, FS_Interval
<1>2. IsFiniteSet(SUBSET (1..MaxNow)) /\ Cardinality(SUBSET (1..MaxNow)) = 2 ^ MaxNow
  BY <1>1, FS_SUBSET
<1>3. SUBSET (1..MaxNow) # {}
  OBVIOUS
<1> QED
  BY <1>2, <1>3, FS_CardinalityType, FS_EmptySet DEF Unit

\* The reels are 1..n.
LEMMA FiniteCatalogue ==
  ASSUME TypeOK
  PROVE  /\ Len(reels) \in Nat /\ Reels = 1..Len(reels)
         /\ IsFiniteSet(Reels) /\ Cardinality(Reels) = Len(reels)
         /\ \A r \in Reels : r \in Int /\ reels[r] \in ReelRecords
         /\ \A S \in SUBSET Reels : IsFiniteSet(S) /\ Cardinality(S) \in Nat
<1>1. Len(reels) \in Nat /\ Reels = 1..Len(reels)
  BY DEF TypeOK, Reels
<1>2. IsFiniteSet(Reels) /\ Cardinality(Reels) = Len(reels)
  BY <1>1, FS_Interval
<1>3. \A S \in SUBSET Reels : IsFiniteSet(S) /\ Cardinality(S) \in Nat
  BY <1>2, FS_Subset, FS_CardinalityType
<1>4. \A r \in Reels : r \in Int /\ reels[r] \in ReelRecords
  BY <1>1 DEF TypeOK
<1> QED
  BY <1>1, <1>2, <1>3, <1>4

\* A sum of counters is a number.
LEMMA TotalType ==
  ASSUME TypeOK, NEW count \in [Reels -> Nat]
  PROVE  Total(count) \in Nat
<1> DEFINE parts == {{r} \X (1..count[r]) : r \in Reels}
<1>1. \A r \in Reels : IsFiniteSet({r} \X (1..count[r]))
  <2> TAKE r \in Reels
  <2>0. count[r] \in Int /\ 1 \in Int
    OBVIOUS
  <2>1. IsFiniteSet({r}) /\ IsFiniteSet(1..count[r])
    BY <2>0, FS_Singleton, FS_Interval
  <2> QED
    BY <2>1, FS_Product
<1>2. \A p \in parts : IsFiniteSet(p)
  BY <1>1
<1>3. IsFiniteSet(parts)
  <2> DEFINE f == [r \in Reels |-> {r} \X (1..count[r])]
  <2>1. f \in Surjection(Reels, parts)
    BY DEF Surjection
  <2> HIDE DEF f, parts
  <2> QED
    BY <2>1, FiniteCatalogue, FS_Surjection
<1>4. IsFiniteSet(UNION parts)
  BY <1>2, <1>3, FS_UNION
<1>5. Cardinality(UNION parts) \in Nat
  BY <1>4, FS_CardinalityType
<1> QED
  BY <1>5 DEF Total

\* Similarities are scores.
LEMMA QueryScores ==
  ASSUME TypeOK, NEW q \in [Reels -> Similarities]
  PROVE  Scored(Reels, [r \in Reels |-> <<q[r], 1>>])
<1>1. \A r \in Reels : r \in Int /\ q[r] \in Int
  BY FiniteCatalogue, CatalogueAssumption
<1>2. \A r \in Reels : <<q[r], 1>>[1] = q[r] /\ <<q[r], 1>>[2] = 1
  OBVIOUS
<1> QED
  BY <1>1, <1>2 DEF Scored

\* Smoothed engagement rates are scores.
LEMMA PopularScores ==
  ASSUME TypeOK, NEW m, m = PriorMean
  PROVE  Scored(Reels, [r \in Reels |-> Smoothed(r, m)])
<1>1. Shown \in Nat /\ Total([r \in Reels |-> reels[r].engagement]) \in Nat
  <2>1. /\ [r \in Reels |-> reels[r].impressions] \in [Reels -> Nat]
        /\ [r \in Reels |-> reels[r].engagement] \in [Reels -> Nat]
    BY FiniteCatalogue DEF ReelRecords
  <2> QED
    BY <2>1, TotalType DEF Shown
<1>2. m[1] \in Nat /\ m[2] \in Nat /\ m[2] > 0
  BY <1>1 DEF PriorMean
<1>3. ASSUME NEW r \in Reels
      PROVE  Smoothed(r, m)[1] \in Int /\ Smoothed(r, m)[2] \in Int /\ Smoothed(r, m)[2] > 0
  <2>1. reels[r].engagement \in Nat /\ reels[r].impressions \in Nat /\ PseudoImpressions \in Nat
    BY FiniteCatalogue, CatalogueAssumption DEF ReelRecords
  <2>2. \A a, b, c, d \in Nat : a * b + c * d \in Int
    OBVIOUS
  <2>3. \A a, b \in Nat : a > 0 /\ b > 0 => a * b \in Int /\ a * b > 0
    OBVIOUS
  <2>4. 1 + reels[r].impressions + PseudoImpressions \in Nat
        /\ 1 + reels[r].impressions + PseudoImpressions > 0
    BY <2>1
  <2> QED
    BY <1>2, <2>1, <2>2, <2>3, <2>4 DEF Smoothed
<1> QED
  BY <1>3, FiniteCatalogue DEF Scored

\* A selection from a part of the catalogue is a feed.
LEMMA SelectedFeed ==
  ASSUME TypeOK, NEW score, Scored(Reels, score), NEW S \in SUBSET Reels, NEW n \in Nat
  PROVE  TopBy(S, n, score) \in Seq(Reels) /\ Len(TopBy(S, n, score)) = Lower(n, Cardinality(S))
<1>1. IsFiniteSet(S) /\ Scored(S, score)
  BY FiniteCatalogue DEF Scored
<1>2. TopBy(S, n, score) \in Seq(S) /\ Len(TopBy(S, n, score)) = Lower(n, Cardinality(S))
  BY <1>1, TopByElements
<1> QED
  BY <1>2

\* A set of reels in any order is a feed.
LEMMA ListedFeed ==
  ASSUME TypeOK, NEW S \in SUBSET Reels
  PROVE  /\ SetToSeq(S) \in Seq(Reels) /\ Len(SetToSeq(S)) = Cardinality(S)
         /\ Range(SetToSeq(S)) = S
<1>1. IsFiniteSet(S)
  BY FiniteCatalogue
<1>2. SetToSeq(S) \in Seq(S) /\ Len(SetToSeq(S)) = Cardinality(S) /\ Range(SetToSeq(S)) = S
  BY <1>1, ListedSet
<1> QED
  BY <1>2

\* Seen and unseen split the catalogue.
LEMMA SeenExact ==
  ASSUME TypeOK, NEW u \in Users
  PROVE  /\ seen[u] \in SUBSET Reels /\ Unseen(u) \in SUBSET Reels
         /\ Reels \ Unseen(u) = seen[u]
         /\ Cardinality(seen[u]) \in Nat /\ Cardinality(Unseen(u)) \in Nat
         /\ Cardinality(Unseen(u)) = Cardinality(Reels) - Cardinality(seen[u])
<1>1. seen[u] \in SUBSET Reels /\ Unseen(u) \in SUBSET Reels /\ Reels \ Unseen(u) = seen[u]
  BY DEF TypeOK, Unseen
<1>2. Cardinality(Reels \ seen[u]) = Cardinality(Reels) - Cardinality(Reels \cap seen[u])
  BY FiniteCatalogue, FS_Difference
<1>3. Reels \cap seen[u] = seen[u]
  BY <1>1
<1> QED
  BY <1>1, <1>2, <1>3, FiniteCatalogue DEF Unseen

\* The exact arm: one search, and the best of all that is unseen.
LEMMA ExactServed ==
  ASSUME CatalogueInv, arm = "exact_vector", NEW u \in Users, NEW q \in [Reels -> Similarities]
  PROVE  /\ Served(u, q, OverFetch(u)) = OracleFeed(u, q)
         /\ ~(Len(Served(u, q, OverFetch(u))) < FeedSize /\ OverFetch(u) < Cardinality(index))
<1> DEFINE score == [r \in Reels |-> <<q[r], 1>>]
           V == Range(TopBy(Reels, OverFetch(u), score)) \cap Unseen(u)
<1>1. TypeOK /\ index = Reels
  BY DEF CatalogueInv, IndexLive, Vector
<1>2. Scored(Reels, score)
  BY <1>1, QueryScores
<1>3. FeedSize \in Nat
  BY CatalogueAssumption
<1>4. OverFetch(u) = Lower(FeedSize + Cardinality(Reels \ Unseen(u)), Cardinality(Reels))
  BY <1>1, SeenExact DEF OverFetch
<1>5. Served(u, q, OverFetch(u)) = TopBy(V, FeedSize, score) /\ OracleFeed(u, q) = TopBy(Unseen(u), FeedSize, score)
  BY <1>1 DEF Served, OracleFeed, Nearest
<1>6. IsFiniteSet(Reels) /\ Unseen(u) \in SUBSET Reels
  BY <1>1, FiniteCatalogue, SeenExact
<1> HIDE DEF score
<1>7. TopBy(V, FeedSize, score) = TopBy(Unseen(u), FeedSize, score)
  BY <1>2, <1>3, <1>4, <1>6, FilteredTop
<1>8. Len(Served(u, q, OverFetch(u))) = Lower(FeedSize, Cardinality(Unseen(u)))
  BY <1>1, <1>2, <1>3, <1>5, <1>6, <1>7, SelectedFeed
<1>9. ASSUME OverFetch(u) < Cardinality(index)
      PROVE  ~(Lower(FeedSize, Cardinality(Unseen(u))) < FeedSize)
  <2>1. Cardinality(Unseen(u)) = Cardinality(Reels) - Cardinality(seen[u])
        /\ Cardinality(seen[u]) \in Nat /\ Cardinality(Reels) \in Nat
    BY <1>1, SeenExact, FiniteCatalogue
  <2>2. Reels \ Unseen(u) = seen[u]
    BY <1>1, SeenExact
  <2>3. OverFetch(u) = Lower(FeedSize + Cardinality(seen[u]), Cardinality(Reels))
        /\ OverFetch(u) < Cardinality(Reels)
    BY <1>1, <1>4, <1>9, <2>2
  <2>4. FeedSize + Cardinality(seen[u]) < Cardinality(Reels)
    BY <1>3, <2>1, <2>3 DEF Lower
  <2> QED
    BY <1>3, <2>1, <2>4 DEF Lower
<1> QED
  BY <1>5, <1>7, <1>8, <1>9

------------------------------------------------------------------------------
(* Exploration *)

\* The budgets of the three modes.
BudgetTypes == BudgetA \in Nat /\ BudgetB \in Nat /\ BudgetC \in Nat

\* The budgets are numbers.
LEMMA BudgetsNatural == BudgetTypes
BY CatalogueAssumption DEF BudgetTypes, BudgetA, BudgetB, BudgetC

\* What the least shown of a part of the catalogue holds.
LEMMA LeastShown ==
  ASSUME TypeOK, NEW S \in SUBSET Reels, NEW n \in Nat
  PROVE  LET unshown == {r \in S : reels[r].impressions = 0}
             least == Range(TopBy(S, n, [r \in Reels |-> <<-reels[r].impressions, 1>>]))
         IN  /\ least \in SUBSET S /\ Cardinality(least) = Lower(n, Cardinality(S))
             /\ Cardinality(unshown) >= n => least \subseteq unshown
             /\ Cardinality(unshown) < n => unshown \subseteq least
<1> DEFINE score == [r \in Reels |-> <<-reels[r].impressions, 1>>]
           unshown == {r \in S : reels[r].impressions = 0}
           least == Range(TopBy(S, n, score))
<1>1. \A r \in Reels : /\ r \in Int /\ reels[r].impressions \in Nat
                       /\ score[r][1] = -reels[r].impressions /\ score[r][2] = 1
  BY FiniteCatalogue DEF ReelRecords
<1>2. Scored(S, score)
  BY <1>1 DEF Scored
<1>3. IsFiniteSet(S) /\ Cardinality(S) \in Nat
  BY FiniteCatalogue
<1>4. \A a, b \in Reels : reels[a].impressions < reels[b].impressions => Ahead(score, a, b)
  BY <1>1 DEF Ahead
<1>5. \A a, b \in Reels : Ahead(score, a, b) => reels[a].impressions <= reels[b].impressions
  BY <1>1 DEF Ahead
<1> HIDE DEF score
<1>6. /\ least = {r \in S : Cardinality(Before(S, score, r)) < n}
      /\ Cardinality(least) = Lower(n, Cardinality(S))
  BY <1>2, <1>3, TopByElements
<1> HIDE DEF least
<1>7. \A r \in S : IsFiniteSet(Before(S, score, r)) /\ Cardinality(Before(S, score, r)) \in Nat
  <2> TAKE r \in S
  <2>1. Before(S, score, r) \in SUBSET S
    BY DEF Before
  <2> QED
    BY <2>1, <1>3, FS_Subset, FS_CardinalityType
<1>8. IsFiniteSet(unshown) /\ Cardinality(unshown) \in Nat
  BY <1>3, FS_Subset, FS_CardinalityType
<1>9. ASSUME Cardinality(unshown) >= n, NEW r \in least PROVE r \in unshown
  <2>1. r \in S /\ Cardinality(Before(S, score, r)) < n
    BY <1>6
  <2>2. ASSUME reels[r].impressions # 0 PROVE FALSE
    <3>1. \A a \in unshown : Ahead(score, a, r)
      BY <2>1, <2>2, <1>1, <1>4
    <3>2. unshown \in SUBSET Before(S, score, r)
      BY <3>1 DEF Before
    <3>3. Cardinality(unshown) <= Cardinality(Before(S, score, r))
      BY <3>2, <2>1, <1>7, FS_Subset
    <3> QED
      BY <3>3, <2>1, <1>7, <1>8, <1>9
  <2> QED
    BY <2>1, <2>2
<1>10. ASSUME Cardinality(unshown) < n, NEW r \in unshown PROVE r \in least
  <2>1. Before(S, score, r) \in SUBSET unshown
    <3> SUFFICES ASSUME NEW b \in S, Ahead(score, b, r) PROVE reels[b].impressions = 0
      BY DEF Before
    <3>1. b \in Reels /\ r \in Reels /\ reels[r].impressions = 0 /\ reels[b].impressions \in Nat
      BY <1>1
    <3> QED
      BY <3>1, <1>5
  <2>2. Cardinality(Before(S, score, r)) <= Cardinality(unshown)
    BY <2>1, <1>8, FS_Subset
  <2> QED
    BY <2>2, <1>6, <1>7, <1>8, <1>10
<1> QED
  BY <1>6, <1>9, <1>10 DEF least, score

\* The three modes of exploration never overlap.
LEMMA PoolFull ==
  ASSUME TypeOK, NEW random \in RandomFresh, NEW q \in [Reels -> Similarities]
  PROVE  LET unshown == {r \in Reels : reels[r].impressions = 0}
             explored == ExplorationPool(random, q)
         IN  /\ explored \in SUBSET Reels
             /\ Cardinality(explored \cap unshown) >= Lower(BudgetB, Cardinality(unshown))
             /\ Cardinality(explored) =
                  Lower(Lower(BudgetA, Cardinality(FreshPool)) + BudgetB + BudgetC, Len(reels))
<1> DEFINE unshown == {r \in Reels : reels[r].impressions = 0}
           under == Underexposed(random)
           chosen == random \cup under
           uncertain == UncertainTopic(chosen, q)
           explored == ExplorationPool(random, q)
           a == Lower(BudgetA, Cardinality(FreshPool))
           N == Len(reels)
<1>1. /\ FreshPool \in SUBSET Reels /\ random \in SUBSET Reels /\ Cardinality(random) = a
      /\ \A S \in SUBSET Reels : IsFiniteSet(S) /\ Cardinality(S) \in Nat
      /\ Cardinality(Reels) = N /\ N \in Nat /\ IsFiniteSet(Reels)
  BY FiniteCatalogue DEF RandomFresh, FreshPool
<1>2. BudgetA \in Nat /\ BudgetB \in Nat /\ BudgetC \in Nat
  BY BudgetsNatural DEF BudgetTypes
<1>3. a \in Nat /\ a <= N
  BY <1>1, FS_Subset
<1>4. \A S \in SUBSET Reels : /\ Cardinality(Reels \ S) = N - Cardinality(S)
                              /\ (Reels \ S) \in SUBSET Reels
  <2> TAKE S \in SUBSET Reels
  <2>1. Reels \cap S = S
    OBVIOUS
  <2>2. Cardinality(Reels \ S) = Cardinality(Reels) - Cardinality(Reels \cap S)
    BY <1>1, FS_Difference
  <2> QED
    BY <2>1, <2>2, <1>1
<1>5. /\ under \in SUBSET (Reels \ random)
      /\ Cardinality(under) = Lower(BudgetB, Cardinality(Reels \ random))
  BY <1>1, <1>2, LeastShown DEF Underexposed
<1>6. chosen \in SUBSET Reels /\ random \cap under = {}
  BY <1>1, <1>5
<1>7. Cardinality(chosen) = a + Lower(BudgetB, N - a)
  <2>1. Cardinality(chosen) = Cardinality(random) + Cardinality(under) - Cardinality(random \cap under)
    BY <1>1, <1>5, FS_Union
  <2>2. Cardinality(random \cap under) = 0
    BY <1>6, FS_EmptySet
  <2>3. Cardinality(under) = Lower(BudgetB, N - a)
    BY <1>1, <1>4, <1>5
  <2> HIDE DEF a, N
  <2>4. Lower(BudgetB, N - a) \in Int
    BY <1>1, <1>2, <1>3 DEF Lower
  <2> QED
    BY <2>1, <2>2, <2>3, <2>4, <1>1, <1>3
<1>8. /\ uncertain \in SUBSET (Reels \ chosen)
      /\ Cardinality(uncertain) = Lower(BudgetC, Cardinality(Reels \ chosen))
  <2> DEFINE score == [r \in Reels |-> <<-q[r], 1>>]
  <2>1. Scored(Reels, score)
    <3>1. \A r \in Reels : r \in Int /\ -q[r] \in Int
      <4>1. \A r \in Reels : r \in Int
        BY FiniteCatalogue
      <4>2. \A r \in Reels : q[r] \in Int
        BY CatalogueAssumption
      <4> QED
        BY <4>1, <4>2
    <3>2. \A r \in Reels : <<-q[r], 1>>[1] = -q[r] /\ <<-q[r], 1>>[2] = 1
      OBVIOUS
    <3> QED
      BY <3>1, <3>2 DEF Scored
  <2> HIDE DEF score
  <2>2. Scored(Reels \ chosen, score) /\ IsFiniteSet(Reels \ chosen)
    BY <2>1, <1>1, <1>6 DEF Scored
  <2>3. uncertain = Range(TopBy(Reels \ chosen, BudgetC, score))
    BY DEF UncertainTopic, score
  <2> HIDE DEF uncertain, chosen
  <2>4. /\ Range(TopBy(Reels \ chosen, BudgetC, score)) \subseteq Reels \ chosen
        /\ Cardinality(Range(TopBy(Reels \ chosen, BudgetC, score)))
             = Lower(BudgetC, Cardinality(Reels \ chosen))
    BY <2>2, <1>2, TopByElements
  <2> QED
    BY <2>3, <2>4
<1>9. explored = chosen \cup uncertain
  BY DEF ExplorationPool
<1> HIDE DEF explored, uncertain, chosen
<1>10. explored \in SUBSET Reels
  BY <1>6, <1>8, <1>9
<1>11. Cardinality(explored) = Cardinality(chosen) + Lower(BudgetC, N - Cardinality(chosen))
  <2>1. Cardinality(explored) = Cardinality(chosen) + Cardinality(uncertain) - Cardinality(chosen \cap uncertain)
    BY <1>1, <1>6, <1>8, <1>9, FS_Union
  <2>2. chosen \cap uncertain = {} /\ Cardinality(chosen \cap uncertain) = 0
    BY <1>8, FS_EmptySet
  <2>3. Cardinality(uncertain) = Lower(BudgetC, N - Cardinality(chosen))
    BY <1>4, <1>6, <1>8
  <2>4. Cardinality(chosen) \in Nat /\ Cardinality(uncertain) \in Nat
    BY <1>1, <1>6, <1>8
  <2> QED
    BY <2>1, <2>2, <2>3, <2>4
<1> HIDE DEF a, N
<1>12. Cardinality(explored) = Lower(a + BudgetB + BudgetC, N)
  BY <1>1, <1>2, <1>3, <1>7, <1>11 DEF Lower
<1>13. Cardinality(explored \cap unshown) >= Lower(BudgetB, Cardinality(unshown))
  <2> DEFINE T == Reels \ random
             left == {r \in T : reels[r].impressions = 0}
  <2>1. under = Range(TopBy(T, BudgetB, [r \in Reels |-> <<-reels[r].impressions, 1>>]))
    BY DEF Underexposed
  <2>2. /\ Cardinality(left) >= BudgetB => under \subseteq left
        /\ Cardinality(left) < BudgetB => left \subseteq under
    <3>1. T \in SUBSET Reels
      OBVIOUS
    <3> HIDE DEF under, T
    <3> QED
      BY <3>1, <2>1, <1>2, LeastShown
  <2> HIDE DEF under
  <2>3. /\ IsFiniteSet(unshown) /\ Cardinality(unshown) \in Nat
        /\ IsFiniteSet(left) /\ Cardinality(left) \in Nat
        /\ IsFiniteSet(explored \cap unshown) /\ Cardinality(explored \cap unshown) \in Nat
    <3>1. unshown \in SUBSET Reels /\ left \in SUBSET Reels /\ explored \cap unshown \in SUBSET Reels
      OBVIOUS
    <3> QED
      BY <3>1, <1>1
  <2>4. under \in SUBSET explored /\ random \in SUBSET explored
    BY <1>9 DEF chosen
  <2>5. CASE Cardinality(left) >= BudgetB
    <3>1. under \in SUBSET (explored \cap unshown)
      BY <2>2, <2>4, <2>5
    <3>2. Cardinality(under) <= Cardinality(explored \cap unshown)
      BY <3>1, <2>3, FS_Subset
    <3>3. Cardinality(left) <= Cardinality(T) /\ Cardinality(T) \in Nat
      <4>1. left \in SUBSET T /\ T \in SUBSET Reels
        OBVIOUS
      <4> QED
        BY <4>1, <1>1, FS_Subset
    <3>4. Cardinality(under) = BudgetB
      BY <3>3, <2>5, <2>3, <1>2, <1>5 DEF Lower
    <3> QED
      BY <3>2, <3>4, <2>3, <1>2 DEF Lower
  <2>6. CASE Cardinality(left) < BudgetB
    <3>1. unshown \in SUBSET (explored \cap unshown)
      BY <2>2, <2>4, <2>6
    <3>2. Cardinality(unshown) <= Cardinality(explored \cap unshown)
      BY <3>1, <2>3, FS_Subset
    <3> HIDE DEF unshown
    <3> QED
      BY <3>2, <2>3, <1>2 DEF Lower
  <2> QED
    BY <2>5, <2>6, <2>3, <1>2
<1> QED
  BY <1>10, <1>12, <1>13 DEF explored, a, N

------------------------------------------------------------------------------
(* Requests *)

\* What no request changes.
Kept == UNCHANGED <<arm, explore, now, reels, index, ground, byCreator, seen, affinity>>

\* An answer leaves the world alone and keeps the types, when it is made of reels.
LEMMA AnswerKeeps ==
  ASSUME CatalogueInv, Kept, feed' \in Seq(Reels), draws' \in Nat, zeroDraws' \in Nat
  PROVE  CatalogueInv'
BY DEF Kept, CatalogueInv, TypeOK, IndexLive, NoneInjected, Reels, Vector

\* What every request of an arm does, for the properties that tell arms apart.
LEMMA RandomStep ==
  ASSUME CatalogueInv, NEW u \in Users, RecommendRandom(u)
  PROVE  /\ Kept /\ feed' \in Seq(Reels) /\ draws' \in Nat /\ zeroDraws' \in Nat
         /\ arm = "random" /\ asked'.searches = 0 /\ ~asked'.fired /\ asked'.explored = {}
         /\ draws' - draws = zeroDraws' - zeroDraws
<1> DEFINE k == Lower(FeedSize, Cardinality(Unseen(u)))
<1>1. TypeOK /\ k \in Nat
  BY SeenExact, CatalogueAssumption DEF CatalogueInv, Lower
<1>2. PICK S \in {T \in SUBSET Unseen(u) : Cardinality(T) = k} :
        Answer([NoRequest EXCEPT !.user = u, !.feed = SetToSeq(S)])
  BY DEF RecommendRandom
<1>3. S \in SUBSET Reels
  BY DEF Unseen
<1>4. SetToSeq(S) \in Seq(Reels)
  BY <1>1, <1>3, ListedFeed
<1>5. draws' = draws + k /\ zeroDraws' = zeroDraws + k /\ arm = "random"
  BY DEF RecommendRandom
<1> HIDE DEF k
<1> QED
  BY <1>1, <1>2, <1>4, <1>5 DEF NoRequest, Answer, Kept, userVars, TypeOK

\* The same of the popularity arm.
LEMMA PopularStep ==
  ASSUME CatalogueInv, NEW u \in Users, RecommendPopular(u)
  PROVE  /\ Kept /\ feed' \in Seq(Reels) /\ draws' \in Nat /\ zeroDraws' \in Nat
         /\ arm = "popularity" /\ asked'.searches = 0 /\ ~asked'.fired /\ asked'.explored = {}
         /\ draws' = draws /\ zeroDraws' = zeroDraws
<1>1. TypeOK /\ FeedSize \in Nat /\ Unseen(u) \in SUBSET Reels
  BY CatalogueAssumption DEF CatalogueInv, Unseen
<1> DEFINE score == [r \in Reels |-> Smoothed(r, PriorMean)]
<1>2. Scored(Reels, score)
  BY <1>1, PopularScores
<1>3. Popular(Unseen(u), FeedSize) = TopBy(Unseen(u), FeedSize, score)
  BY DEF Popular
<1> HIDE DEF score
<1>4. Popular(Unseen(u), FeedSize) \in Seq(Reels)
  BY <1>1, <1>2, <1>3, SelectedFeed
<1> QED
  BY <1>1, <1>4 DEF RecommendPopular, NoRequest, Answer, Kept, userVars, TypeOK

\* The exact arm answers with the oracle's feed, from one search.
LEMMA ExactStep ==
  ASSUME CatalogueInv, NEW u \in Users, RecommendExact(u)
  PROVE  /\ Kept /\ feed' \in Seq(Reels) /\ draws' \in Nat /\ zeroDraws' \in Nat
         /\ arm = "exact_vector" /\ ~asked'.fired /\ asked'.explored = {}
         /\ draws' = draws /\ zeroDraws' = zeroDraws
         /\ asked'.feed = OracleFeed(asked'.user, asked'.query) /\ asked'.searches = 1
<1>1. TypeOK /\ FeedSize \in Nat /\ Unseen(u) \in SUBSET Reels /\ arm = "exact_vector"
  BY CatalogueAssumption DEF CatalogueInv, Unseen, RecommendExact
<1> DEFINE again(q) == Len(Served(u, q, OverFetch(u))) < FeedSize /\ OverFetch(u) < Cardinality(index)
<1>2. PICK q \in [Reels -> Similarities] :
        Answer([NoRequest EXCEPT !.user = u, !.query = q,
                  !.searches = IF again(q) THEN 2 ELSE 1,
                  !.feed = Served(u, q, IF again(q) THEN Cardinality(index) ELSE OverFetch(u))])
  BY DEF RecommendExact
<1>3. Served(u, q, OverFetch(u)) = OracleFeed(u, q) /\ ~again(q)
  BY <1>1, ExactServed
<1>4. Answer([NoRequest EXCEPT !.user = u, !.query = q, !.searches = 1, !.feed = OracleFeed(u, q)])
  BY <1>2, <1>3
<1> DEFINE score == [r \in Reels |-> <<q[r], 1>>]
<1>5. OracleFeed(u, q) \in Seq(Reels)
  <2>1. Scored(Reels, score)
    BY <1>1, QueryScores
  <2>2. OracleFeed(u, q) = TopBy(Unseen(u), FeedSize, score)
    BY DEF OracleFeed, Nearest
  <2> HIDE DEF score
  <2> QED
    BY <1>1, <2>1, <2>2, SelectedFeed
<1> QED
  BY <1>1, <1>4, <1>5 DEF RecommendExact, NoRequest, Answer, Kept, userVars, TypeOK

\* The graph finds enough for a feed unless the unseen are few or it was asked
\* for less than the seen take away.
LEMMA ReachesUnseen ==
  ASSUME CatalogueInv, Graph, NEW u \in Users, NEW semantic \in Approximate(Wanted),
         NEW pool \in SUBSET Reels, semantic \cap Unseen(u) \subseteq pool,
         Lower(FeedSize, Cardinality(pool)) < FeedSize
  PROVE  \/ Missed(semantic) > 0
         \/ Cardinality(seen[u]) > CandidateLimit - FeedSize
         \/ Cardinality(Unseen(u)) < FeedSize
<1>1. TypeOK /\ index = Reels /\ FeedSize \in Nat /\ CandidateLimit \in Nat
  BY CatalogueAssumption DEF CatalogueInv, IndexLive, Vector, Graph
<1>2. semantic \in SUBSET Reels /\ Cardinality(semantic) <= CandidateLimit
  BY <1>1 DEF Approximate, Wanted
<1>3. semantic \cap Unseen(u) = semantic \ seen[u]
  BY <1>2 DEF Unseen
<1>4. /\ IsFiniteSet(semantic) /\ IsFiniteSet(pool) /\ IsFiniteSet(seen[u])
      /\ Cardinality(semantic) \in Nat /\ Cardinality(pool) \in Nat /\ Cardinality(Reels) \in Nat
      /\ Cardinality(seen[u]) \in Nat
      /\ Cardinality(Unseen(u)) = Cardinality(Reels) - Cardinality(seen[u])
  BY <1>1, <1>2, FiniteCatalogue, SeenExact
<1>5. Cardinality(semantic \ seen[u]) = Cardinality(semantic) - Cardinality(semantic \cap seen[u])
  BY <1>4, FS_Difference
<1>6. /\ Cardinality(semantic \cap seen[u]) <= Cardinality(seen[u])
      /\ Cardinality(semantic \cap seen[u]) \in Nat
  BY <1>4, FS_Intersection, FS_CardinalityType
<1>8. /\ Missed(semantic) = Lower(CandidateLimit, Cardinality(Reels)) - Cardinality(semantic)
      /\ Cardinality(semantic) <= Cardinality(Reels)
  BY <1>1, <1>2, <1>4, FiniteCatalogue, FS_Subset DEF Missed, Wanted
<1>7. Cardinality(semantic \ seen[u]) <= Cardinality(pool)
  BY <1>3, <1>4, FS_Subset
<1> QED
  BY <1>1, <1>2, <1>4, <1>5, <1>6, <1>7, <1>8 DEF Lower

\* The oracle arm draws nothing and is short only for lack of unseen reels.
LEMMA OracleStep ==
  ASSUME CatalogueInv, NEW u \in Users, RecommendOracle(u)
  PROVE  /\ Kept /\ feed' \in Seq(Reels) /\ draws' \in Nat /\ zeroDraws' \in Nat
         /\ arm = "oracle_satisfaction" /\ ~asked'.fired /\ asked'.explored = {}
         /\ draws' = draws /\ zeroDraws' = zeroDraws
         /\ Len(asked'.feed) < FeedSize =>
              \/ asked'.missed > 0
              \/ Cardinality(seen[asked'.user]) > CandidateLimit - FeedSize
              \/ Cardinality(Unseen(asked'.user)) < FeedSize
<1>1. TypeOK /\ FeedSize \in Nat /\ arm = "oracle_satisfaction" /\ Reels = DOMAIN Generated
  BY CatalogueAssumption DEF CatalogueInv, NoneInjected, RecommendOracle
<1>2. PICK semantic \in Approximate(Wanted), q \in [Reels -> Similarities] :
        LET pool == {r \in semantic \cap Unseen(u) : r \in DOMAIN Generated}
        IN Answer([NoRequest EXCEPT !.user = u, !.missed = Missed(semantic), !.searches = 1,
                     !.feed = Nearest(pool, q, FeedSize)])
  BY DEF RecommendOracle
<1> DEFINE pool == {r \in semantic \cap Unseen(u) : r \in DOMAIN Generated}
           score == [r \in Reels |-> <<q[r], 1>>]
<1>3. Answer([NoRequest EXCEPT !.user = u, !.missed = Missed(semantic), !.searches = 1,
               !.feed = TopBy(pool, FeedSize, score)])
  BY <1>2 DEF Nearest
<1>4. pool \in SUBSET Reels /\ pool = semantic \cap Unseen(u)
  BY <1>1 DEF Unseen
<1>5. Scored(Reels, score)
  BY <1>1, QueryScores
<1> HIDE DEF pool, score
<1>6. /\ TopBy(pool, FeedSize, score) \in Seq(Reels)
      /\ Len(TopBy(pool, FeedSize, score)) = Lower(FeedSize, Cardinality(pool))
  BY <1>1, <1>4, <1>5, SelectedFeed
<1>7. Graph
  BY <1>1 DEF Graph
<1>8. Lower(FeedSize, Cardinality(pool)) < FeedSize =>
        \/ Missed(semantic) > 0
        \/ Cardinality(seen[u]) > CandidateLimit - FeedSize
        \/ Cardinality(Unseen(u)) < FeedSize
  BY <1>4, <1>7, ReachesUnseen
<1> QED
  BY <1>1, <1>3, <1>6, <1>8 DEF RecommendOracle, NoRequest, Answer, Kept, userVars, TypeOK

\* The leftovers of a pool are shut out by the caps.
LeftOut(pool, S, caps) == Diverse /\ pool \ S # {} /\ \A r \in pool \ S : Capped(r, S, caps)

\* A feed is cut from its pool, and what it leaves there it has no room for.
LEMMA FeedOfPool ==
  ASSUME TypeOK, NEW pool \in SUBSET Reels, NEW caps, NEW S \in Feeds(pool, caps),
         Cardinality(S) < FeedSize
  PROVE  S \in SUBSET pool /\ (LeftOut(pool, S, caps) \/ Lower(FeedSize, Cardinality(pool)) < FeedSize)
<1>1. FeedSize \in Nat /\ S \in SUBSET pool /\ Cardinality(pool) \in Nat
  BY CatalogueAssumption, FiniteCatalogue DEF Feeds, Reranked
<1>2. CASE Diverse /\ pool \ S # {}
  <2>1. \A r \in pool \ S : Capped(r, S, caps)
    BY <1>2, <1>1 DEF Feeds, Reranked
  <2> QED
    BY <2>1, <1>1, <1>2 DEF LeftOut
<1>3. CASE Diverse /\ pool \ S = {}
  <2>1. S = pool
    BY <1>1, <1>3
  <2> QED
    BY <2>1, <1>1 DEF Lower
<1>4. CASE ~Diverse
  BY <1>1, <1>4 DEF Feeds
<1> QED
  BY <1>2, <1>3, <1>4

\* The orchestrated arms: what they draw, what they explore, when they are short.
LEMMA OrchestratedStep ==
  ASSUME CatalogueInv, NEW u \in Users, RecommendOrchestrated(u)
  PROVE  /\ Kept /\ feed' \in Seq(Reels) /\ draws' \in Nat /\ zeroDraws' \in Nat
         /\ Graph /\ arm # "oracle_satisfaction"
         /\ Len(asked'.feed) < FeedSize =>
              \/ asked'.missed > 0
              \/ Cardinality(seen[asked'.user]) > CandidateLimit - FeedSize
              \/ Cardinality(Unseen(asked'.user)) < FeedSize
              \/ LeftOut(asked'.pool, Range(asked'.feed), asked'.caps)
         /\ \/ /\ asked'.fired = FALSE /\ asked'.explored = {}
               /\ draws' - draws = zeroDraws' - zeroDraws
            \/ /\ asked'.fired = TRUE /\ CanFire
               /\ \E random \in RandomFresh, q \in [Reels -> Similarities] :
                    asked'.explored = ExplorationPool(random, q)
         /\ draws' - draws >= zeroDraws' - zeroDraws
         /\ ~explore => draws' = draws
<1>1. TypeOK /\ FeedSize \in Nat /\ Graph /\ arm # "oracle_satisfaction"
  BY CatalogueAssumption DEF CatalogueInv, RecommendOrchestrated
<1>0. PICK fired \in (IF CanFire THEN BOOLEAN ELSE {FALSE}) :
      \E semantic \in Approximate(Wanted), caps \in Caps,
         q \in (IF fired THEN [Reels -> Similarities] ELSE {<<>>}),
         random \in (IF fired THEN RandomFresh ELSE {{}}) :
        LET explored == IF fired THEN ExplorationPool(random, q) ELSE {}
            offered == Offered(u, semantic, explored)
        IN /\ \E pool \in Pools(offered \cap Unseen(u)) : \E S \in Feeds(pool, caps) :
                Answer([NoRequest EXCEPT !.user = u, !.fired = fired, !.explored = explored,
                          !.missed = Missed(semantic), !.pool = pool, !.caps = caps,
                          !.searches = 1, !.feed = SetToSeq(S)])
           /\ draws' = draws + GateDraws(fired)
  BY DEF RecommendOrchestrated
<1>2. PICK semantic \in Approximate(Wanted), caps \in Caps,
           q \in (IF fired THEN [Reels -> Similarities] ELSE {<<>>}),
           random \in (IF fired THEN RandomFresh ELSE {{}}) :
        LET explored == IF fired THEN ExplorationPool(random, q) ELSE {}
            offered == Offered(u, semantic, explored)
        IN /\ \E pool \in Pools(offered \cap Unseen(u)) : \E S \in Feeds(pool, caps) :
                Answer([NoRequest EXCEPT !.user = u, !.fired = fired, !.explored = explored,
                          !.missed = Missed(semantic), !.pool = pool, !.caps = caps,
                          !.searches = 1, !.feed = SetToSeq(S)])
           /\ draws' = draws + GateDraws(fired)
  BY <1>0
<1> DEFINE explored == IF fired THEN ExplorationPool(random, q) ELSE {}
           eligible == Offered(u, semantic, explored) \cap Unseen(u)
<1>3. PICK pool \in Pools(eligible) : \E S \in Feeds(pool, caps) :
        Answer([NoRequest EXCEPT !.user = u, !.fired = fired, !.explored = explored,
                  !.missed = Missed(semantic), !.pool = pool, !.caps = caps,
                  !.searches = 1, !.feed = SetToSeq(S)])
  BY <1>2
<1>17. PICK S \in Feeds(pool, caps) :
        Answer([NoRequest EXCEPT !.user = u, !.fired = fired, !.explored = explored,
                  !.missed = Missed(semantic), !.pool = pool, !.caps = caps,
                  !.searches = 1, !.feed = SetToSeq(S)])
  BY <1>3
<1>4. draws' = draws + GateDraws(fired) /\ zeroDraws' = zeroDraws + (IF explore THEN FeedSize ELSE 0)
  BY <1>2 DEF RecommendOrchestrated
<1>5. eligible \in SUBSET Reels /\ semantic \cap Unseen(u) \subseteq eligible
  BY DEF Unseen, Offered
<1> HIDE DEF eligible
<1>18. /\ pool \in SUBSET Reels /\ S \in SUBSET Reels
       /\ Cardinality(pool) = Lower(CandidateLimit, Cardinality(eligible))
  BY <1>5, <1>3, <1>17 DEF Pools, Feeds, Reranked
<1>6. /\ SetToSeq(S) \in Seq(Reels) /\ Len(SetToSeq(S)) = Cardinality(S)
      /\ Range(SetToSeq(S)) = S
  BY <1>1, <1>18, ListedFeed
<1>7. Cardinality(S) < FeedSize =>
        \/ Missed(semantic) > 0
        \/ Cardinality(seen[u]) > CandidateLimit - FeedSize
        \/ Cardinality(Unseen(u)) < FeedSize
        \/ LeftOut(pool, S, caps)
  <2>1. SUFFICES ASSUME Cardinality(S) < FeedSize, ~LeftOut(pool, S, caps)
                 PROVE  \/ Missed(semantic) > 0
                        \/ Cardinality(seen[u]) > CandidateLimit - FeedSize
                        \/ Cardinality(Unseen(u)) < FeedSize
    OBVIOUS
  <2>2. Cardinality(eligible) \in Nat /\ Cardinality(seen[u]) \in Nat /\ CandidateLimit \in Nat
    BY <1>1, <1>5, FiniteCatalogue, SeenExact, CatalogueAssumption, FS_CardinalityType
  <2>3. Lower(FeedSize, Cardinality(pool)) < FeedSize
    BY <2>1, <1>1, <1>17, <1>18, FeedOfPool
  <2>4. CASE CandidateLimit < FeedSize
    BY <2>2, <2>4, <1>1
  <2>5. CASE CandidateLimit >= FeedSize
    <3>1. Lower(FeedSize, Cardinality(eligible)) < FeedSize
      BY <2>2, <2>3, <2>5, <1>1, <1>18 DEF Lower
    <3> QED
      BY <3>1, <1>1, <1>5, ReachesUnseen
  <2> QED
    BY <2>2, <2>4, <2>5, <1>1
<1>8. fired \in BOOLEAN /\ explore \in BOOLEAN /\ (fired => CanFire) /\ (CanFire => explore)
  BY <1>0, <1>1 DEF CanFire, TypeOK
<1>9. Lower(BudgetA, Cardinality(FreshPool)) \in Nat
  BY <1>1, FiniteCatalogue, BudgetsNatural DEF FreshPool, Lower, BudgetTypes
<1>10. /\ GateDraws(fired) \in Nat
       /\ ~explore => GateDraws(fired) = 0
       /\ explore /\ ~fired => GateDraws(fired) = FeedSize
       /\ explore => GateDraws(fired) >= FeedSize
  BY <1>1, <1>8, <1>9 DEF GateDraws
<1>11. /\ draws \in Nat /\ zeroDraws \in Nat
       /\ draws' \in Nat /\ zeroDraws' \in Nat
       /\ draws' - draws >= zeroDraws' - zeroDraws
       /\ ~explore => draws' = draws
       /\ ~fired => draws' - draws = zeroDraws' - zeroDraws
  <2> DEFINE g == GateDraws(fired)
  <2>1. draws \in Nat /\ zeroDraws \in Nat
    BY <1>1 DEF TypeOK
  <2>2. draws' = draws + g /\ g \in Nat
    BY <1>4, <1>10
  <2>3. CASE explore
    <3>1. zeroDraws' = zeroDraws + FeedSize /\ g >= FeedSize /\ (~fired => g = FeedSize)
      BY <1>4, <1>10, <2>3
    <3> HIDE DEF g
    <3> QED
      BY <2>1, <2>2, <2>3, <3>1, <1>1
  <2>4. CASE ~explore
    <3>1. zeroDraws' = zeroDraws + 0 /\ g = 0
      BY <1>4, <1>10, <2>4
    <3> HIDE DEF g
    <3> QED
      BY <2>1, <2>2, <2>4, <3>1
  <2> QED
    BY <2>3, <2>4
<1>12. fired => \E s \in RandomFresh, p \in [Reels -> Similarities] : explored = ExplorationPool(s, p)
  BY <1>2
<1>13. ~fired => explored = {}
  OBVIOUS
<1> HIDE DEF explored
<1>14. /\ asked'.user = u /\ asked'.fired = fired /\ asked'.explored = explored
       /\ asked'.missed = Missed(semantic) /\ asked'.pool = pool /\ asked'.caps = caps
       /\ asked'.feed = SetToSeq(S) /\ feed' = SetToSeq(S) /\ Kept
  BY <1>17 DEF Answer, Kept, userVars, NoRequest
<1>15. CASE fired = TRUE
  BY <1>1, <1>6, <1>7, <1>8, <1>11, <1>12, <1>14, <1>15
<1>16. CASE fired = FALSE
  BY <1>1, <1>6, <1>7, <1>8, <1>11, <1>13, <1>14, <1>16
<1> QED
  BY <1>8, <1>15, <1>16

------------------------------------------------------------------------------
(* Steps and theorems *)

\* A request of any arm.
Requested(u) == \/ RecommendRandom(u) \/ RecommendPopular(u) \/ RecommendExact(u)
            \/ RecommendOracle(u) \/ RecommendOrchestrated(u)

\* The counters of a reel may change.
LEMMA Recounted ==
  ASSUME NEW rec \in ReelRecords, NEW a \in Nat, NEW b \in Nat, NEW c \in Nat, NEW d \in Nat
  PROVE  /\ [rec EXCEPT !.impressions = a, !.engagement = b,
                !.trendingEngagement = c, !.trendingImpressions = d] \in ReelRecords
         /\ [rec EXCEPT !.trendingEngagement = c, !.trendingImpressions = d] \in ReelRecords
<1>1. [rec EXCEPT !.impressions = a, !.engagement = b] \in ReelRecords
  BY Zenon DEF ReelRecords
<1>2. \A x \in ReelRecords :
        [x EXCEPT !.trendingEngagement = c, !.trendingImpressions = d] \in ReelRecords
  BY Zenon DEF ReelRecords
<1>3. [rec EXCEPT !.impressions = a, !.engagement = b,
                !.trendingEngagement = c, !.trendingImpressions = d]
        = [[rec EXCEPT !.impressions = a, !.engagement = b]
             EXCEPT !.trendingEngagement = c, !.trendingImpressions = d]
  OBVIOUS
<1> QED
  BY <1>1, <1>2, <1>3

\* The records of the catalogue after a watch.
LEMMA ConsumeKeeps ==
  ASSUME CatalogueInv, Consume
  PROVE  CatalogueInv'
<1>1. TypeOK /\ feed # <<>>
  BY DEF CatalogueInv, Consume
<1>2. PICK gain \in {0, 1} :
        /\ reels' = [reels EXCEPT ![Head(feed)].impressions = @ + 1,
                       ![Head(feed)].engagement = @ + gain,
                       ![Head(feed)].trendingEngagement = @ + gain * Unit,
                       ![Head(feed)].trendingImpressions = @ + Unit]
        /\ seen' = [seen EXCEPT ![asked.user] = @ \cup {Head(feed)}]
  BY DEF Consume
<1> DEFINE r == Head(feed)
<1>3. r \in Reels /\ Tail(feed) \in Seq(Reels)
  BY <1>1, HeadTailProperties DEF TypeOK
<1>4. gain * Unit \in Nat /\ Unit \in Nat
  <2>1. Unit \in Nat
    BY UnitType
  <2>2. gain * Unit = 0 \/ gain * Unit = Unit
    BY <2>1
  <2> QED
    BY <2>1, <2>2
<1> DEFINE rec == [reels[r] EXCEPT !.impressions = @ + 1, !.engagement = @ + gain,
                     !.trendingEngagement = @ + gain * Unit, !.trendingImpressions = @ + Unit]
<1>5. rec \in ReelRecords
  <2>1. reels[r] \in ReelRecords
    BY <1>1, <1>3, FiniteCatalogue
  <2>2. /\ reels[r].impressions + 1 \in Nat /\ reels[r].engagement + gain \in Nat
        /\ reels[r].trendingEngagement + gain * Unit \in Nat
        /\ reels[r].trendingImpressions + Unit \in Nat
    BY <2>1, <1>4 DEF ReelRecords
  <2> HIDE DEF r
  <2>3. \A a, b, c, d \in Nat :
          [reels[r] EXCEPT !.impressions = a, !.engagement = b,
                !.trendingEngagement = c, !.trendingImpressions = d] \in ReelRecords
    BY <2>1, Recounted
  <2> QED
    BY <2>2, <2>3
<1>6. reels' = [reels EXCEPT ![r] = rec]
  BY <1>2
<1> HIDE DEF rec, r
<1>7. reels' \in Seq(ReelRecords) /\ Reels' = Reels
  BY <1>1, <1>3, <1>5, <1>6, ExceptSeq DEF TypeOK, Reels
<1>8. seen' \in [Users -> SUBSET Reels]
  <2>1. seen \in [Users -> SUBSET Reels] /\ seen' = [seen EXCEPT ![asked.user] = @ \cup {r}]
    BY <1>1, <1>2 DEF TypeOK, r
  <2> QED
    BY <2>1, <1>3
<1>9. feed' \in Seq(Reels)
  <2>1. feed' \in {Tail(feed), <<>>}
    BY DEF Consume
  <2>2. <<>> \in Seq(Reels)
    BY EmptySeq
  <2> QED
    BY <2>1, <2>2, <1>3
<1>10. UNCHANGED <<arm, explore, now, index, ground, draws, zeroDraws>>
  BY DEF Consume
<1> QED
  BY <1>1, <1>7, <1>8, <1>9, <1>10 DEF CatalogueInv, TypeOK, IndexLive, NoneInjected, Vector

\* An injection keeps the indexes live.
LEMMA AppendKeeps ==
  ASSUME CatalogueInv, AppendReels
  PROVE  CatalogueInv'
<1>1. TypeOK /\ feed = <<>> /\ feed' = feed /\ arm # "oracle_satisfaction"
      /\ UNCHANGED <<arm, explore, now, seen, draws, zeroDraws>>
      /\ reels' = reels \o Injected
  BY DEF CatalogueInv, AppendReels, userVars
<1>2. Injected \in Seq(ReelRecords)
  <2>1. \A i \in DOMAIN NewReels : NewReels[i].creator \in Creators /\ NewReels[i].topic \in Topics
    BY DEF Creators, Topics, Specs, Range
  <2>2. NewReels \in Seq(Range(NewReels)) /\ now \in Nat
    BY <1>1, CatalogueAssumption DEF TypeOK
  <2>3. DOMAIN NewReels = 1..Len(NewReels) /\ Len(NewReels) \in Nat
    BY <2>2, LenProperties
  <2>4. \A i \in DOMAIN NewReels : Reel(NewReels[i], now) \in ReelRecords
    BY <2>1, <2>2 DEF Reel, ReelRecords
  <2>5. Injected \in [1..Len(NewReels) -> ReelRecords]
    BY <2>3, <2>4 DEF Injected
  <2> QED
    BY <2>3, <2>5
<1>3. /\ reels' \in Seq(ReelRecords) /\ Len(reels') = Len(reels) + Len(Injected)
      /\ Len(reels) \in Nat /\ Len(Injected) \in Nat
      /\ Reels = 1..Len(reels) /\ Reels' = 1..Len(reels')
  BY <1>1, <1>2, ConcatProperties, LenProperties DEF TypeOK, Reels
<1>4. Reels' = Reels \cup (Len(reels) + 1 .. Len(reels')) /\ Reels \subseteq Reels'
  BY <1>3
<1>5. seen' \in [Users -> SUBSET Reels'] /\ feed' \in Seq(Reels')
  BY <1>1, <1>4 DEF TypeOK
<1>6. Vector => index' = Reels' /\ ground' = Reels'
  BY <1>4 DEF AppendReels, IndexWith, GroundWith, CatalogueInv, IndexLive
<1> QED
  BY <1>1, <1>3, <1>5, <1>6 DEF CatalogueInv, TypeOK, IndexLive, NoneInjected, Vector

\* A day changes only the trending sums.
LEMMA TickKeeps ==
  ASSUME CatalogueInv, Tick
  PROVE  CatalogueInv'
<1>1. TypeOK /\ UNCHANGED <<arm, explore, seen, draws, zeroDraws, index, ground, feed>>
      /\ now' = now + 1
  BY DEF CatalogueInv, Tick, userVars
<1>2. reels' \in Seq(ReelRecords) /\ Reels' = Reels
  <2>1. Len(reels) \in Nat /\ Reels = 1..Len(reels) /\ \A r \in Reels : reels[r] \in ReelRecords
    BY <1>1, FiniteCatalogue
  <2>2. \A r \in Reels : [reels[r] EXCEPT !.trendingEngagement = @ \div 2,
                                          !.trendingImpressions = @ \div 2] \in ReelRecords
    <3> TAKE r \in Reels
    <3>1. /\ reels[r].trendingEngagement \div 2 \in Nat
          /\ reels[r].trendingImpressions \div 2 \in Nat
          /\ reels[r].impressions \in Nat /\ reels[r].engagement \in Nat
      BY <2>1 DEF ReelRecords
    <3> QED
      BY <2>1, <3>1, Recounted
  <2>3. reels' \in [1..Len(reels) -> ReelRecords]
    BY <2>1, <2>2 DEF Tick
  <2> QED
    BY <2>1, <2>3 DEF Reels
<1> QED
  BY <1>1, <1>2 DEF CatalogueInv, TypeOK, IndexLive, NoneInjected, Vector

\* The catalogue and its indexes are built together.
LEMMA InitCatalogue == Init => CatalogueInv
<1> SUFFICES ASSUME Init PROVE CatalogueInv
  OBVIOUS
<1>1. Generated \in Seq(Range(Generated)) /\ \A reel \in Range(Generated) : reel.created \in Int
  BY CatalogueAssumption
<1>2. DOMAIN Generated = 1..Len(Generated) /\ Len(Generated) \in Nat
  BY <1>1, LenProperties
<1>3. \A r \in DOMAIN Generated : Reel(Generated[r], Generated[r].created) \in ReelRecords
  BY <1>1 DEF Reel, ReelRecords, Creators, Topics, Specs, Range
<1>4. reels \in [1..Len(Generated) -> ReelRecords] /\ Reels = DOMAIN Generated
  BY <1>2, <1>3 DEF Init, Reels
<1>5. reels \in Seq(ReelRecords)
  BY <1>2, <1>4
<1>6. arm \in Arms /\ explore \in BOOLEAN /\ now = 0 /\ feed = <<>>
      /\ seen = [u \in Users |-> {}] /\ draws \in Nat /\ zeroDraws \in Nat
      /\ (Vector => index = Reels /\ ground = Reels)
  BY DEF Init
<1>7. feed \in Seq(Reels) /\ seen \in [Users -> SUBSET Reels]
  BY <1>6, EmptySeq
<1> QED
  BY <1>4, <1>5, <1>6, <1>7 DEF CatalogueInv, TypeOK, IndexLive, NoneInjected

\* Every step keeps the types, the live indexes and the refusal of injections.
LEMMA StepCatalogue == CatalogueInv /\ [Next]_vars => CatalogueInv'
<1> SUFFICES ASSUME CatalogueInv, [Next]_vars PROVE CatalogueInv'
  OBVIOUS
<1>1. ASSUME NEW u \in Users, Requested(u) PROVE CatalogueInv'
  BY <1>1, RandomStep, PopularStep, ExactStep, OracleStep, OrchestratedStep, AnswerKeeps DEF Requested
<1>2. CASE UNCHANGED vars
  BY <1>2 DEF vars, userVars, CatalogueInv, TypeOK, IndexLive, NoneInjected, Reels, Vector
<1> QED
  BY <1>1, <1>2, ConsumeKeeps, AppendKeeps, TickKeeps DEF Next, Requested

\* Types, live indexes, and no injection where reels need a hidden state: the
\* invariant everything below rests on.
THEOREM TypeCorrect == Spec => []CatalogueInv
BY InitCatalogue, StepCatalogue, PTL DEF Spec

\* A step that is no request forgets the last one.
LEMMA Forgotten ==
  ASSUME Consume \/ AppendReels \/ Tick
  PROVE  /\ asked'.searches = 0 /\ ~asked'.fired /\ asked'.explored = {}
         /\ UNCHANGED <<arm, explore, draws, zeroDraws>>
<1>1. \A x : /\ [NoRequest EXCEPT !.user = x].searches = 0
             /\ [NoRequest EXCEPT !.user = x].fired = FALSE
             /\ [NoRequest EXCEPT !.user = x].explored = {}
  BY DEF NoRequest
<1>2. NoRequest.searches = 0 /\ NoRequest.fired = FALSE /\ NoRequest.explored = {}
  BY DEF NoRequest
<1>3. CASE Consume
  <2>1. asked' = [NoRequest EXCEPT !.user = IF feed' = <<>> THEN NoRequest.user ELSE asked.user]
        /\ UNCHANGED <<arm, explore, draws, zeroDraws>>
    BY <1>3 DEF Consume
  <2> QED
    BY <2>1, <1>1
<1>4. CASE AppendReels
  BY <1>2, <1>4 DEF AppendReels
<1>5. CASE Tick
  BY <1>2, <1>5 DEF Tick
<1> QED
  BY <1>3, <1>4, <1>5

\* Cutting the feed from the unseen among the FeedSize + |seen| nearest is
\* cutting it from all the unseen, so the fallback scan of the exact arm is dead
\* code and its regret is zero, for any catalogue, history and similarities.
THEOREM ExactHasNoRegretCorrect == Spec => []ExactHasNoRegret
<1>1. Init => ExactHasNoRegret
  BY DEF Init, NoRequest, ExactHasNoRegret, Answered
<1>2. CatalogueInv /\ ExactHasNoRegret /\ [Next]_vars => ExactHasNoRegret'
  <2> SUFFICES ASSUME CatalogueInv, ExactHasNoRegret, [Next]_vars PROVE ExactHasNoRegret'
    OBVIOUS
  <2>1. ASSUME NEW u \in Users, RecommendExact(u) PROVE ExactHasNoRegret'
    <3>1. /\ Kept /\ arm = "exact_vector" /\ asked'.searches = 1
          /\ asked'.feed = OracleFeed(asked'.user, asked'.query)
      BY <2>1, ExactStep
    <3>2. index = ground
      BY <3>1 DEF CatalogueInv, IndexLive, Vector
    <3>3. asked'.feed = OracleFeed(asked.user, asked.query)'
      BY <3>1 DEF Kept, OracleFeed, Nearest, Unseen, Reels
    <3> QED
      BY <3>1, <3>2, <3>3 DEF ExactHasNoRegret, Kept
  <2>2. ASSUME NEW u \in Users, Requested(u), arm # "exact_vector" PROVE ExactHasNoRegret'
    BY <2>2, RandomStep, PopularStep, ExactStep, OracleStep, OrchestratedStep
    DEF Requested, Kept, ExactHasNoRegret
  <2>3. ASSUME NEW u \in Users, Requested(u), arm = "exact_vector" PROVE ExactHasNoRegret'
    BY <2>1, <2>3 DEF Requested, RecommendRandom, RecommendPopular, RecommendOracle,
                      RecommendOrchestrated, Graph
  <2>4. CASE UNCHANGED vars
    BY <2>4 DEF vars, userVars, ExactHasNoRegret, Answered, OracleFeed, Nearest, Unseen, Reels
  <2>5. CASE Consume \/ AppendReels \/ Tick
    BY <2>5, Forgotten DEF ExactHasNoRegret, Answered
  <2> QED
    BY <2>2, <2>3, <2>4, <2>5 DEF Next, Requested
<1> QED
  BY <1>1, <1>2, TypeCorrect, PTL DEF Spec

\* The three exploration budgets never buy one reel twice, and the underexposed
\* one is spent on reels nobody was shown, for any budgets and catalogue.
THEOREM ExplorationPoolFullCorrect == Spec => []ExplorationPoolFull
<1>1. Init => ExplorationPoolFull
  BY DEF Init, NoRequest, ExplorationPoolFull
<1>2. CatalogueInv /\ ExplorationPoolFull /\ [Next]_vars => ExplorationPoolFull'
  <2> SUFFICES ASSUME CatalogueInv, ExplorationPoolFull, [Next]_vars PROVE ExplorationPoolFull'
    OBVIOUS
  <2>1. ASSUME NEW u \in Users, RecommendOrchestrated(u) PROVE ExplorationPoolFull'
    <3>1. CASE asked'.fired = FALSE
      BY <3>1 DEF ExplorationPoolFull
    <3>2. CASE asked'.fired = TRUE
      <4>1. PICK random \in RandomFresh, q \in [Reels -> Similarities] :
              asked'.explored = ExplorationPool(random, q)
        BY <2>1, <3>2, OrchestratedStep
      <4>2. Kept
        BY <2>1, OrchestratedStep
      <4>3. TypeOK
        BY DEF CatalogueInv
      <4> DEFINE unshown == {r \in Reels : reels[r].impressions = 0}
      <4>4. /\ Cardinality(asked'.explored \cap unshown) >= Lower(BudgetB, Cardinality(unshown))
            /\ Cardinality(asked'.explored) =
                  Lower(Lower(BudgetA, Cardinality(FreshPool)) + BudgetB + BudgetC, Len(reels))
        BY <4>1, <4>3, PoolFull
      <4>5. unshown' = unshown /\ FreshPool' = FreshPool /\ reels' = reels
        BY <4>2 DEF Kept, FreshPool, Reels
      <4> QED
        BY <4>4, <4>5 DEF ExplorationPoolFull
    <3> QED
      BY <2>1, <3>1, <3>2, OrchestratedStep
  <2>2. ASSUME NEW u \in Users, Requested(u) PROVE ExplorationPoolFull'
    BY <2>1, <2>2, RandomStep, PopularStep, ExactStep, OracleStep DEF Requested, ExplorationPoolFull
  <2>3. CASE UNCHANGED vars
    BY <2>3 DEF vars, ExplorationPoolFull, FreshPool, Reels
  <2>4. CASE Consume \/ AppendReels \/ Tick
    BY <2>4, Forgotten DEF ExplorationPoolFull
  <2> QED
    BY <2>2, <2>3, <2>4 DEF Next, Requested
<1> QED
  BY <1>1, <1>2, TypeCorrect, PTL DEF Spec

\* Before the enable day the stream of a run is the stream of a run with epsilon
\* 0, for any arm, budgets and day.
THEOREM StreamAlignedCorrect == Spec => []StreamAligned
<1>1. Init => StreamAligned
  BY DEF Init, NoRequest, StreamAligned, Explores, Graph
<1>2. CatalogueInv /\ StreamAligned /\ [Next]_vars => StreamAligned'
  <2> SUFFICES ASSUME CatalogueInv, StreamAligned, [Next]_vars PROVE StreamAligned'
    OBVIOUS
  <2>1. draws \in Nat /\ zeroDraws \in Nat /\ now \in Nat /\ EnableAtDay \in Int
    BY CatalogueAssumption DEF CatalogueInv, TypeOK
  <2>2. ASSUME NEW u \in Users, RecommendOrchestrated(u) PROVE StreamAligned'
    <3>1. /\ Kept /\ draws' \in Nat /\ zeroDraws' \in Nat
          /\ draws' - draws >= zeroDraws' - zeroDraws
          /\ ~explore => draws' = draws
          /\ \/ asked'.explored = {} /\ draws' - draws = zeroDraws' - zeroDraws
             \/ CanFire
      BY <2>2, OrchestratedStep
    <3>2. CanFire => ~(now < EnableAtDay)
      BY <2>1 DEF CanFire
    <3>3. now < EnableAtDay => draws' - draws = zeroDraws' - zeroDraws /\ asked'.explored = {}
      BY <3>1, <3>2
    <3>4. draws \in Int /\ zeroDraws \in Int /\ draws' \in Int /\ zeroDraws' \in Int
      BY <2>1, <3>1
    <3>5. PICK a \in Int, b \in Int, c \in Int, d \in Int :
            a = draws /\ b = zeroDraws /\ c = draws' /\ d = zeroDraws'
      BY <3>4
    <3>6. c - a >= d - b /\ b <= a
      BY <3>1, <3>5 DEF StreamAligned
    <3>7. d <= c /\ (c - a = d - b /\ a = b => c = d)
      BY <3>6
    <3>8. zeroDraws' <= draws' /\ (draws' - draws = zeroDraws' - zeroDraws /\ draws = zeroDraws
                                 => draws' = zeroDraws')
      BY <3>5, <3>7
    <3>9. arm' = arm /\ explore' = explore /\ now' = now
      BY <3>1 DEF Kept
    <3> QED
      BY <3>1, <3>3, <3>8, <3>9 DEF StreamAligned, Explores, Graph
  <2>3. ASSUME NEW u \in Users, RecommendRandom(u) PROVE StreamAligned'
    <3>1. /\ Kept /\ arm = "random" /\ draws' \in Nat /\ zeroDraws' \in Nat
          /\ draws' - draws = zeroDraws' - zeroDraws
      BY <2>3, RandomStep
    <3> QED
      BY <2>1, <3>1 DEF StreamAligned, Kept, Explores, Graph
  <2>4. ASSUME NEW u \in Users, Requested(u) PROVE StreamAligned'
    <3>1. CASE RecommendPopular(u)
      BY <3>1, <2>1, PopularStep DEF StreamAligned, Kept, Explores, Graph
    <3>2. CASE RecommendExact(u)
      BY <3>2, <2>1, ExactStep DEF StreamAligned, Kept, Explores, Graph
    <3>3. CASE RecommendOracle(u)
      BY <3>3, <2>1, OracleStep DEF StreamAligned, Kept, Explores, Graph
    <3> QED
      BY <2>4, <2>2, <2>3, <3>1, <3>2, <3>3 DEF Requested
  <2>5. CASE UNCHANGED vars
    BY <2>5 DEF vars, StreamAligned, Explores, Graph
  <2>6. CASE Consume \/ AppendReels \/ Tick
    <3>1. now' = now \/ now' = now + 1
      BY <2>6 DEF Consume, AppendReels, Tick
    <3> QED
      BY <2>1, <2>6, <3>1, Forgotten DEF StreamAligned, Explores, Graph
  <2> QED
    BY <2>4, <2>5, <2>6 DEF Next, Requested
<1> QED
  BY <1>1, <1>2, TypeCorrect, PTL DEF Spec

\* A feed over the graph is short only when the graph found less than asked, the
\* user has mined out what it found or the catalogue, or the caps of the request
\* shut out the rest of the pool: for any search results, ranking and caps.
THEOREM StarvedCorrect == Spec => []StarvedForCause
<1>1. Init => StarvedForCause
  BY DEF Init, NoRequest, StarvedForCause, Answered
<1>2. CatalogueInv /\ StarvedForCause /\ [Next]_vars => StarvedForCause'
  <2> SUFFICES ASSUME CatalogueInv, StarvedForCause, [Next]_vars
               PROVE  StarvedForCause'
    OBVIOUS
  <2>1. ASSUME NEW u \in Users, RecommendOracle(u) \/ RecommendOrchestrated(u)
        PROVE  StarvedForCause'
    <3>1. /\ Kept
          /\ Len(asked'.feed) < FeedSize =>
              \/ asked'.missed > 0
              \/ Cardinality(seen[asked'.user]) > CandidateLimit - FeedSize
              \/ Cardinality(Unseen(asked'.user)) < FeedSize
              \/ LeftOut(asked'.pool, Range(asked'.feed), asked'.caps)
      BY <2>1, OracleStep, OrchestratedStep
    <3>2. Cardinality(seen[asked'.user]) = Cardinality(seen[asked.user])'
          /\ Cardinality(Unseen(asked'.user)) = Cardinality(Unseen(asked.user))'
      BY <3>1 DEF Kept, Unseen, Reels
    <3>3. LeftOut(asked'.pool, Range(asked'.feed), asked'.caps) => ShutOut'
      BY <3>1 DEF Kept, LeftOut, ShutOut, Diverse, Capped
    <3> QED
      BY <3>1, <3>2, <3>3 DEF StarvedForCause
  <2>2. ASSUME NEW u \in Users, RecommendRandom(u) \/ RecommendPopular(u) \/ RecommendExact(u)
        PROVE  StarvedForCause'
    BY <2>2, RandomStep, PopularStep, ExactStep DEF StarvedForCause, Kept, Graph
  <2>3. CASE UNCHANGED vars
    BY <2>3 DEF vars, userVars, StarvedForCause, Answered, Graph, Unseen, Reels,
                ShutOut, Diverse, Capped
  <2>4. CASE Consume \/ AppendReels \/ Tick
    BY <2>4, Forgotten DEF StarvedForCause, Answered
  <2> QED
    BY <2>1, <2>2, <2>3, <2>4 DEF Next
<1> QED
  BY <1>1, <1>2, TypeCorrect, PTL DEF Spec
==============================================================================
