-------------------------- MODULE FeedPipelineProofs --------------------------
(***************************************************************************)
(* Theorems about FeedPipeline for every catalogue, source list, feed size,*)
(* pool cap and set of diversity caps.                                     *)
(***************************************************************************)
EXTENDS FeedPipeline, SequenceTheorems, FiniteSetTheorems,
        WellFoundedInduction, TLAPS

USE DEF requestVars, retrieveVars, rankVars, feedVars

(* Helpers *)

\* An arrangement of a finite set is a sequence of its elements, none twice,
\* of the set's size.
LEMMA Arrangements ==
  ASSUME NEW S, IsFiniteSet(S), NEW f \in SetToSeqs(S)
  PROVE  /\ f \in Seq(S) /\ Len(f) = Cardinality(S)
         /\ DOMAIN f = 1..Cardinality(S)
         /\ IsInjective(f) /\ Range(f) \subseteq S
<1>1. Cardinality(S) \in Nat
  BY FS_CardinalityType
<1>2. f \in [1..Cardinality(S) -> S]
      /\ \A i, j \in 1..Cardinality(S) : i # j => f[i] # f[j]
  BY DEF SetToSeqs
<1>3. DOMAIN f = 1..Cardinality(S)
  BY <1>2
<1>4. f \in Seq(S) /\ Len(f) = Cardinality(S)
  BY <1>1, <1>2
<1>5. IsInjective(f)
  BY <1>2, <1>3 DEF IsInjective
<1>6. Range(f) \subseteq S
  BY <1>2, <1>3 DEF Range
<1> QED
  BY <1>3, <1>4, <1>5, <1>6

\* A prefix holds elements of its sequence, at their places.
LEMMA PrefixRange ==
  ASSUME NEW S, NEW f \in Seq(S), NEW n \in 0..Len(f)
  PROVE  /\ SubSeq(f, 1, n) \in Seq(S) /\ Len(SubSeq(f, 1, n)) = n
         /\ \A i \in 1..n : SubSeq(f, 1, n)[i] = f[i]
         /\ Range(SubSeq(f, 1, n)) \subseteq Range(f)
<1>1. Len(f) \in Nat /\ DOMAIN f = 1..Len(f) /\ \A i \in 1..n : f[i] \in S
  BY LenProperties, ElementOfSeq
<1>2. SubSeq(f, 1, n) \in Seq(S) /\ Len(SubSeq(f, 1, n)) = n
  BY <1>1, SubSeqProperties
<1>3. \A i \in 1..n : SubSeq(f, 1, n)[i] = f[i]
  BY <1>1, <1>2
<1>4. DOMAIN SubSeq(f, 1, n) = 1..n
  BY <1>2, LenProperties
<1>5. Range(SubSeq(f, 1, n)) \subseteq Range(f)
  BY <1>1, <1>3, <1>4 DEF Range
<1> QED
  BY <1>2, <1>3, <1>5

\* Exchanging two places permutes a sequence: same elements, none twice.
LEMMA SwapKeeps ==
  ASSUME NEW S, feed \in Seq(S), NEW j \in DOMAIN feed, cursor + 1 \in DOMAIN feed
  PROVE  /\ Exchanged(j) \in Seq(S) /\ Len(Exchanged(j)) = Len(feed)
         /\ DOMAIN Exchanged(j) = DOMAIN feed
         /\ \A i \in DOMAIN feed :
              Exchanged(j)[i] = IF i = j THEN feed[cursor + 1]
                                ELSE IF i = cursor + 1 THEN feed[j] ELSE feed[i]
         /\ Range(Exchanged(j)) = Range(feed)
         /\ IsInjective(feed) => IsInjective(Exchanged(j))
<1>1. DOMAIN feed = 1..Len(feed) /\ Len(feed) \in Nat /\ \A i \in DOMAIN feed : feed[i] \in S
  BY LenProperties, ElementOfSeq
<1>2. DOMAIN Exchanged(j) = DOMAIN feed
  BY DEF Exchanged
<1>3. \A i \in DOMAIN feed :
        Exchanged(j)[i] = IF i = j THEN feed[cursor + 1]
                          ELSE IF i = cursor + 1 THEN feed[j] ELSE feed[i]
  BY DEF Exchanged
<1>4. Exchanged(j) \in [1..Len(feed) -> S]
  <2>1. \A i \in DOMAIN feed : Exchanged(j)[i] \in S
    BY <1>1, <1>3
  <2>2. Exchanged(j) = [i \in DOMAIN feed |-> Exchanged(j)[i]]
    BY DEF Exchanged
  <2> QED
    BY <1>1, <2>1, <2>2
<1>5. Exchanged(j) \in Seq(S) /\ Len(Exchanged(j)) = Len(feed)
  BY <1>1, <1>4
<1> DEFINE g == Exchanged(j)
<1> HIDE DEF g
<1>6. Range(g) = Range(feed)
  <2>1. ASSUME NEW i \in DOMAIN feed PROVE g[i] \in Range(feed)
    BY <1>3 DEF Range, g
  <2>2. ASSUME NEW i \in DOMAIN feed PROVE \E k \in DOMAIN feed : g[k] = feed[i]
    <3>1. CASE i = cursor + 1
      BY <1>3, <3>1 DEF g
    <3>2. CASE i = j
      BY <1>3, <3>2 DEF g
    <3>3. CASE i # j /\ i # cursor + 1
      BY <1>3, <3>3 DEF g
    <3> QED
      BY <3>1, <3>2, <3>3
  <2>3. DOMAIN g = DOMAIN feed
    BY <1>2 DEF g
  <2> QED
    BY <2>1, <2>2, <2>3 DEF Range
<1>7. IsInjective(feed) => IsInjective(g)
  BY <1>2, <1>3 DEF IsInjective, g
<1> QED
  BY <1>2, <1>3, <1>5, <1>6, <1>7 DEF g

\* Rounding and the caps yield natural numbers.
LEMMA CapsTyped ==
  {FixedCaps} \cup PersonalCaps \subseteq [creator : Nat, topic : [Topics -> Nat]]
<1>1. \A x \in Nat : Tenths(x) \in Nat
  BY DEF Tenths
<1>2. \A n \in Nat : TopicCap(n) \in Nat
  BY RequestAssumption DEF TopicCap
<1>3. \A b, s \in Nat : EffectiveCap(b, s) \in Nat
  <2> TAKE b, s \in Nat
  <2>1. b * s \in Nat
    OBVIOUS
  <2>2. Tenths(b * s) \in Nat
    BY <1>1, <2>1
  <2> QED
    BY <2>2, RequestAssumption DEF EffectiveCap, Lower
<1>4. FixedCaps \in [creator : Nat, topic : [Topics -> Nat]]
  BY <1>2, RequestAssumption DEF FixedCaps
<1>5. ASSUME NEW s \in CapScales \X CapScales, NEW fatigue \in [Topics -> Fatigues], NEW t \in Topics
      PROVE  LET reduced == Tenths(TopicCap(EffectiveCap(MaxPerTopic, s[1])) * (10 - fatigue[t]))
             IN (IF reduced < 1 THEN 1 ELSE reduced) \in Nat
  <2> DEFINE cap == TopicCap(EffectiveCap(MaxPerTopic, s[1]))
  <2>1. s[1] \in Nat
    BY RequestAssumption
  <2>2. EffectiveCap(MaxPerTopic, s[1]) \in Nat
    BY <1>3, <2>1, RequestAssumption
  <2>3. cap \in Nat
    BY <1>2, <2>2
  <2>4. fatigue[t] \in 0..10
    BY RequestAssumption
  <2> HIDE DEF cap
  <2>5. cap * (10 - fatigue[t]) \in Nat
    <3>1. 10 - fatigue[t] \in Nat
      BY <2>4
    <3> QED
      BY <2>3, <3>1
  <2>6. Tenths(cap * (10 - fatigue[t])) \in Nat
    BY <1>1, <2>5
  <2> QED
    BY <2>6 DEF cap
<1>6. PersonalCaps \subseteq [creator : Nat, topic : [Topics -> Nat]]
  <2> SUFFICES ASSUME NEW s \in CapScales \X CapScales, NEW fatigue \in [Topics -> Fatigues]
               PROVE  [creator |-> EffectiveCap(MaxPerCreator, s[2]),
                       topic |-> [t \in Topics |->
                         LET reduced == Tenths(TopicCap(EffectiveCap(MaxPerTopic, s[1]))
                                                 * (10 - fatigue[t]))
                         IN IF reduced < 1 THEN 1 ELSE reduced]]
                      \in [creator : Nat, topic : [Topics -> Nat]]
    BY DEF PersonalCaps
  <2>1. EffectiveCap(MaxPerCreator, s[2]) \in Nat
    BY <1>3, RequestAssumption
  <2> QED
    BY <1>5, <2>1
<1> QED
  BY <1>4, <1>6
------------------------------------------------------------------------------
(* Types *)

\* A step keeps every type.
LEMMA TypeStep ==
  ASSUME TypeOK, [Next]_vars PROVE TypeOK'
<1> USE DEF TypeOK
<1>1. CASE Request
  <2>1. caps' \in [creator : Nat, topic : [Topics -> Nat]]
    BY <1>1, CapsTyped DEF Request
  <2> QED
    BY <1>1, <2>1 DEF Request
<1>2. CASE Retrieve
  <2> DEFINE s == Sources[turn]
  <2>a. PICK reels \in SUBSET Reels :
          \E found \in [reels -> Similarities] : pool' = Merge(pool, s, found)
    BY <1>2 DEF Retrieve
  <2>1. PICK found \in [reels -> Similarities] : pool' = Merge(pool, s, found)
    BY <2>a
  <2>2. s \in Range(Sources)
    BY <1>2, RequestAssumption DEF Retrieve, Range
  <2> HIDE DEF s
  <2>3. DOMAIN pool' = DOMAIN pool \cup reels
    BY <2>1 DEF Merge
  <2>4. ASSUME NEW r \in DOMAIN pool' PROVE pool'[r] \in PoolEntries
    <3>1. CASE r \notin reels
      BY <2>1, <2>3, <3>1 DEF Merge
    <3>2. CASE r \in reels /\ r \notin DOMAIN pool
      <4>1. pool'[r] = [similarity |-> found[r], sources |-> {s}]
        BY <2>1, <2>3, <3>2 DEF Merge
      <4> QED
        BY <2>2, <3>2, <4>1 DEF PoolEntries
    <3>3. CASE r \in reels /\ r \in DOMAIN pool
      <4>1. pool'[r] = [similarity |-> IF found[r] > pool[r].similarity THEN found[r]
                                       ELSE pool[r].similarity,
                        sources |-> pool[r].sources \cup {s}]
        BY <2>1, <2>3, <3>3 DEF Merge
      <4> QED
        BY <2>2, <3>3, <4>1 DEF PoolEntries
    <3> QED
      BY <3>1, <3>2, <3>3
  <2>5. fired' \in 0..FeedSize /\ turn' \in Nat \ {0}
    BY <1>2, RequestAssumption DEF Retrieve
  <2>6. UNCHANGED <<stage, requestVars, seen, rankVars, feedVars, cursor>>
    BY <1>2 DEF Retrieve
  <2>7. DOMAIN pool' \subseteq Reels /\ \A r \in DOMAIN pool' : pool'[r] \in PoolEntries
    BY <2>3, <2>4
  <2>8. PoolEntries' = PoolEntries /\ Topics' = Topics
    BY DEF PoolEntries, Topics
  <2> QED
    BY <2>5, <2>6, <2>7, <2>8
<1>3. CASE RetrieveEnd
  BY <1>3 DEF RetrieveEnd
<1>4. CASE Filter
  BY <1>4 DEF Filter
<1>5. CASE Cap
  BY <1>5 DEF Cap
<1>6. CASE Rank
  <2>1. IsFiniteSet(DOMAIN pool)
    BY CatalogueAssumption, FS_Subset
  <2>2. ranked' \in SetToSeqs(DOMAIN pool) /\ stage' \in {"truncate", "guarantee"}
        /\ UNCHANGED <<requestVars, seen, retrieveVars, pool, feedVars, cursor>>
    BY <1>6 DEF Rank
  <2>3. ranked' \in Seq(DOMAIN pool)
    BY <2>1, <2>2, Arrangements
  <2>4. ranked' \in Seq(Reels)
    BY <2>3, SeqMonotonic
  <2> QED
    BY <2>2, <2>4
<1>7. CASE Guarantee
  <2>1. ranked' \in Seq(Reels)
    <3>1. CASE ranked' = ranked
      BY <3>1
    <3>2. CASE \E from \in SetToSeqs(DOMAIN ranked) :
                 ranked' = [i \in DOMAIN from |-> ranked[from[i]]]
      <4>1. PICK from \in SetToSeqs(DOMAIN ranked) :
              ranked' = [i \in DOMAIN from |-> ranked[from[i]]]
        BY <3>2
      <4>2. DOMAIN ranked = 1..Len(ranked) /\ Len(ranked) \in Nat
            /\ IsFiniteSet(1..Len(ranked))
        BY LenProperties, FS_Interval
      <4>3. from \in Seq(DOMAIN ranked) /\ DOMAIN from = 1..Len(from) /\ Len(from) \in Nat
        BY <4>1, <4>2, Arrangements, LenProperties
      <4>4. \A i \in DOMAIN from : ranked[from[i]] \in Reels
        BY <4>2, <4>3, ElementOfSeq
      <4>5. ranked' \in [1..Len(from) -> Reels]
        BY <4>1, <4>3, <4>4
      <4> QED
        BY <4>3, <4>5
    <3> QED
      BY <1>7, <3>1, <3>2 DEF Guarantee
  <2> QED
    BY <1>7, <2>1 DEF Guarantee
<1>8. CASE Truncate
  <2>1. Lower(FeedSize, Len(ranked)) \in 0..Len(ranked) /\ Len(ranked) \in Nat
    BY RequestAssumption, LenProperties DEF Lower
  <2>2. feed' = SubSeq(ranked, 1, Lower(FeedSize, Len(ranked)))
    BY <1>8 DEF Truncate
  <2>3. \A i \in 1..Lower(FeedSize, Len(ranked)) : ranked[i] \in Reels
    BY <2>1, ElementOfSeq
  <2>4. feed' \in Seq(Reels)
    BY <2>1, <2>2, <2>3, SubSeqProperties
  <2> QED
    BY <1>8, <2>4 DEF Truncate
<1>9. CASE Admit
  <2>1. ranked[cursor] \in Reels
    BY <1>9, LenProperties, ElementOfSeq DEF Admit, Walking
  <2>2. feed' \in Seq(Reels) /\ chosen' \subseteq Reels
    BY <1>9, <2>1 DEF Admit
  <2> QED
    BY <1>9, <2>2 DEF Admit
<1>10. CASE Skip
  BY <1>10 DEF Skip, SkipTo
<1>11. CASE SelectEnd
  BY <1>11 DEF SelectEnd
<1>12. CASE ArrangeMmr
  <2>1. IsFiniteSet(chosen)
    BY CatalogueAssumption, FS_Subset
  <2>2. feed' \in Seq(chosen)
    BY <1>12, <2>1, Arrangements DEF ArrangeMmr
  <2>3. feed' \in Seq(Reels)
    BY <2>2, SeqMonotonic
  <2> QED
    BY <1>12, <2>3 DEF ArrangeMmr
<1>13. CASE SwapPass
  <2>1. feed' \in Seq(Reels)
    <3>1. CASE feed' = feed
      BY <3>1
    <3>2. CASE \E j \in Different : feed' = Exchanged(j)
      BY <1>13, <3>2, SwapKeeps DEF SwapPass, Different
    <3> QED
      BY <1>13, <3>1, <3>2 DEF SwapPass
  <2> QED
    BY <1>13, <2>1 DEF SwapPass
<1>14. CASE ArrangeEnd
  BY <1>14 DEF ArrangeEnd
<1>15. CASE Consume
  <2>1. PICK n \in 0..Len(feed) : seen' = seen \cup Range(SubSeq(feed, 1, n))
    BY <1>15 DEF Consume
  <2>2. Range(SubSeq(feed, 1, n)) \subseteq Range(feed)
    BY PrefixRange
  <2>3. Range(feed) \subseteq Reels
    BY LenProperties, ElementOfSeq DEF Range
  <2> QED
    BY <1>15, <2>1, <2>2, <2>3 DEF Consume
<1>16. CASE UNCHANGED vars
  BY <1>16 DEF vars
<1> QED
  BY <1>1, <1>2, <1>3, <1>4, <1>5, <1>6, <1>7, <1>8, <1>9, <1>10, <1>11, <1>12,
     <1>13, <1>14, <1>15, <1>16 DEF Next, Recommend

\* Type correctness: the inputs of every stage have the shape its code expects.
THEOREM TypeCorrect == Spec => []TypeOK
<1>1. Init => TypeOK
  <2>1. FixedCaps \in [creator : Nat, topic : [Topics -> Nat]]
    BY CapsTyped
  <2> SUFFICES ASSUME Init PROVE TypeOK
    OBVIOUS
  <2>2. DOMAIN pool = {} /\ ranked \in Seq(Reels) /\ feed \in Seq(Reels)
    BY DEF Init
  <2>3. /\ turn \in Nat \ {0} /\ fired \in 0..FeedSize /\ cursor \in Nat \ {0}
        /\ caps = FixedCaps /\ seen = {} /\ chosen = {}
        /\ path = "identity" /\ stage = "idle" /\ explore = FALSE
    BY RequestAssumption DEF Init
  <2> QED
    BY <2>1, <2>2, <2>3 DEF TypeOK
<1>2. TypeOK /\ [Next]_vars => TypeOK'
  BY TypeStep
<1> QED
  BY <1>1, <1>2, PTL DEF Spec
------------------------------------------------------------------------------
(* The shape of the feed *)

\* Until a walk or a cut begins the feed is empty, and the walk and the
\* arrangement belong to the diverse way out.
Ways ==
  /\ stage \in {"retrieve", "filter", "cap", "rank", "guarantee", "truncate"} =>
       feed = <<>> /\ chosen = {}
  /\ stage \in {"select", "arrange"} => path = "diverse"
  /\ stage = "truncate" => path # "diverse"

\* What is left in the pool after the filter may be served.
PoolServable ==
  stage \in {"cap", "rank", "guarantee", "truncate", "select", "arrange", "done"} =>
    DOMAIN pool \subseteq Servable \ seen

\* The ranked pool holds reels of the pool, none twice.
RankedFromPool ==
  stage \in {"guarantee", "truncate", "select"} =>
    IsInjective(ranked) /\ Range(ranked) \subseteq DOMAIN pool

\* So does the feed, and it is no longer than asked.
FeedFromPool ==
  /\ IsInjective(feed) /\ Len(feed) <= FeedSize
  /\ stage \in {"select", "arrange", "done"} => Range(feed) \subseteq DOMAIN pool

\* The walk's set of admitted reels is what the feed holds.
ChosenIsFeed ==
  path = "diverse" =>
    /\ Range(feed) \subseteq chosen
    /\ stage \in {"select", "arrange"} => chosen = Range(feed) /\ Cardinality(chosen) = Len(feed)

Shape == Ways /\ PoolServable /\ RankedFromPool /\ FeedFromPool /\ ChosenIsFeed

\* Nothing of the request has been built yet.
LEMMA EmptyFeed ==
  /\ IsInjective(<<>>) /\ Range(<<>>) = {} /\ Len(<<>>) = 0 /\ Cardinality({}) = 0
BY FS_EmptySet DEF IsInjective, Range

\* The cut keeps the prefix of the ranked pool.
LEMMA TruncateShape ==
  ASSUME TypeOK, Shape, Truncate PROVE Shape'
<1> DEFINE n == Lower(FeedSize, Len(ranked))
<1>1. n \in 0..Len(ranked) /\ n <= FeedSize /\ Len(ranked) \in Nat
  BY RequestAssumption, LenProperties DEF TypeOK, Lower
<1>2. feed' = SubSeq(ranked, 1, n) /\ stage = "truncate" /\ stage' = "done"
      /\ UNCHANGED <<pool, path, ranked, seen, chosen>>
  BY DEF Truncate
<1> HIDE DEF n
<1>3. ranked \in Seq(Reels)
  BY DEF TypeOK
<1>4. /\ feed' \in Seq(Reels) /\ Len(feed') = n /\ Range(feed') \subseteq Range(ranked)
      /\ \A i \in 1..n : feed'[i] = ranked[i]
  BY <1>1, <1>2, <1>3, PrefixRange
<1>5. DOMAIN feed' = 1..n /\ DOMAIN ranked = 1..Len(ranked)
  BY <1>3, <1>4, LenProperties
<1>6. IsInjective(ranked) /\ Range(ranked) \subseteq DOMAIN pool
  BY <1>2 DEF Shape, RankedFromPool
<1>7. IsInjective(feed')
  BY <1>1, <1>4, <1>5, <1>6 DEF IsInjective
<1>8. FeedFromPool'
  BY <1>1, <1>2, <1>4, <1>6, <1>7 DEF FeedFromPool
<1>9. path # "diverse"
  BY <1>2 DEF Shape, Ways
<1> QED
  BY <1>2, <1>8, <1>9 DEF Shape, Ways, PoolServable, RankedFromPool, ChosenIsFeed

\* An admitted reel is new to the feed and in the pool.
LEMMA AdmitShape ==
  ASSUME TypeOK, Shape, Admit PROVE Shape'
<1> DEFINE r == ranked[cursor]
<1>1. /\ stage = "select" /\ cursor \in 1..Len(ranked) /\ Len(feed) < FeedSize /\ path = "diverse"
      /\ feed' = Append(feed, r) /\ chosen' = chosen \cup {r} /\ r \notin chosen
      /\ UNCHANGED <<stage, path, seen, pool, ranked>>
  BY LenProperties DEF Admit, Walking, Admissible, TypeOK, Shape, Ways
<1>2. ranked \in Seq(Reels) /\ feed \in Seq(Reels) /\ chosen \subseteq Reels
  BY DEF TypeOK
<1>3. r \in Range(ranked)
  BY <1>1, <1>2, LenProperties DEF Range
<1>4. r \in DOMAIN pool /\ r \in Reels
  BY <1>1, <1>3 DEF Shape, RankedFromPool, TypeOK
<1>5. chosen = Range(feed) /\ Cardinality(chosen) = Len(feed) /\ r \notin Range(feed)
  BY <1>1 DEF Shape, ChosenIsFeed
<1> HIDE DEF r
<1>6. /\ Len(feed) \in Nat /\ Len(feed') = Len(feed) + 1 /\ DOMAIN feed = 1..Len(feed)
      /\ DOMAIN feed' = 1..Len(feed) + 1
      /\ \A i \in 1..Len(feed) : feed'[i] = feed[i]
      /\ feed'[Len(feed) + 1] = r
  BY <1>1, <1>2, <1>4
<1>7. Range(feed') = Range(feed) \cup {r}
  BY <1>6 DEF Range
<1>8. IsInjective(feed')
  <2>1. IsInjective(feed)
    BY DEF Shape, FeedFromPool
  <2>2. \A i \in 1..Len(feed) : feed[i] # r
    BY <1>5, <1>6 DEF Range
  <2> QED
    BY <1>6, <2>1, <2>2 DEF IsInjective
<1>9. Cardinality(chosen') = Cardinality(chosen) + 1
  BY <1>1, <1>2, CatalogueAssumption, FS_Subset, FS_AddElement
<1>10. FeedFromPool'
  BY <1>1, <1>4, <1>6, <1>7, <1>8, RequestAssumption DEF FeedFromPool, Shape
<1>11. ChosenIsFeed'
  BY <1>1, <1>5, <1>6, <1>7, <1>9 DEF ChosenIsFeed
<1> QED
  BY <1>1, <1>10, <1>11 DEF Shape, Ways, PoolServable, RankedFromPool

\* The promotion only permutes the ranked pool.
LEMMA GuaranteeShape ==
  ASSUME TypeOK, Shape, Guarantee PROVE Shape'
<1>1. /\ stage = "guarantee" /\ stage' = IF path = "diverse" THEN "select" ELSE "truncate"
      /\ UNCHANGED <<path, seen, pool, chosen, feed>>
  BY DEF Guarantee
<1>2. ranked \in Seq(Reels) /\ IsInjective(ranked) /\ Range(ranked) \subseteq DOMAIN pool
  BY <1>1 DEF TypeOK, Shape, RankedFromPool
<1>3. IsInjective(ranked') /\ Range(ranked') \subseteq DOMAIN pool
  <2>1. CASE ranked' = ranked
    BY <1>2, <2>1
  <2>2. CASE \E from \in SetToSeqs(DOMAIN ranked) :
               ranked' = [i \in DOMAIN from |-> ranked[from[i]]]
    <3>1. PICK from \in SetToSeqs(DOMAIN ranked) :
            ranked' = [i \in DOMAIN from |-> ranked[from[i]]]
      BY <2>2
    <3>2. IsFiniteSet(DOMAIN ranked)
      BY <1>2, LenProperties, FS_Interval
    <3>3. IsInjective(from) /\ Range(from) \subseteq DOMAIN ranked
      BY <3>1, <3>2, Arrangements
    <3>4. \A i \in DOMAIN from : from[i] \in DOMAIN ranked
      BY <3>3 DEF Range
    <3>5. IsInjective(ranked')
      BY <1>2, <3>1, <3>3, <3>4 DEF IsInjective
    <3>6. Range(ranked') \subseteq Range(ranked)
      BY <3>1, <3>4 DEF Range
    <3> QED
      BY <1>2, <3>5, <3>6
  <2> QED
    BY <2>1, <2>2 DEF Guarantee
<1>4. feed = <<>> /\ chosen = {}
  BY <1>1 DEF Shape, Ways
<1>5. FeedFromPool' /\ ChosenIsFeed'
  BY <1>1, <1>4, EmptyFeed, RequestAssumption DEF FeedFromPool, ChosenIsFeed
<1> QED
  BY <1>1, <1>3, <1>4, <1>5 DEF Shape, Ways, PoolServable, RankedFromPool

\* A step of any other kind keeps the shape as well.
LEMMA ShapeStep ==
  ASSUME TypeOK, Shape, [Next]_vars PROVE Shape'
<1>1. CASE Request
  <2>1. feed' = <<>> /\ chosen' = {} /\ stage' = "retrieve"
    BY <1>1 DEF Request
  <2> QED
    BY <2>1, EmptyFeed, RequestAssumption
       DEF Shape, Ways, PoolServable, RankedFromPool, FeedFromPool, ChosenIsFeed
<1>2. CASE Retrieve \/ RetrieveEnd
  <2>1. /\ stage = "retrieve" /\ stage' \in {"retrieve", "filter"}
        /\ UNCHANGED <<path, chosen, feed>>
    BY <1>2 DEF Retrieve, RetrieveEnd
  <2> QED
    BY <2>1, EmptyFeed DEF Shape, Ways, PoolServable, RankedFromPool, FeedFromPool, ChosenIsFeed
<1>3. CASE Filter
  <2>1. /\ stage = "filter" /\ stage' = "cap" /\ UNCHANGED <<path, chosen, feed, seen>>
        /\ DOMAIN pool' \subseteq Servable \ seen
    BY <1>3 DEF Filter, Eligible
  <2> QED
    BY <2>1 DEF Shape, Ways, PoolServable, RankedFromPool, FeedFromPool, ChosenIsFeed
<1>4. CASE Cap
  <2>1. /\ stage = "cap" /\ stage' = "rank" /\ UNCHANGED <<path, chosen, feed, seen>>
        /\ DOMAIN pool' \subseteq DOMAIN pool
    BY <1>4 DEF Cap
  <2> QED
    BY <2>1 DEF Shape, Ways, PoolServable, RankedFromPool, FeedFromPool, ChosenIsFeed
<1>5. CASE Rank
  <2>1. /\ stage = "rank" /\ stage' = IF path = "identity" THEN "truncate" ELSE "guarantee"
        /\ UNCHANGED <<path, chosen, feed, seen, pool>>
        /\ ranked' \in SetToSeqs(DOMAIN pool)
    BY <1>5 DEF Rank
  <2>2. IsFiniteSet(DOMAIN pool)
    BY CatalogueAssumption, FS_Subset DEF TypeOK
  <2>3. IsInjective(ranked') /\ Range(ranked') \subseteq DOMAIN pool
    BY <2>1, <2>2, Arrangements
  <2> QED
    BY <2>1, <2>3 DEF Shape, Ways, PoolServable, RankedFromPool, FeedFromPool, ChosenIsFeed
<1>6. CASE Skip \/ SelectEnd \/ ArrangeEnd
  <2>1. /\ \/ stage = "select" /\ stage' \in {"select", "arrange"}
           \/ stage = "arrange" /\ stage' = "done"
        /\ UNCHANGED <<path, chosen, feed, seen, pool, ranked>>
    BY <1>6 DEF Skip, SelectEnd, ArrangeEnd, Walking
  <2> QED
    BY <2>1 DEF Shape, Ways, PoolServable, RankedFromPool, FeedFromPool, ChosenIsFeed
<1>7. CASE ArrangeMmr
  <2>1. /\ stage = "arrange" /\ stage' = "done" /\ feed' \in SetToSeqs(chosen)
        /\ UNCHANGED <<path, chosen, seen, pool, ranked>>
    BY <1>7 DEF ArrangeMmr
  <2>2. IsFiniteSet(chosen)
    BY CatalogueAssumption, FS_Subset DEF TypeOK
  <2>3. IsInjective(feed') /\ Range(feed') \subseteq chosen /\ Len(feed') = Cardinality(chosen)
    BY <2>1, <2>2, Arrangements
  <2>4. chosen = Range(feed) /\ Cardinality(chosen) = Len(feed)
    BY <2>1 DEF Shape, ChosenIsFeed, Ways
  <2> QED
    BY <2>1, <2>3, <2>4 DEF Shape, Ways, PoolServable, RankedFromPool, FeedFromPool, ChosenIsFeed
<1>8. CASE SwapPass
  <2>1. /\ stage = "arrange" /\ cursor + 1 <= Len(feed)
        /\ UNCHANGED <<stage, path, chosen, seen, pool, ranked>>
        /\ feed' = feed \/ \E j \in Different : feed' = Exchanged(j)
    BY <1>8 DEF SwapPass
  <2>2. feed \in Seq(Reels) /\ cursor \in Nat \ {0} /\ cursor + 1 \in DOMAIN feed
    BY <2>1, LenProperties DEF TypeOK
  <2>3. IsInjective(feed') /\ Range(feed') = Range(feed) /\ Len(feed') = Len(feed)
    <3>1. CASE feed' = feed
      BY <3>1 DEF Shape, FeedFromPool
    <3>2. CASE \E j \in Different : feed' = Exchanged(j)
      BY <2>2, <3>2, SwapKeeps DEF Different, Shape, FeedFromPool
    <3> QED
      BY <2>1, <3>1, <3>2
  <2> QED
    BY <2>1, <2>3 DEF Shape, Ways, PoolServable, RankedFromPool, FeedFromPool, ChosenIsFeed
<1>9. CASE Consume
  <2>1. stage' = "idle" /\ UNCHANGED <<path, chosen, feed>>
    BY <1>9 DEF Consume
  <2> QED
    BY <2>1 DEF Shape, Ways, PoolServable, RankedFromPool, FeedFromPool, ChosenIsFeed
<1>10. CASE UNCHANGED vars
  BY <1>10 DEF vars, Shape, Ways, PoolServable, RankedFromPool, FeedFromPool, ChosenIsFeed
<1> QED
  BY <1>1, <1>2, <1>3, <1>4, <1>5, <1>6, <1>7, <1>8, <1>9, <1>10,
     TruncateShape, AdmitShape, GuaranteeShape DEF Next, Recommend

\* The invariant the remaining theorems rest on.
THEOREM ShapeInvariant == Spec => [](TypeOK /\ Shape)
<1>1. Init => Shape
  BY EmptyFeed, RequestAssumption
     DEF Init, Shape, Ways, PoolServable, RankedFromPool, FeedFromPool, ChosenIsFeed
<1>2. TypeOK /\ Shape /\ [Next]_vars => Shape'
  BY ShapeStep
<1> QED
  BY <1>1, <1>2, TypeCorrect, PTL DEF Spec
------------------------------------------------------------------------------
(* Diversity caps *)

\* What the walk has admitted is within every cap.
ChosenWithinCaps ==
  path = "diverse" =>
    \A r \in Reels :
      /\ Cardinality(OfCreator(Creator[r], chosen)) <= caps.creator
      /\ Cardinality(OfTopic(Topic[r], chosen)) <= caps.topic[Topic[r]]

\* An admitted reel adds one to its own creator and topic, none elsewhere.
LEMMA AdmitWithinCaps ==
  ASSUME TypeOK, ChosenWithinCaps, path = "diverse", Admit PROVE ChosenWithinCaps'
<1> DEFINE q == ranked[cursor]
<1>1. /\ chosen' = chosen \cup {q} /\ ~Capped(q, chosen) /\ q \notin chosen
      /\ UNCHANGED <<path, caps>>
  BY DEF Admit, Admissible
<1>2. q \in Reels
  BY LenProperties, ElementOfSeq DEF Admit, Walking, TypeOK
<1> HIDE DEF q
<1>3. IsFiniteSet(chosen)
  BY CatalogueAssumption, FS_Subset DEF TypeOK
<1>4. caps.creator \in Nat /\ \A r \in Reels : caps.topic[Topic[r]] \in Nat
  BY CatalogueAssumption DEF TypeOK, Topics, Range
<1> SUFFICES ASSUME NEW r \in Reels
             PROVE  /\ Cardinality(OfCreator(Creator[r], chosen')) <= caps.creator
                    /\ Cardinality(OfTopic(Topic[r], chosen')) <= caps.topic[Topic[r]]
  BY <1>1 DEF ChosenWithinCaps
<1>5. /\ Cardinality(OfCreator(Creator[r], chosen)) <= caps.creator
      /\ Cardinality(OfTopic(Topic[r], chosen)) <= caps.topic[Topic[r]]
  BY DEF ChosenWithinCaps
<1>6. Cardinality(OfCreator(Creator[r], chosen')) <= caps.creator
  <2> DEFINE S == OfCreator(Creator[r], chosen)
  <2>1. IsFiniteSet(S) /\ Cardinality(S) \in Nat
    BY <1>3, FS_Subset, FS_CardinalityType DEF OfCreator
  <2>2. CASE Creator[q] # Creator[r]
    <3>1. OfCreator(Creator[r], chosen') = S
      BY <1>1, <2>2 DEF OfCreator
    <3> QED
      BY <1>5, <3>1
  <2>3. CASE Creator[q] = Creator[r]
    <3>1. OfCreator(Creator[r], chosen') = S \cup {q} /\ q \notin S
      BY <1>1, <2>3 DEF OfCreator
    <3>2. Cardinality(S) < caps.creator
      BY <1>1, <1>4, <2>1, <2>3 DEF Capped
    <3>3. Cardinality(S \cup {q}) = Cardinality(S) + 1
      BY <2>1, <3>1, FS_AddElement
    <3> QED
      BY <1>4, <2>1, <3>1, <3>2, <3>3
  <2> QED
    BY <2>2, <2>3
<1>7. Cardinality(OfTopic(Topic[r], chosen')) <= caps.topic[Topic[r]]
  <2> DEFINE S == OfTopic(Topic[r], chosen)
  <2>1. IsFiniteSet(S) /\ Cardinality(S) \in Nat
    BY <1>3, FS_Subset, FS_CardinalityType DEF OfTopic
  <2>2. CASE Topic[q] # Topic[r]
    <3>1. OfTopic(Topic[r], chosen') = S
      BY <1>1, <2>2 DEF OfTopic
    <3> QED
      BY <1>5, <3>1
  <2>3. CASE Topic[q] = Topic[r]
    <3>1. OfTopic(Topic[r], chosen') = S \cup {q} /\ q \notin S
      BY <1>1, <2>3 DEF OfTopic
    <3>2. Cardinality(S) < caps.topic[Topic[r]]
      BY <1>1, <1>4, <2>1, <2>3 DEF Capped
    <3>3. Cardinality(S \cup {q}) = Cardinality(S) + 1
      BY <2>1, <3>1, FS_AddElement
    <3> QED
      BY <1>4, <2>1, <3>1, <3>2, <3>3
  <2> QED
    BY <2>2, <2>3
<1> QED
  BY <1>6, <1>7

\* Every other step keeps the admitted set, or empties it under new caps.
LEMMA CapsStep ==
  ASSUME TypeOK, Shape, ChosenWithinCaps, [Next]_vars PROVE ChosenWithinCaps'
<1>1. CASE Request
  <2>1. chosen' = {} /\ caps' \in [creator : Nat, topic : [Topics -> Nat]]
    BY <1>1, CapsTyped DEF Request
  <2>2. \A r \in Reels : OfCreator(Creator[r], {}) = {} /\ OfTopic(Topic[r], {}) = {}
    BY DEF OfCreator, OfTopic
  <2>3. \A r \in Reels : Topic[r] \in Topics
    BY CatalogueAssumption DEF Topics, Range
  <2>4. \A r \in Reels : caps'.topic[Topic[r]] >= 0 /\ caps'.creator >= 0
    BY <2>1, <2>3
  <2> QED
    BY <2>1, <2>2, <2>4, FS_EmptySet DEF ChosenWithinCaps
<1>2. CASE Admit
  BY <1>2, AdmitWithinCaps DEF Shape, Ways, Admit, Walking
<1>3. CASE UNCHANGED <<path, caps, chosen>>
  BY <1>3 DEF ChosenWithinCaps
<1>4. [Next]_vars => Request \/ Admit \/ UNCHANGED <<path, caps, chosen>>
  BY DEF Next, Recommend, Retrieve, RetrieveEnd, Filter, Cap, Rank, Guarantee, Truncate,
         Skip, SelectEnd, ArrangeMmr, SwapPass, ArrangeEnd, Consume, vars
<1> QED
  BY <1>1, <1>2, <1>3, <1>4

\* No feed of the diverse way out exceeds a fixed or personal cap, and none
\* holds a reel twice, whatever the ranker, the promotions and the swaps did.
THEOREM FeedWithinCapsCorrect == Spec => []FeedWithinCaps
<1>1. Init => ChosenWithinCaps
  BY DEF Init, ChosenWithinCaps
<1>2. (TypeOK /\ Shape) /\ ChosenWithinCaps /\ [Next]_vars => ChosenWithinCaps'
  BY CapsStep
<1>3. (TypeOK /\ Shape) /\ ChosenWithinCaps => FeedWithinCaps
  <2> SUFFICES ASSUME TypeOK, Shape, ChosenWithinCaps, path = "diverse"
               PROVE  /\ \A r \in Range(feed) :
                          /\ Cardinality(OfCreator(Creator[r], Range(feed))) <= caps.creator
                          /\ Cardinality(OfTopic(Topic[r], Range(feed))) <= caps.topic[Topic[r]]
                      /\ IsInjective(feed)
    BY DEF FeedWithinCaps
  <2>1. Range(feed) \subseteq chosen /\ chosen \subseteq Reels /\ IsInjective(feed)
    BY DEF Shape, ChosenIsFeed, FeedFromPool, TypeOK
  <2>2. IsFiniteSet(chosen)
    BY <2>1, CatalogueAssumption, FS_Subset
  <2>3. caps.creator \in Nat /\ \A r \in Reels : caps.topic[Topic[r]] \in Nat
    BY CatalogueAssumption DEF TypeOK, Topics, Range
  <2> SUFFICES ASSUME NEW r \in Range(feed)
               PROVE  /\ Cardinality(OfCreator(Creator[r], Range(feed))) <= caps.creator
                      /\ Cardinality(OfTopic(Topic[r], Range(feed))) <= caps.topic[Topic[r]]
    BY <2>1
  <2>4. /\ Cardinality(OfCreator(Creator[r], chosen)) <= caps.creator
        /\ Cardinality(OfTopic(Topic[r], chosen)) <= caps.topic[Topic[r]]
    BY <2>1 DEF ChosenWithinCaps
  <2>5. /\ IsFiniteSet(OfCreator(Creator[r], chosen)) /\ IsFiniteSet(OfTopic(Topic[r], chosen))
    BY <2>2, FS_Subset DEF OfCreator, OfTopic
  <2>6. /\ OfCreator(Creator[r], Range(feed)) \subseteq OfCreator(Creator[r], chosen)
        /\ OfTopic(Topic[r], Range(feed)) \subseteq OfTopic(Topic[r], chosen)
    BY <2>1 DEF OfCreator, OfTopic
  <2>7. Cardinality(OfCreator(Creator[r], Range(feed))) <= caps.creator
    <3>1. /\ Cardinality(OfCreator(Creator[r], Range(feed))) \in Nat
          /\ Cardinality(OfCreator(Creator[r], chosen)) \in Nat
          /\ Cardinality(OfCreator(Creator[r], Range(feed)))
               <= Cardinality(OfCreator(Creator[r], chosen))
      BY <2>5, <2>6, FS_Subset, FS_CardinalityType
    <3> QED
      BY <2>1, <2>3, <2>4, <3>1
  <2>8. Cardinality(OfTopic(Topic[r], Range(feed))) <= caps.topic[Topic[r]]
    <3>1. /\ Cardinality(OfTopic(Topic[r], Range(feed))) \in Nat
          /\ Cardinality(OfTopic(Topic[r], chosen)) \in Nat
          /\ Cardinality(OfTopic(Topic[r], Range(feed)))
               <= Cardinality(OfTopic(Topic[r], chosen))
      BY <2>5, <2>6, FS_Subset, FS_CardinalityType
    <3> QED
      BY <2>1, <2>3, <2>4, <3>1
  <2> QED
    BY <2>7, <2>8
<1> QED
  BY <1>1, <1>2, <1>3, ShapeInvariant, PTL DEF Spec
------------------------------------------------------------------------------
(* The swap pass *)

\* Before place n, neighbours share a topic only where only that topic follows.
Settled(n) ==
  \A i \in DOMAIN feed :
    i < n /\ i + 1 \in DOMAIN feed /\ Topic[feed[i]] = Topic[feed[i + 1]] =>
      \A j \in DOMAIN feed : j > i => Topic[feed[j]] = Topic[feed[i]]

\* The pass has settled what lies behind it.
Spread == (stage = "arrange" => Settled(cursor)) /\ TopicsSpread

\* One step of the pass settles its place and unsettles none behind it.
LEMMA SwapSettles ==
  ASSUME TypeOK, Settled(cursor), SwapPass PROVE Settled(cursor)'
<1>1. /\ feed \in Seq(Reels) /\ cursor \in Nat \ {0} /\ cursor' = cursor + 1
      /\ cursor + 1 \in DOMAIN feed /\ cursor \in DOMAIN feed
  BY LenProperties DEF SwapPass, TypeOK
<1>2. DOMAIN feed = 1..Len(feed) /\ Len(feed) \in Nat
  BY <1>1, LenProperties
<1>3. CASE feed' = feed
  <2>1. Topic[feed[cursor]] = Topic[feed[cursor + 1]] => Different = {}
    <3>1. SUFFICES ASSUME Topic[feed[cursor]] = Topic[feed[cursor + 1]],
                          NEW d \in Different
                   PROVE  FALSE
      OBVIOUS
    <3>2. PICK j \in Different : feed' = Exchanged(j)
      BY <3>1 DEF SwapPass
    <3>3. j \in DOMAIN feed /\ j > cursor + 1 /\ Topic[feed[j]] # Topic[feed[cursor]]
      BY DEF Different
    <3>4. feed'[cursor + 1] = feed[j]
      BY <1>1, <1>2, <3>2, <3>3, SwapKeeps
    <3> QED
      BY <1>3, <3>1, <3>3, <3>4
  <2> SUFFICES ASSUME NEW i \in DOMAIN feed, i < cursor + 1, i + 1 \in DOMAIN feed,
                      Topic[feed[i]] = Topic[feed[i + 1]], NEW j \in DOMAIN feed, j > i
               PROVE  Topic[feed[j]] = Topic[feed[i]]
    BY <1>1, <1>3 DEF Settled
  <2>2. CASE i < cursor
    BY <2>2 DEF Settled
  <2>3. CASE i = cursor
    <3>1. j > cursor + 1 => Topic[feed[j]] = Topic[feed[cursor]]
      BY <2>1, <2>3 DEF Different
    <3> QED
      BY <1>1, <1>2, <2>3, <3>1
  <2> QED
    BY <1>1, <1>2, <2>2, <2>3
<1>4. CASE \E k \in Different : feed' = Exchanged(k)
  <2>1. PICK k \in Different : feed' = Exchanged(k)
    BY <1>4
  <2>2. k \in DOMAIN feed /\ k > cursor + 1 /\ Topic[feed[k]] # Topic[feed[cursor]]
    BY DEF Different
  <2>3. /\ DOMAIN feed' = DOMAIN feed
        /\ \A i \in DOMAIN feed :
             feed'[i] = IF i = k THEN feed[cursor + 1]
                        ELSE IF i = cursor + 1 THEN feed[k] ELSE feed[i]
    BY <1>1, <2>1, <2>2, SwapKeeps
  <2>4. SUFFICES ASSUME NEW i \in DOMAIN feed, i < cursor + 1, i + 1 \in DOMAIN feed,
                        Topic[feed'[i]] = Topic[feed'[i + 1]], NEW j \in DOMAIN feed, j > i
                 PROVE  Topic[feed'[j]] = Topic[feed'[i]]
    BY <1>1, <2>3 DEF Settled
  <2>5. feed'[i] = feed[i]
    BY <1>1, <1>2, <2>2, <2>3, <2>4
  <2>6. CASE i = cursor
    BY <1>1, <1>2, <2>2, <2>3, <2>4, <2>5, <2>6
  <2>7. CASE i < cursor
    <3>1. feed'[i + 1] = feed[i + 1]
      BY <1>1, <1>2, <2>2, <2>3, <2>7
    <3>2. \A m \in DOMAIN feed : m > i => Topic[feed[m]] = Topic[feed[i]]
      BY <2>4, <2>5, <2>7, <3>1 DEF Settled
    <3>3. \E m \in DOMAIN feed : m > i /\ feed'[j] = feed[m]
      BY <1>1, <1>2, <2>2, <2>3, <2>4, <2>7
    <3> QED
      BY <2>5, <3>2, <3>3
  <2> QED
    BY <1>1, <1>2, <2>4, <2>6, <2>7
<1> QED
  BY <1>3, <1>4 DEF SwapPass

\* Every step keeps what the pass has settled.
LEMMA SpreadStep ==
  ASSUME TypeOK, Shape, Spread, [Next]_vars PROVE Spread'
<1>1. CASE SelectEnd
  <2>1. stage' = "arrange" /\ cursor' = 1 /\ feed' = feed
    BY <1>1 DEF SelectEnd
  <2>2. DOMAIN feed = 1..Len(feed)
    BY LenProperties DEF TypeOK
  <2>3. Settled(cursor)'
    BY <2>1, <2>2 DEF Settled
  <2> QED
    BY <2>1, <2>3 DEF Spread, TopicsSpread
<1>2. CASE SwapPass
  <2>1. stage = "arrange" /\ stage' = "arrange"
    BY <1>2 DEF SwapPass
  <2>2. Settled(cursor)'
    BY <1>2, <2>1, SwapSettles DEF Spread
  <2> QED
    BY <2>1, <2>2 DEF Spread, TopicsSpread
<1>3. CASE ArrangeEnd
  <2>1. stage = "arrange" /\ stage' = "done" /\ feed' = feed /\ cursor + 1 > Len(feed)
    BY <1>3 DEF ArrangeEnd
  <2>2. Settled(cursor)
    BY <2>1 DEF Spread
  <2>3. DOMAIN feed = 1..Len(feed) /\ Len(feed) \in Nat /\ cursor \in Nat
    BY LenProperties DEF TypeOK
  <2>4. \A i \in DOMAIN feed : i + 1 \in DOMAIN feed => i < cursor
    BY <2>1, <2>3
  <2>5. TopicsSpread'
    BY <2>1, <2>2, <2>4 DEF TopicsSpread, Settled
  <2> QED
    BY <2>1, <2>5 DEF Spread
<1>4. CASE ArrangeMmr
  BY <1>4 DEF ArrangeMmr, Spread, TopicsSpread
<1>5. CASE Truncate
  <2>1. path' # "diverse" /\ stage' = "done"
    BY <1>5 DEF Truncate, Shape, Ways
  <2> QED
    BY <2>1 DEF Spread, TopicsSpread
<1>6. CASE UNCHANGED vars
  BY <1>6 DEF vars, Spread, TopicsSpread, Settled
<1>7. CASE stage' \notin {"arrange", "done"}
  BY <1>7 DEF Spread, TopicsSpread
<1>8. [Next]_vars => \/ SelectEnd \/ SwapPass \/ ArrangeEnd \/ ArrangeMmr \/ Truncate
                     \/ UNCHANGED vars \/ stage' \notin {"arrange", "done"}
  BY DEF Next, Recommend, Request, Retrieve, RetrieveEnd, Filter, Cap, Rank, Guarantee,
         Admit, Skip, Walking, Consume
<1> QED
  BY <1>1, <1>2, <1>3, <1>4, <1>5, <1>6, <1>7, <1>8

\* The single forward pass spreads topics as far as the feed allows.
THEOREM TopicsSpreadCorrect == Spec => []TopicsSpread
<1>1. Init => Spread
  BY DEF Init, Spread, TopicsSpread
<1>2. (TypeOK /\ Shape) /\ Spread /\ [Next]_vars => Spread'
  BY SpreadStep
<1>3. Spread => TopicsSpread
  BY DEF Spread
<1> QED
  BY <1>1, <1>2, <1>3, ShapeInvariant, PTL DEF Spec
------------------------------------------------------------------------------
(* The pipeline implements FeedService *)

\* The steps that produce the response produce an allowed one.
LEMMA AnswerStep ==
  ASSUME TypeOK, Shape, TypeOK', Shape', Truncate \/ ArrangeMmr \/ ArrangeEnd
  PROVE  Service!Answer
<1>1. /\ stage \in {"truncate", "arrange"} /\ stage' = "done" /\ UNCHANGED <<seen, pool>>
  BY DEF Truncate, ArrangeMmr, ArrangeEnd
<1>2. feed' \in Seq(Reels) /\ IsInjective(feed') /\ Len(feed') <= FeedSize
      /\ Range(feed') \subseteq Servable \ seen
  BY <1>1 DEF TypeOK, Shape, FeedFromPool, PoolServable
<1>3. feed' \in Seq(Servable \ seen)
  <2>1. Len(feed') \in Nat /\ feed' \in [1..Len(feed') -> Reels]
    BY <1>2, LenProperties
  <2>2. \A i \in 1..Len(feed') : feed'[i] \in Servable \ seen
    BY <1>2, <2>1 DEF Range
  <2>3. feed' \in [1..Len(feed') -> Servable \ seen]
    BY <2>1, <2>2
  <2> QED
    BY <2>1, <2>3
<1>4. feed' \in Service!Feeds(seen)
  BY <1>2, <1>3 DEF Service!Feeds, Service!IsInjective, IsInjective
<1> QED
  BY <1>1, <1>4 DEF Service!Answer

\* Every step of the pipeline is one of the service or leaves it alone.
LEMMA ServiceStep ==
  ASSUME TypeOK, Shape, TypeOK', Shape', [Next]_vars
  PROVE  [Service!Next]_(Service!vars)
<1>1. CASE Request
  <2>1. stage = "idle" /\ stage' = "retrieve" /\ UNCHANGED seen
    BY <1>1 DEF Request
  <2>2. Service!Ask
    BY <2>1 DEF Service!Ask
  <2> QED
    BY <2>2 DEF Service!Next
<1>2. CASE Truncate \/ ArrangeMmr \/ ArrangeEnd
  BY <1>2, AnswerStep DEF Service!Next
<1>3. CASE Consume
  <2>1. PICK n \in 0..Len(feed) : seen' = seen \cup Range(SubSeq(feed, 1, n))
    BY <1>3 DEF Consume
  <2>2. stage = "done" /\ stage' = "idle"
    BY <1>3 DEF Consume
  <2>3. Range(SubSeq(feed, 1, n)) \subseteq Range(feed)
    BY PrefixRange DEF TypeOK
  <2>4. Service!Range(IF stage = "done" THEN feed ELSE <<>>) = Range(feed)
    BY <2>2 DEF Service!Range, Range
  <2>5. \E some \in SUBSET Service!Range(IF stage = "done" THEN feed ELSE <<>>) :
          seen' = seen \cup some
    BY <2>1, <2>3, <2>4
  <2>6. Service!Consume
    BY <2>2, <2>5 DEF Service!Consume
  <2> QED
    BY <2>6 DEF Service!Next
<1>4. CASE /\ stage \notin {"idle", "done"} /\ stage' \notin {"idle", "done"}
           /\ UNCHANGED seen
  BY <1>4 DEF Service!vars
<1>5. CASE UNCHANGED vars
  BY <1>5 DEF vars, Service!vars
<1>6. [Next]_vars =>
        \/ Request \/ Truncate \/ ArrangeMmr \/ ArrangeEnd \/ Consume
        \/ stage \notin {"idle", "done"} /\ stage' \notin {"idle", "done"} /\ UNCHANGED seen
        \/ UNCHANGED vars
  BY DEF Next, Recommend, Retrieve, RetrieveEnd, Filter, Cap, Rank, Guarantee,
         Admit, Skip, Walking, SelectEnd, SwapPass
<1> QED
  BY <1>1, <1>2, <1>3, <1>4, <1>5, <1>6

\* Whatever sources, ranker, guarantee and reranker do, the caller sees
\* FeedService: one answer per request, of distinct unseen servable reels.
THEOREM ImplementsFeedService == Spec => RefinesFeedService
<1>1. Init => Service!Init
  BY DEF Init, Service!Init
<1>2. /\ TypeOK /\ Shape /\ (TypeOK /\ Shape)' /\ [Next]_vars
      => [Service!Next]_(Service!vars)
  BY ServiceStep
<1> QED
  BY <1>1, <1>2, ShapeInvariant, PTL DEF Spec, RefinesFeedService, Service!Spec

\* A diverse feed is within its caps and spread by topic (ConstraintReranker).
THEOREM FeedDiverseCorrect == Spec => []FeedDiverse
BY FeedWithinCapsCorrect, TopicsSpreadCorrect, PTL DEF FeedDiverse
------------------------------------------------------------------------------
(* The merge *)

FoundOf(r) == {c \in raw : c.reel = r}

\* A pool entry holds every label its reel was found under and the best of
\* the similarities it was found at.
EntryMerged(r) ==
  /\ pool[r].sources = {c.source : c \in FoundOf(r)}
  /\ pool[r].similarity \in {c.similarity : c \in FoundOf(r)}
  /\ \A c \in FoundOf(r) : pool[r].similarity >= c.similarity

Merged ==
  /\ raw \subseteq [reel : Reels, source : Range(Sources), similarity : Similarities]
  /\ stage \in {"retrieve", "filter"} =>
       DOMAIN pool = {c.reel : c \in raw} /\ \A r \in DOMAIN pool : EntryMerged(r)

\* One source's candidates go into the pool as they go into the history.
LEMMA RetrieveMerged ==
  ASSUME TypeOK, Merged, Retrieve PROVE Merged'
<1> DEFINE s == Sources[turn]
<1>1. stage = "retrieve" /\ stage' = "retrieve" /\ turn \in 1..Len(Sources)
  BY LenProperties, RequestAssumption DEF Retrieve, TypeOK
<1>2. PICK reels \in SUBSET Reels : \E found \in [reels -> Similarities] :
        /\ pool' = Merge(pool, s, found)
        /\ raw' = raw \cup {[reel |-> r, source |-> s, similarity |-> found[r]] : r \in reels}
  BY DEF Retrieve
<1>3. PICK found \in [reels -> Similarities] :
        /\ pool' = Merge(pool, s, found)
        /\ raw' = raw \cup {[reel |-> r, source |-> s, similarity |-> found[r]] : r \in reels}
  BY <1>2
<1>4. s \in Range(Sources)
  BY <1>1, LenProperties, RequestAssumption DEF Range
<1> HIDE DEF s
<1> DEFINE new(r) == [reel |-> r, source |-> s, similarity |-> found[r]]
<1>5. raw' \subseteq [reel : Reels, source : Range(Sources), similarity : Similarities]
  BY <1>3, <1>4 DEF Merged
<1>6. DOMAIN pool = {c.reel : c \in raw} /\ \A r \in DOMAIN pool : EntryMerged(r)
  BY <1>1 DEF Merged
<1>7. DOMAIN pool' = DOMAIN pool \cup reels
  BY <1>3 DEF Merge
<1>8. DOMAIN pool' = {c.reel : c \in raw'}
  <2>1. {new(r).reel : r \in reels} = reels
    OBVIOUS
  <2>2. \A S, F : {c.reel : c \in S \cup {F[r] : r \in reels}}
                    = {c.reel : c \in S} \cup {F[r].reel : r \in reels}
    OBVIOUS
  <2> DEFINE F == [r \in reels |-> new(r)]
  <2>3. raw' = raw \cup {F[r] : r \in reels} /\ {F[r].reel : r \in reels} = reels
    BY <1>3, <2>1
  <2> HIDE DEF F
  <2>4. {c.reel : c \in raw'} = {c.reel : c \in raw} \cup reels
    BY <2>2, <2>3
  <2> QED
    BY <1>6, <1>7, <2>4
<1>9. ASSUME NEW r \in DOMAIN pool' PROVE EntryMerged(r)'
  <2>1. CASE r \notin reels
    <3>1. r \in DOMAIN pool /\ pool'[r] = pool[r]
      BY <1>3, <1>7, <2>1 DEF Merge
    <3>2. FoundOf(r)' = FoundOf(r)
      BY <1>3, <2>1 DEF FoundOf
    <3> QED
      BY <1>6, <3>1, <3>2 DEF EntryMerged
  <2>2. CASE r \in reels
    <3>1. FoundOf(r)' = FoundOf(r) \cup {new(r)}
      BY <1>3, <2>2 DEF FoundOf
    <3>2. found[r] \in Int
      BY <2>2, CatalogueAssumption
    <3>3. \A c \in FoundOf(r) : c.similarity \in Int
      BY CatalogueAssumption DEF Merged, FoundOf
    <3>4. CASE r \notin DOMAIN pool
      <4>1. pool'[r] = [similarity |-> found[r], sources |-> {s}]
        BY <1>3, <1>7, <2>2, <3>4 DEF Merge
      <4>2. FoundOf(r) = {}
        BY <1>6, <3>4 DEF FoundOf
      <4>3. FoundOf(r)' = {new(r)}
        BY <3>1, <4>2
      <4> QED
        BY <3>2, <4>1, <4>3 DEF EntryMerged
    <3>5. CASE r \in DOMAIN pool
      <4>1. pool'[r] = [similarity |-> IF found[r] > pool[r].similarity THEN found[r]
                                       ELSE pool[r].similarity,
                        sources |-> pool[r].sources \cup {s}]
        BY <1>3, <1>7, <2>2, <3>5 DEF Merge
      <4>2. EntryMerged(r)
        BY <1>6, <3>5
      <4>3. pool[r].similarity \in Int
        BY <3>3, <4>2 DEF EntryMerged
      <4>s. \A S, x : /\ {c.source : c \in S \cup {x}} = {c.source : c \in S} \cup {x.source}
                       /\ {c.similarity : c \in S \cup {x}}
                            = {c.similarity : c \in S} \cup {x.similarity}
        OBVIOUS
      <4>t. new(r).source = s /\ new(r).similarity = found[r]
        OBVIOUS
      <4> HIDE DEF new
      <4>4. pool'[r].sources = {c.source : c \in FoundOf(r)'}
        BY <3>1, <4>1, <4>2, <4>s, <4>t DEF EntryMerged
      <4>5. pool'[r].similarity \in {c.similarity : c \in FoundOf(r)'}
        BY <3>1, <4>1, <4>2, <4>s, <4>t DEF EntryMerged
      <4>6. \A c \in FoundOf(r)' : pool'[r].similarity >= c.similarity
        BY <3>1, <3>2, <3>3, <4>1, <4>2, <4>3, <4>t DEF EntryMerged
      <4> QED
        BY <4>4, <4>5, <4>6 DEF EntryMerged
    <3> QED
      BY <3>4, <3>5
  <2> QED
    BY <2>1, <2>2
<1> QED
  BY <1>5, <1>8, <1>9 DEF Merged

\* No other step touches the pool while the sources run.
LEMMA MergedStep ==
  ASSUME TypeOK, Merged, [Next]_vars PROVE Merged'
<1>1. CASE Request
  <2>1. raw' = {} /\ pool' = <<>>
    BY <1>1 DEF Request
  <2> QED
    BY <2>1 DEF Merged
<1>2. CASE RetrieveEnd \/ UNCHANGED vars
  <2>1. /\ UNCHANGED <<raw, pool>>
        /\ stage' \in {"retrieve", "filter"} => stage \in {"retrieve", "filter"}
    BY <1>2 DEF RetrieveEnd, vars
  <2> QED
    BY <2>1 DEF Merged, EntryMerged, FoundOf
<1>3. CASE Filter
  <2>1. raw' = {} /\ stage' = "cap"
    BY <1>3 DEF Filter
  <2> QED
    BY <2>1 DEF Merged
<1>4. CASE UNCHANGED raw /\ stage' \notin {"retrieve", "filter"}
  BY <1>4 DEF Merged
<1>5. [Next]_vars =>
        \/ Request \/ Retrieve \/ RetrieveEnd \/ Filter \/ UNCHANGED vars
        \/ UNCHANGED raw /\ stage' \notin {"retrieve", "filter"}
  <2>1. ASSUME Cap \/ Rank \/ Guarantee \/ Truncate
        PROVE  UNCHANGED raw /\ stage' \notin {"retrieve", "filter"}
    BY <2>1 DEF Cap, Rank, Guarantee, Truncate
  <2>2. ASSUME Admit \/ Skip \/ SelectEnd
        PROVE  UNCHANGED raw /\ stage' \notin {"retrieve", "filter"}
    BY <2>2 DEF Admit, Skip, SelectEnd, Walking
  <2>3. ASSUME ArrangeMmr \/ SwapPass \/ ArrangeEnd \/ Consume
        PROVE  UNCHANGED raw /\ stage' \notin {"retrieve", "filter"}
    BY <2>3 DEF ArrangeMmr, SwapPass, ArrangeEnd, Consume
  <2> QED
    BY <2>1, <2>2, <2>3 DEF Next, Recommend
<1> QED
  BY <1>1, <1>2, <1>3, <1>4, <1>5, RetrieveMerged

\* The merge loses nothing: whatever the sources found, and in whichever order
\* they ran, the pool that reaches the filter has every reel once, at its best
\* similarity and with all its labels.
THEOREM MergeExactCorrect == Spec => []MergeExact
<1>1. Init => Merged
  BY DEF Init, Merged
<1>2. TypeOK /\ Merged /\ [Next]_vars => Merged'
  BY MergedStep
<1>3. TypeOK /\ Merged => MergeExact
  <2> SUFFICES ASSUME TypeOK, Merged, stage = "filter", NEW r \in DOMAIN pool
               PROVE  pool[r] = [similarity |-> Max({c.similarity : c \in FoundOf(r)}),
                                 sources |-> {c.source : c \in FoundOf(r)}]
    BY DEF MergeExact, Merged, FoundOf
  <2>1. EntryMerged(r) /\ pool[r] \in PoolEntries
    BY DEF Merged, TypeOK
  <2> DEFINE S == {c.similarity : c \in FoundOf(r)}
  <2>2. \A x \in S : x \in Int
    BY CatalogueAssumption DEF Merged, FoundOf
  <2>3. pool[r].similarity \in S /\ \A x \in S : pool[r].similarity >= x
    BY <2>1 DEF EntryMerged
  <2> HIDE DEF S
  <2>4. Max(S) \in S /\ \A x \in S : Max(S) >= x
    BY <2>3 DEF Max
  <2>5. pool[r].similarity = Max(S)
    BY <2>2, <2>3, <2>4
  <2>6. pool[r] = [similarity |-> pool[r].similarity, sources |-> pool[r].sources]
    BY <2>1 DEF PoolEntries
  <2> QED
    BY <2>1, <2>5, <2>6 DEF EntryMerged, S
<1> QED
  BY <1>1, <1>2, <1>3, TypeCorrect, PTL DEF Spec
------------------------------------------------------------------------------
(* Counting *)

\* A set of naturals that is not empty has a least element.
LEMMA LeastNatural ==
  ASSUME NEW T \in SUBSET Nat, T # {}
  PROVE  \E m \in T : \A k \in T : m <= k
<1>1. IsWellFoundedOn(OpToRel(<, Nat), Nat)
  BY NatLessThanWellFounded
<1>2. PICK m \in T : \A k \in T : ~(<<k, m>> \in OpToRel(<, Nat))
  BY <1>1, WFMin
<1>3. \A k \in T : ~(k < m)
  BY <1>2 DEF OpToRel
<1> QED
  BY <1>3

\* before[i] is what comes before i in a strict order of S.
IsOrder(S, before) ==
  /\ before \in [S -> SUBSET S]
  /\ \A i \in S : i \notin before[i]
  /\ \A i, j \in S : i # j => i \in before[j] \/ j \in before[i]
  /\ \A i, j \in S : j \in before[i] => before[j] \subseteq before[i]

\* The elements with fewer than n before them.
FirstOf(S, before, n) == {i \in S : Cardinality(before[i]) < n}

\* A finite ordered set has exactly n first elements, if it has n at all.
LEMMA FirstCount ==
  ASSUME NEW S, IsFiniteSet(S), NEW before, IsOrder(S, before),
         NEW n \in Nat, n <= Cardinality(S)
  PROVE  Cardinality(FirstOf(S, before, n)) = n
<1> DEFINE first(k) == FirstOf(S, before, k)
           bad == {k \in 0..n : Cardinality(first(k)) # k}
<1>1. \A i \in S : IsFiniteSet(before[i]) /\ Cardinality(before[i]) \in Nat
  BY FS_Subset, FS_CardinalityType DEF IsOrder
<1>f. \A k : IsFiniteSet(first(k)) /\ Cardinality(first(k)) \in Nat
  <2> TAKE k
  <2>1. first(k) \in SUBSET S
    BY DEF FirstOf
  <2> HIDE DEF first
  <2> QED
    BY <2>1, FS_Subset, FS_CardinalityType
<1>2. SUFFICES ASSUME bad # {} PROVE FALSE
  OBVIOUS
<1>3. PICK k \in bad : \A l \in bad : k <= l
  <2>1. bad \in SUBSET Nat
    OBVIOUS
  <2> HIDE DEF bad
  <2> QED
    BY <1>2, <2>1, LeastNatural
<1>4. Cardinality(first(0)) = 0
  <2>1. first(0) = {}
    BY <1>1 DEF FirstOf
  <2> QED
    BY <2>1, FS_EmptySet
<1> HIDE DEF first
<1>5. k \in 1..n /\ Cardinality(first(k)) # k
  BY <1>3, <1>4
<1>6. Cardinality(first(k - 1)) = k - 1
  BY <1>3, <1>5
<1> HIDE DEF bad
<1> DEFINE rest == S \ first(k - 1)
           sizes == {Cardinality(before[i]) : i \in rest}
<1>7. PICK m \in rest : \A l \in rest : Cardinality(before[m]) <= Cardinality(before[l])
  <2>1. rest # {}
    <3>1. first(k - 1) # S
      BY <1>5, <1>6, FS_CardinalityType
    <3> QED
      BY <3>1 DEF first, FirstOf
  <2>2. sizes \in SUBSET Nat /\ sizes # {}
    BY <1>1, <2>1
  <2>3. PICK size \in sizes : \A l \in sizes : size <= l
    <3> HIDE DEF sizes
    <3> QED
      BY <2>2, LeastNatural
  <2> QED
    BY <2>3
<1>8. before[m] = first(k - 1)
  <2>1. ASSUME NEW i \in first(k - 1) PROVE i \in before[m]
    <3>1. /\ i \in S /\ Cardinality(before[i]) < k - 1
          /\ m \in S /\ ~(Cardinality(before[m]) < k - 1)
      BY <1>7, <2>1 DEF first, FirstOf
    <3>2. CASE m \in before[i]
      <4>1. before[m] \in SUBSET before[i]
        BY <3>1, <3>2 DEF IsOrder
      <4>2. Cardinality(before[m]) <= Cardinality(before[i])
        BY <1>1, <3>1, <4>1, FS_Subset
      <4> QED
        BY <1>1, <1>5, <3>1, <4>2
    <3>3. i # m
      BY <3>1
    <3> QED
      BY <3>1, <3>2, <3>3 DEF IsOrder
  <2>2. ASSUME NEW i \in before[m] PROVE i \in first(k - 1)
    <3>1. m \in S /\ i \in S
      BY <1>7, <2>2 DEF IsOrder
    <3>2. before[i] \in SUBSET before[m] /\ i \notin before[i] /\ before[i] # before[m]
      BY <2>2, <3>1 DEF IsOrder
    <3>3. Cardinality(before[i]) <= Cardinality(before[m])
          /\ Cardinality(before[i]) # Cardinality(before[m])
      BY <1>1, <3>1, <3>2, FS_Subset
    <3>4. i \notin rest
      BY <1>1, <1>7, <3>1, <3>3
    <3> QED
      BY <3>1, <3>4
  <2> QED
    BY <2>1, <2>2
<1>9. first(k) = first(k - 1) \cup {m}
  <2>1. Cardinality(before[m]) = k - 1 /\ m \in S
    BY <1>6, <1>7, <1>8
  <2>2. ASSUME NEW i \in rest, i # m PROVE ~(Cardinality(before[i]) < k)
    <3>1. i \in S /\ m \in S
      BY <1>7
    <3>2. m \in before[i]
      BY <1>8, <2>2, <3>1 DEF IsOrder
    <3>3. m \notin before[m] /\ before[m] \cup {m} \in SUBSET before[i]
      BY <3>1, <3>2 DEF IsOrder
    <3>4. Cardinality(before[m] \cup {m}) = Cardinality(before[m]) + 1
      BY <1>1, <3>1, <3>3, FS_AddElement
    <3>5. Cardinality(before[m] \cup {m}) <= Cardinality(before[i])
      BY <1>1, <3>1, <3>3, FS_Subset
    <3> QED
      BY <1>1, <1>5, <2>1, <3>1, <3>4, <3>5
  <2>3. ASSUME NEW i \in S PROVE i \in first(k) <=> i \in first(k - 1) \/ i = m
    BY <1>1, <1>5, <1>7, <2>1, <2>2 DEF first, FirstOf
  <2>4. \A j : first(j) \subseteq S
    BY DEF first, FirstOf
  <2> QED
    BY <2>1, <2>3, <2>4
<1>10. Cardinality(first(k)) = k
  <2>1. m \notin first(k - 1) /\ IsFiniteSet(first(k - 1))
    BY <1>f, <1>7
  <2>2. Cardinality(first(k - 1) \cup {m}) = Cardinality(first(k - 1)) + 1
    BY <2>1, FS_AddElement
  <2> QED
    BY <1>5, <1>6, <1>9, <2>2
<1> QED
  BY <1>5, <1>10

\* Positions with everything before them are the first ones.
LEMMA InitialSegment ==
  ASSUME NEW n \in Nat, NEW J \in SUBSET (1..n),
         \A i \in 1..n, j \in J : i < j => i \in J
  PROVE  J = 1..Cardinality(J)
<1> DEFINE T == {i \in 1..(n + 1) : i \notin J}
<1>1. PICK m \in T : \A k \in T : m <= k
  <2>1. T \in SUBSET Nat /\ n + 1 \in T
    OBVIOUS
  <2> HIDE DEF T
  <2> QED
    BY <2>1, LeastNatural
<1>2. J = 1..(m - 1)
  <2>1. m \in 1..(n + 1) /\ m \notin J /\ J \subseteq 1..n
    BY <1>1
  <2>2. ASSUME NEW i \in 1..(m - 1) PROVE i \in J
    BY <1>1, <2>1, <2>2
  <2>3. ASSUME NEW i \in J PROVE i \in 1..(m - 1)
    <3>1. i \in 1..n /\ i # m
      BY <2>1
    <3>2. CASE m < i
      <4>1. m \in 1..n
        BY <2>1, <3>1, <3>2
      <4> QED
        BY <2>1, <3>2, <4>1
    <3> QED
      BY <2>1, <3>1, <3>2
  <2> QED
    BY <2>2, <2>3
<1>3. m - 1 \in Nat
  BY <1>1
<1>4. Cardinality(1..(m - 1)) = m - 1
  BY <1>3, FS_Interval
<1> QED
  BY <1>2, <1>4

\* An injective sequence visits as many places as elements.
LEMMA PlacesCount ==
  ASSUME NEW S, IsFiniteSet(S), NEW f \in Seq(S), IsInjective(f), Range(f) = S,
         NEW K \in SUBSET S
  PROVE  Cardinality({i \in DOMAIN f : f[i] \in K}) = Cardinality(K)
<1> DEFINE J == {i \in DOMAIN f : f[i] \in K}
           g == [i \in J |-> f[i]]
<1>1. IsFiniteSet(DOMAIN f)
  BY LenProperties, FS_Interval
<1>2. IsFiniteSet(J)
  BY <1>1, FS_Subset
<1>3. g \in [J -> K]
  OBVIOUS
<1>4. \A x \in K : \E i \in J : g[i] = x
  BY DEF Range
<1>5. \A i, j \in J : g[i] = g[j] => i = j
  BY DEF IsInjective
<1>6. g \in Bijection(J, K)
  BY <1>3, <1>4, <1>5 DEF Bijection, Injection, Surjection, IsInjective
<1>7. ExistsBijection(J, K)
  BY <1>6 DEF ExistsBijection
<1> QED
  BY <1>2, <1>7, FS_Bijection
------------------------------------------------------------------------------
(* The ranking is the pool, and the guarantee disturbs it as little as it can *)

\* The first n positions are n.
LEMMA PrefixCount ==
  ASSUME NEW n \in Nat PROVE IsFiniteSet(1..n) /\ Cardinality(1..n) = n
<1>1. 1 \in Int /\ n \in Int
  OBVIOUS
<1> QED
  BY <1>1, FS_Interval

RankStages == {"guarantee", "truncate", "select", "arrange", "done"}

\* From the ranker on, its order and the ranked pool are permutations of the
\* pool, the same one until the guarantee.
Permuted ==
  /\ stage \in RankStages =>
       /\ ranked \in Seq(Reels) /\ IsInjective(ranked) /\ Range(ranked) = DOMAIN pool
       /\ order \in Seq(Reels) /\ IsInjective(order) /\ Range(order) = DOMAIN pool
  /\ stage = "guarantee" => ranked = order

\* An arrangement of a finite set leaves nothing out.
LEMMA ArrangementsOnto ==
  ASSUME NEW S, IsFiniteSet(S), NEW f \in SetToSeqs(S)
  PROVE  Range(f) = S
<1>1. /\ Len(f) = Cardinality(S) /\ DOMAIN f = 1..Cardinality(S)
      /\ IsInjective(f) /\ Range(f) \subseteq S /\ f \in Seq(S)
  BY Arrangements
<1>2. Cardinality(S) \in Nat
  BY FS_CardinalityType
<1>3. IsFiniteSet(1..Cardinality(S)) /\ Cardinality(1..Cardinality(S)) = Cardinality(S)
  BY <1>2, FS_Interval
<1>4. f \in [1..Cardinality(S) -> S]
  BY <1>1 DEF SetToSeqs
<1>5. f \in Injection(1..Cardinality(S), S)
  BY <1>1, <1>4 DEF Injection, IsInjective
<1>6. f \in Surjection(1..Cardinality(S), S)
  BY <1>3, <1>5, FS_Injection
<1> QED
  BY <1>4, <1>6 DEF Surjection, Range

\* The guarantee's new places, best first.
Sorted(from) ==
  \A i, j \in DOMAIN from : i < j =>
    \/ Block(from[i]) < Block(from[j])
    \/ Block(from[i]) = Block(from[j]) /\ from[i] < from[j]

\* Taking a permutation of the places of a permutation gives a permutation.
LEMMA Rearranged ==
  ASSUME NEW S, NEW f \in Seq(S), IsInjective(f), NEW from \in SetToSeqs(DOMAIN f),
         NEW g, g = [i \in DOMAIN from |-> f[from[i]]]
  PROVE  /\ from \in Seq(DOMAIN f) /\ IsInjective(from) /\ Range(from) = DOMAIN f
         /\ DOMAIN from = DOMAIN f /\ DOMAIN f = 1..Len(f)
         /\ g \in Seq(S) /\ DOMAIN g = DOMAIN f /\ IsInjective(g) /\ Range(g) = Range(f)
<1>1. DOMAIN f = 1..Len(f) /\ Len(f) \in Nat
  BY LenProperties
<1>2. IsFiniteSet(DOMAIN f) /\ Cardinality(DOMAIN f) = Len(f)
  BY <1>1, PrefixCount
<1>3. /\ from \in Seq(DOMAIN f) /\ IsInjective(from) /\ Range(from) = DOMAIN f
      /\ DOMAIN from = DOMAIN f
  BY <1>1, <1>2, Arrangements, ArrangementsOnto
<1>4. \A i \in DOMAIN f : from[i] \in DOMAIN f
  BY <1>3 DEF Range
<1>5. \A i \in DOMAIN f : f[i] \in S
  BY <1>1, ElementOfSeq
<1>6. g \in [1..Len(f) -> S]
  BY <1>1, <1>3, <1>4, <1>5
<1>7. g \in Seq(S)
  BY <1>1, <1>6
<1>8. IsInjective(g)
  BY <1>3, <1>4 DEF IsInjective
<1>9. Range(g) = Range(f)
  <2>1. Range(g) \subseteq Range(f)
    BY <1>3, <1>4 DEF Range
  <2>2. ASSUME NEW k \in DOMAIN f PROVE f[k] \in Range(g)
    <3>1. PICK i \in DOMAIN from : from[i] = k
      BY <1>3 DEF Range
    <3> QED
      BY <3>1 DEF Range
  <2> QED
    BY <2>1, <2>2 DEF Range
<1> QED
  BY <1>1, <1>3, <1>6, <1>7, <1>8, <1>9

\* The ranker arranges the pool, and the guarantee rearranges the ranking.
LEMMA PermutedStep ==
  ASSUME TypeOK, Permuted, [Next]_vars PROVE Permuted'
<1> USE DEF RankStages
<1>1. CASE Rank
  <2>1. PICK seq \in SetToSeqs(DOMAIN pool) : ranked' = seq /\ order' = seq
    BY <1>1 DEF Rank
  <2>2. IsFiniteSet(DOMAIN pool)
    BY CatalogueAssumption, FS_Subset DEF TypeOK
  <2>3. seq \in Seq(DOMAIN pool) /\ IsInjective(seq) /\ Range(seq) = DOMAIN pool
    BY <2>1, <2>2, Arrangements, ArrangementsOnto
  <2>4. seq \in Seq(Reels)
    BY <2>3, SeqMonotonic DEF TypeOK
  <2> QED
    BY <1>1, <2>1, <2>3, <2>4 DEF Permuted, Rank
<1>2. CASE Guarantee
  <2>1. stage = "guarantee" /\ stage' # "guarantee" /\ UNCHANGED <<order, pool>>
    BY <1>2 DEF Guarantee
  <2>2. CASE ranked' = ranked
    BY <2>1, <2>2 DEF Permuted
  <2>3. CASE \E from \in SetToSeqs(DOMAIN ranked) :
               ranked' = [i \in DOMAIN from |-> ranked[from[i]]]
    <3>1. ranked' \in Seq(Reels) /\ IsInjective(ranked') /\ Range(ranked') = Range(ranked)
      BY <2>1, <2>3, Rearranged DEF Permuted
    <3> QED
      BY <2>1, <3>1 DEF Permuted
  <2> QED
    BY <1>2, <2>2, <2>3 DEF Guarantee
<1>3. CASE /\ UNCHANGED <<ranked, order, pool>> /\ stage' # "guarantee"
           /\ stage' \in RankStages => stage \in RankStages
  BY <1>3 DEF Permuted
<1>4. CASE stage' \notin RankStages
  BY <1>4 DEF Permuted
<1>5. CASE UNCHANGED vars
  <2>1. UNCHANGED <<stage, ranked, order, pool>>
    BY <1>5 DEF vars
  <2> QED
    BY <2>1 DEF Permuted
<1>6. ASSUME Request \/ Retrieve \/ RetrieveEnd \/ Filter \/ Cap \/ Consume
      PROVE  stage' \notin RankStages
  BY <1>6 DEF Request, Retrieve, RetrieveEnd, Filter, Cap, Consume
<1>7. ASSUME Truncate \/ Admit \/ Skip \/ SelectEnd \/ ArrangeMmr \/ SwapPass \/ ArrangeEnd
      PROVE  /\ UNCHANGED <<ranked, order, pool>> /\ stage' # "guarantee"
             /\ stage' \in RankStages => stage \in RankStages
  <2>1. UNCHANGED <<ranked, order, pool>>
    BY <1>7 DEF Truncate, Admit, Skip, SelectEnd, ArrangeMmr, SwapPass, ArrangeEnd
  <2>2. stage \in {"truncate", "select", "arrange"} /\ stage' # "guarantee"
    BY <1>7 DEF Truncate, Admit, Skip, SelectEnd, ArrangeMmr, SwapPass, ArrangeEnd, Walking
  <2> QED
    BY <2>1, <2>2
<1> QED
  BY <1>1, <1>2, <1>3, <1>4, <1>5, <1>6, <1>7 DEF Next, Recommend

\* From the ranker on the ranking is the pool, none left out and none twice.
LEMMA RankingInvariant == Spec => [](TypeOK /\ Shape /\ Permuted)
<1>1. Init => Permuted
  BY DEF Init, Permuted, RankStages
<1>2. TypeOK /\ Permuted /\ [Next]_vars => Permuted'
  BY PermutedStep
<1> QED
  BY <1>1, <1>2, ShapeInvariant, PTL DEF Spec

\* The places of the ranking: finite, and counted by finite sets.
LEMMA PlacesFinite ==
  ASSUME ranked \in Seq(Reels)
  PROVE  /\ DOMAIN ranked = 1..Len(ranked) /\ Len(ranked) \in Nat
         /\ IsFiniteSet(DOMAIN ranked) /\ IsFiniteSet(Prefix)
         /\ Cardinality(DOMAIN ranked) = Len(ranked) /\ Cardinality(Prefix) = FeedSize
<1>1. DOMAIN ranked = 1..Len(ranked) /\ Len(ranked) \in Nat
  BY LenProperties
<1> QED
  BY <1>1, PrefixCount, RequestAssumption DEF Prefix

\* Only an exploration reel gets into a better block than a reel ranked
\* before it, and only past one that is not.
LEMMA BlockOrder ==
  ASSUME ranked \in Seq(Reels), Need \in Int, NEW a \in DOMAIN ranked, NEW b \in DOMAIN ranked,
         a < b, Block(b) < Block(a)
  PROVE  ExplorationLabeled(ranked[b]) /\ ~ExplorationLabeled(ranked[a])
<1> DEFINE others == Prefix \ LabeledIn(ranked, Prefix)
           below == LabeledIn(ranked, DOMAIN ranked \ Prefix)
           after(i) == {j \in others : j > i}
           ahead(i) == {j \in below : j < i}
<1>1. /\ DOMAIN ranked = 1..Len(ranked) /\ Len(ranked) \in Nat
      /\ IsFiniteSet(DOMAIN ranked) /\ IsFiniteSet(Prefix)
  BY PlacesFinite
<1>2. IsFiniteSet(others) /\ IsFiniteSet(below)
  BY <1>1, FS_Subset DEF LabeledIn
<1>3. \A i : /\ IsFiniteSet(after(i)) /\ IsFiniteSet(ahead(i))
             /\ Cardinality(after(i)) \in Nat /\ Cardinality(ahead(i)) \in Nat
  BY <1>2, FS_Subset, FS_CardinalityType
<1>4. a \in Nat \ {0} /\ b \in Nat \ {0} /\ a < b
  BY <1>1
<1>5. Evicted = {i \in others : Cardinality(after(i)) < Need}
  BY DEF Evicted
<1>6. Promoted = {i \in below : Cardinality(ahead(i)) < Need}
  BY DEF Promoted
<1>7. after(b) \in SUBSET after(a) /\ ahead(a) \in SUBSET ahead(b)
  <2>1. \A j \in others \cup below : j \in Nat
    BY <1>1, RequestAssumption DEF Prefix, LabeledIn
  <2>2. \A j \in others \cup below : (j > b => j > a) /\ (j < a => j < b)
    BY <1>4, <2>1
  <2> QED
    BY <2>2
<1>8. \A i \in DOMAIN ranked :
        /\ i \in others <=> i \in Prefix /\ ~ExplorationLabeled(ranked[i])
        /\ i \in below <=> i \notin Prefix /\ ExplorationLabeled(ranked[i])
  BY DEF LabeledIn
<1> HIDE DEF others, below, after, ahead
<1>9. /\ Cardinality(after(b)) <= Cardinality(after(a))
      /\ Cardinality(ahead(a)) <= Cardinality(ahead(b))
  BY <1>3, <1>7, FS_Subset
<1>10. a \in Evicted /\ b \in others => b \in Evicted
  BY <1>3, <1>5, <1>9
<1>11. b \in Promoted /\ a \in below => a \in Promoted
  BY <1>3, <1>6, <1>9
<1>12. Evicted \subseteq others /\ Promoted \subseteq below
  BY <1>5, <1>6
<1>13. b \in Prefix => a \in Prefix
  BY <1>4, RequestAssumption DEF Prefix
<1>14. Block(b) # 2 /\ Block(a) # 0
  BY DEF Block
<1>15. CASE b \in Prefix \ Evicted
  <2>1. a \in Evicted
    BY <1>13, <1>14, <1>15 DEF Block
  <2> QED
    BY <1>8, <1>10, <1>12, <1>15, <2>1
<1>16. CASE b \notin Prefix \ Evicted
  <2>1. b \in Promoted /\ Block(b) = 1
    BY <1>14, <1>16 DEF Block
  <2>2. a \notin Promoted /\ a \notin Prefix \ Evicted
    BY <2>1 DEF Block
  <2> QED
    BY <1>8, <1>11, <1>12, <2>1, <2>2
<1> QED
  BY <1>15, <1>16

\* The guarantee of a labelled reel is one that fires, is configured and exists.
LEMMA PromisedBounds ==
  ASSUME TypeOK, ranked \in Seq(Reels)
  PROVE  /\ Promised(ranked) \in Nat /\ Promised(ranked) <= FeedSize
         /\ Promised(ranked) <= Cardinality(LabeledIn(ranked, DOMAIN ranked))
<1> DEFINE c == Cardinality(LabeledIn(ranked, DOMAIN ranked))
<1>1. c \in Nat
  BY PlacesFinite, FS_Subset, FS_CardinalityType DEF LabeledIn
<1>2. fired \in Nat /\ fired <= FeedSize /\ GuaranteedSlots \in Nat /\ FeedSize \in Nat
  BY RequestAssumption DEF TypeOK
<1> HIDE DEF c
<1>3. /\ Min({fired, GuaranteedSlots, c}) \in {fired, GuaranteedSlots, c}
      /\ Min({fired, GuaranteedSlots, c}) <= fired /\ Min({fired, GuaranteedSlots, c}) <= c
  <2>1. \E x \in {fired, GuaranteedSlots, c} : \A y \in {fired, GuaranteedSlots, c} : x <= y
    BY <1>1, <1>2
  <2>2. /\ Min({fired, GuaranteedSlots, c}) \in {fired, GuaranteedSlots, c}
        /\ \A y \in {fired, GuaranteedSlots, c} : Min({fired, GuaranteedSlots, c}) <= y
    BY <2>1 DEF Min
  <2> QED
    BY <2>2
<1>4. Promised(ranked) = IF Exploration \in Range(Sources)
                         THEN Min({fired, GuaranteedSlots, c}) ELSE 0
  BY DEF Promised, c
<1>5. CASE Exploration \in Range(Sources)
  <2>1. Promised(ranked) = Min({fired, GuaranteedSlots, c})
    BY <1>4, <1>5
  <2> DEFINE m == Min({fired, GuaranteedSlots, c})
  <2>2. m \in Nat /\ m <= FeedSize /\ m <= c
    <3>1. m \in {fired, GuaranteedSlots, c} /\ m <= fired /\ m <= c
      BY <1>3
    <3> HIDE DEF m
    <3> QED
      BY <1>1, <1>2, <3>1
  <2> QED
    BY <2>1, <2>2 DEF c
<1>6. CASE Exploration \notin Range(Sources)
  BY <1>1, <1>2, <1>4, <1>6 DEF c
<1> QED
  BY <1>5, <1>6

\* What is owed is a difference of two counts.
LEMMA NeedType ==
  ASSUME TypeOK, ranked \in Seq(Reels)
  PROVE  /\ Need \in Int /\ Cardinality(LabeledIn(ranked, Prefix)) \in Nat
         /\ Need = Promised(ranked) - Cardinality(LabeledIn(ranked, Prefix))
<1>1. Cardinality(LabeledIn(ranked, Prefix)) \in Nat
  BY PlacesFinite, FS_Subset, FS_CardinalityType DEF LabeledIn
<1>2. Promised(ranked) \in Nat
  BY PromisedBounds
<1> QED
  BY <1>1, <1>2 DEF Need

\* As many are evicted from the prefix as are promoted into it: what is owed.
LEMMA SwapCounts ==
  ASSUME TypeOK, ranked \in Seq(Reels), Len(ranked) > FeedSize, Need > 0
  PROVE  /\ IsFiniteSet(Evicted) /\ Cardinality(Evicted) = Need
         /\ IsFiniteSet(Promoted) /\ Cardinality(Promoted) = Need
         /\ Evicted \subseteq Prefix \ LabeledIn(ranked, Prefix)
         /\ Promoted \subseteq LabeledIn(ranked, DOMAIN ranked \ Prefix)
<1> DEFINE inside == LabeledIn(ranked, Prefix)
           others == Prefix \ inside
           below == LabeledIn(ranked, DOMAIN ranked \ Prefix)
           after == [i \in others |-> {j \in others : j > i}]
           ahead == [i \in below |-> {j \in below : j < i}]
<1>1. /\ DOMAIN ranked = 1..Len(ranked) /\ Len(ranked) \in Nat
      /\ IsFiniteSet(DOMAIN ranked) /\ IsFiniteSet(Prefix)
      /\ Cardinality(Prefix) = FeedSize /\ FeedSize \in Nat
  BY PlacesFinite, RequestAssumption
<1>2. /\ IsFiniteSet(inside) /\ IsFiniteSet(others) /\ IsFiniteSet(below)
      /\ inside \subseteq Prefix
      /\ Cardinality(inside) \in Nat /\ Cardinality(below) \in Nat
  BY <1>1, FS_Subset, FS_CardinalityType DEF LabeledIn
<1>3. Need \in Nat /\ Need = Promised(ranked) - Cardinality(inside)
  BY NeedType
<1>4. Need <= Cardinality(others)
  <2>1. Prefix \cap inside = inside
    BY <1>2
  <2>2. Cardinality(others) = FeedSize - Cardinality(inside)
    BY <1>1, <2>1, FS_Difference
  <2> HIDE DEF inside, others
  <2> QED
    BY <1>1, <1>2, <1>3, <2>2, PromisedBounds
<1>5. Need <= Cardinality(below)
  <2>1. LabeledIn(ranked, DOMAIN ranked) = inside \cup below /\ inside \cap below = {}
    BY <1>1, RequestAssumption DEF LabeledIn, Prefix
  <2>2. Promised(ranked) <= Cardinality(LabeledIn(ranked, DOMAIN ranked))
        /\ Promised(ranked) \in Nat
    BY PromisedBounds
  <2>3. Promised(ranked) <= Cardinality(inside \cup below)
    BY <2>1, <2>2
  <2> HIDE DEF inside, others, below, after, ahead
  <2>4. Cardinality(inside \cup below)
          = Cardinality(inside) + Cardinality(below) - Cardinality(inside \cap below)
    BY <1>2, FS_Union
  <2>5. Cardinality(inside \cap below) = 0
    BY <2>1, FS_EmptySet
  <2> QED
    BY <1>2, <1>3, <2>2, <2>3, <2>4, <2>5
<1>6. \A i \in others \cup below : i \in Nat
  BY <1>1, RequestAssumption DEF Prefix, LabeledIn
<1>7. IsOrder(others, after)
  <2> HIDE DEF others
  <2>1. \A i, j \in others : i \in Nat /\ j \in Nat
    BY <1>6
  <2>2. after \in [others -> SUBSET others]
    OBVIOUS
  <2>3. \A i \in others : i \notin after[i]
    BY <2>1
  <2>4. \A i, j \in others : i # j => i \in after[j] \/ j \in after[i]
    BY <2>1
  <2>5. \A i, j \in others : j \in after[i] => after[j] \subseteq after[i]
    BY <2>1
  <2> QED
    BY <2>2, <2>3, <2>4, <2>5 DEF IsOrder
<1>8. IsOrder(below, ahead)
  <2> HIDE DEF below
  <2>1. \A i, j \in below : i \in Nat /\ j \in Nat
    BY <1>6
  <2>2. ahead \in [below -> SUBSET below]
    OBVIOUS
  <2>3. \A i \in below : i \notin ahead[i]
    BY <2>1
  <2>4. \A i, j \in below : i # j => i \in ahead[j] \/ j \in ahead[i]
    BY <2>1
  <2>5. \A i, j \in below : j \in ahead[i] => ahead[j] \subseteq ahead[i]
    BY <2>1
  <2> QED
    BY <2>2, <2>3, <2>4, <2>5 DEF IsOrder
<1>9. Evicted = FirstOf(others, after, Need)
  BY DEF Evicted, FirstOf
<1>10. Promoted = FirstOf(below, ahead, Need)
  BY DEF Promoted, FirstOf
<1> HIDE DEF inside, others, below, after, ahead
<1>11. Cardinality(Evicted) = Need
  BY <1>2, <1>3, <1>4, <1>7, <1>9, FirstCount
<1>12. Cardinality(Promoted) = Need
  BY <1>2, <1>3, <1>5, <1>8, <1>10, FirstCount
<1>13. Evicted \subseteq others /\ Promoted \subseteq below
  BY <1>9, <1>10 DEF FirstOf
<1> QED
  BY <1>2, <1>11, <1>12, <1>13, FS_Subset DEF inside, others, below

\* After the guarantee the prefix holds what was kept of it and the promoted.
LEMMA PrefixAfter ==
  ASSUME TypeOK, ranked \in Seq(Reels), IsInjective(ranked), Len(ranked) > FeedSize, Need > 0,
         NEW from \in SetToSeqs(DOMAIN ranked), Sorted(from)
  PROVE  {i \in DOMAIN from : from[i] \in (Prefix \ Evicted) \cup Promoted} = Prefix
<1> DEFINE K == (Prefix \ Evicted) \cup Promoted
           J == {i \in DOMAIN from : from[i] \in K}
<1>1. /\ DOMAIN ranked = 1..Len(ranked) /\ Len(ranked) \in Nat
      /\ IsFiniteSet(DOMAIN ranked) /\ IsFiniteSet(Prefix)
      /\ Cardinality(Prefix) = FeedSize /\ FeedSize \in Nat
  BY PlacesFinite, RequestAssumption
<1>2. /\ from \in Seq(DOMAIN ranked) /\ IsInjective(from) /\ Range(from) = DOMAIN ranked
      /\ DOMAIN from = 1..Len(ranked)
  <2> DEFINE g == [i \in DOMAIN from |-> ranked[from[i]]]
  <2> HIDE DEF g
  <2> QED
    BY <1>1, Rearranged, ZenonT(60)
<1>3. Prefix \subseteq DOMAIN ranked
  BY <1>1 DEF Prefix
<1>4. /\ IsFiniteSet(Evicted) /\ Cardinality(Evicted) = Need
      /\ IsFiniteSet(Promoted) /\ Cardinality(Promoted) = Need
      /\ Evicted \subseteq Prefix /\ Promoted \subseteq DOMAIN ranked \ Prefix
  BY SwapCounts DEF LabeledIn
<1>5. K \in SUBSET DOMAIN ranked /\ Cardinality(K) = FeedSize
  <2>1. Prefix \cap Evicted = Evicted /\ (Prefix \ Evicted) \cap Promoted = {}
    BY <1>4
  <2> HIDE DEF K, J
  <2>a. IsFiniteSet(Prefix \ Evicted)
    BY <1>1, FS_Subset
  <2>b. Cardinality(Prefix \ Evicted) = Cardinality(Prefix) - Cardinality(Prefix \cap Evicted)
    BY <1>1, FS_Difference
  <2>2. Cardinality(Prefix \ Evicted) = FeedSize - Need /\ IsFiniteSet(Prefix \ Evicted)
    BY <1>1, <1>4, <2>1, <2>a, <2>b
  <2>3. Cardinality(K) = Cardinality(Prefix \ Evicted) + Cardinality(Promoted)
                           - Cardinality((Prefix \ Evicted) \cap Promoted)
    BY <1>4, <2>2, FS_Union DEF K
  <2>4. Cardinality(K) = FeedSize - Need + Need - 0
    BY <1>4, <2>1, <2>2, <2>3, FS_EmptySet
  <2>5. K \in SUBSET DOMAIN ranked
    BY <1>3, <1>4 DEF K
  <2> QED
    BY <1>1, <2>4, <2>5, NeedType
<1> HIDE DEF K
<1>6. Cardinality(J) = FeedSize
  BY <1>1, <1>2, <1>5, PlacesCount
<1>7. \A i \in 1..Len(ranked), j \in J : i < j => i \in J
  <2> SUFFICES ASSUME NEW i \in 1..Len(ranked), NEW j \in J, i < j PROVE from[i] \in K
    BY <1>2
  <2>1. Block(from[i]) <= Block(from[j])
    BY <1>2 DEF Sorted, Block
  <2>2. Block(from[j]) \in {0, 1}
    BY DEF Block, K
  <2>3. Block(from[i]) # 2
    BY <2>1, <2>2
  <2> QED
    BY <2>3 DEF Block, K
<1>8. J \in SUBSET (1..Len(ranked))
  BY <1>2
<1> HIDE DEF J
<1>9. J = 1..FeedSize
  BY <1>1, <1>6, <1>7, <1>8, InitialSegment
<1> QED
  BY <1>9 DEF J, K, Prefix

\* The larger of two integers.
LEMMA MaxOfTwo ==
  ASSUME NEW a \in Int, NEW b \in Int PROVE Max({a, b}) = IF a >= b THEN a ELSE b
<1>1. \E x \in {a, b} : \A y \in {a, b} : x >= y
  OBVIOUS
<1>2. Max({a, b}) \in {a, b} /\ \A y \in {a, b} : Max({a, b}) >= y
  BY <1>1 DEF Max
<1> QED
  BY <1>2

\* What the guarantee leaves in the prefix: the exploration reels that were
\* there and the promoted ones, which together are as many as it promised.
LEMMA GuaranteeCount ==
  ASSUME TypeOK, ranked \in Seq(Reels), IsInjective(ranked), Len(ranked) > FeedSize, Need > 0,
         NEW from \in SetToSeqs(DOMAIN ranked), Sorted(from),
         NEW new, new = [i \in DOMAIN from |-> ranked[from[i]]]
  PROVE  Cardinality(LabeledIn(new, Prefix)) = Promised(ranked)
<1> DEFINE K == (Prefix \ Evicted) \cup Promoted
           inside == LabeledIn(ranked, Prefix)
           K2 == inside \cup Promoted
<1>1. /\ DOMAIN ranked = 1..Len(ranked) /\ Len(ranked) \in Nat
      /\ IsFiniteSet(DOMAIN ranked) /\ IsFiniteSet(Prefix) /\ FeedSize \in Nat
  BY PlacesFinite, RequestAssumption
<1>2. /\ from \in Seq(DOMAIN ranked) /\ IsInjective(from) /\ Range(from) = DOMAIN ranked
      /\ DOMAIN from = DOMAIN ranked /\ DOMAIN new = DOMAIN ranked
  BY Rearranged
<1>3. /\ IsFiniteSet(Promoted) /\ Cardinality(Promoted) = Need
      /\ Evicted \subseteq Prefix \ inside
      /\ Promoted \subseteq LabeledIn(ranked, DOMAIN ranked \ Prefix)
  BY SwapCounts
<1>4. {i \in DOMAIN from : from[i] \in K} = Prefix
  BY PrefixAfter
<1>5. \A k \in DOMAIN ranked : k \in K /\ ExplorationLabeled(ranked[k]) <=> k \in K2
  BY <1>3 DEF LabeledIn
<1>6. K2 \in SUBSET DOMAIN ranked /\ IsFiniteSet(inside) /\ inside \cap Promoted = {}
  BY <1>1, <1>3, FS_Subset DEF LabeledIn
<1>7. LabeledIn(new, Prefix) = {i \in DOMAIN from : from[i] \in K2}
  <2>1. \A i \in DOMAIN from : from[i] \in DOMAIN ranked /\ new[i] = ranked[from[i]]
    BY <1>2 DEF Range
  <2>2. LabeledIn(new, Prefix) = {i \in DOMAIN from : i \in Prefix /\ ExplorationLabeled(new[i])}
    BY <1>2 DEF LabeledIn
  <2> HIDE DEF K, K2, inside
  <2> QED
    BY <1>4, <1>5, <2>1, <2>2
<1> HIDE DEF K, K2
<1>8. Cardinality(LabeledIn(new, Prefix)) = Cardinality(K2)
  <2> HIDE DEF inside
  <2> DEFINE D == DOMAIN ranked
  <2>1. /\ IsFiniteSet(D) /\ from \in Seq(D) /\ IsInjective(from) /\ Range(from) = D
        /\ K2 \in SUBSET D
    BY <1>1, <1>2, <1>6
  <2> HIDE DEF D
  <2> QED
    BY <1>7, <2>1, PlacesCount
<1>9. Cardinality(K2) = Cardinality(inside) + Cardinality(Promoted) - 0
  <2> HIDE DEF inside
  <2>1. Cardinality(inside \cup Promoted)
          = Cardinality(inside) + Cardinality(Promoted) - Cardinality(inside \cap Promoted)
    BY <1>3, <1>6, FS_Union
  <2> QED
    BY <1>6, <2>1, FS_EmptySet DEF K2
<1>10. /\ Need = Promised(ranked) - Cardinality(inside)
       /\ Cardinality(inside) \in Nat /\ Promised(ranked) \in Nat
  BY NeedType, PromisedBounds
<1> HIDE DEF inside
<1> QED
  BY <1>3, <1>8, <1>9, <1>10

\* The guarantee leaves the prefix with what it promised, or untouched with
\* what the ranker had put there.
LEMMA GuaranteeMeets ==
  ASSUME TypeOK, Permuted, Guarantee PROVE GuaranteeExact'
<1>1. /\ UNCHANGED <<order, pool, fired>> /\ order = ranked
      /\ ranked \in Seq(Reels) /\ IsInjective(ranked)
  BY DEF Guarantee, Permuted, RankStages
<1> DEFINE owed == Promised(ranked)
           had == Cardinality(LabeledIn(ranked, Prefix))
<1>2. /\ owed \in Nat /\ owed <= Cardinality(LabeledIn(ranked, DOMAIN ranked))
      /\ had \in Nat /\ Need = owed - had
  BY <1>1, PromisedBounds, NeedType
<1>3. Promised(order)' = owed /\ Cardinality(LabeledIn(order, Prefix))' = had
  BY <1>1 DEF Promised, LabeledIn, ExplorationLabeled
<1>4. LabeledIn(ranked, Prefix)' = LabeledIn(ranked', Prefix)
  BY <1>1 DEF LabeledIn, ExplorationLabeled
<1>5. SUFFICES Cardinality(LabeledIn(ranked', Prefix)) = IF owed >= had THEN owed ELSE had
  <2> HIDE DEF owed, had
  <2>1. Max({owed, had}) = IF owed >= had THEN owed ELSE had
    BY <1>2, MaxOfTwo
  <2> QED
    BY <1>3, <1>4, <2>1 DEF GuaranteeExact
<1>6. CASE Len(ranked) <= FeedSize \/ Need <= 0
  <2>1. ranked' = ranked
    BY <1>6 DEF Guarantee
  <2>2. owed <= had
    <3>1. CASE Len(ranked) <= FeedSize
      <4>1. LabeledIn(ranked, DOMAIN ranked) = LabeledIn(ranked, Prefix)
        BY <1>1, <3>1, PlacesFinite, RequestAssumption DEF LabeledIn, Prefix
      <4> QED
        BY <1>2, <4>1
    <3>2. CASE Need <= 0
      <4> HIDE DEF owed, had
      <4> QED
        BY <1>2, <3>2
    <3> QED
      BY <1>6, <3>1, <3>2
  <2>3. Cardinality(LabeledIn(ranked', Prefix)) = had
    BY <2>1
  <2> HIDE DEF owed, had
  <2> QED
    BY <1>2, <2>2, <2>3
<1>7. CASE ~(Len(ranked) <= FeedSize \/ Need <= 0)
  <2>1. PICK from \in SetToSeqs(DOMAIN ranked) :
          Sorted(from) /\ ranked' = [i \in DOMAIN from |-> ranked[from[i]]]
    BY <1>7 DEF Guarantee, Sorted
  <2>2. Len(ranked) > FeedSize /\ Need > 0
    BY <1>1, <1>7, PlacesFinite, NeedType, RequestAssumption
  <2>3. Cardinality(LabeledIn(ranked', Prefix)) = owed
    BY <1>1, <2>1, <2>2, GuaranteeCount
  <2> HIDE DEF owed, had
  <2> QED
    BY <1>2, <2>2, <2>3
<1> QED
  BY <1>6, <1>7

\* A reel goes ahead of a better ranked one only into a better block.
LEMMA GuaranteeOvertakes ==
  ASSUME TypeOK, Permuted, Guarantee PROVE OnlyExplorationOvertakes'
<1>1. /\ UNCHANGED <<order, pool>> /\ order = ranked
      /\ ranked \in Seq(Reels) /\ IsInjective(ranked)
  BY DEF Guarantee, Permuted, RankStages
<1>2. Permuted'
  BY PermutedStep DEF Next, Recommend
<1>3. stage' \in RankStages
  BY DEF Guarantee, RankStages
<1>4. Range(ranked') = DOMAIN pool' /\ IsInjective(ranked')
  BY <1>2, <1>3 DEF Permuted
<1> DEFINE place(r) == CHOOSE i \in DOMAIN ranked' : ranked'[i] = r
<1>5. SUFFICES ASSUME NEW a \in DOMAIN ranked, NEW b \in DOMAIN ranked, a < b,
                      place(ranked[b]) < place(ranked[a])
               PROVE  ExplorationLabeled(ranked[b]) /\ ~ExplorationLabeled(ranked[a])
  BY <1>1, <1>4 DEF OnlyExplorationOvertakes, ExplorationLabeled
<1>6. a \in Nat /\ b \in Nat
  BY <1>1, PlacesFinite
<1>7. CASE Len(ranked) <= FeedSize \/ Need <= 0
  <2>1. ranked' = ranked
    BY <1>7 DEF Guarantee
  <2>2. place(ranked[a]) = a /\ place(ranked[b]) = b
    BY <1>1, <2>1 DEF IsInjective
  <2>3. b < a
    BY <1>5, <2>2
  <2> HIDE DEF place
  <2> QED
    BY <1>5, <1>6, <2>3
<1>8. CASE ~(Len(ranked) <= FeedSize \/ Need <= 0)
  <2>1. PICK from \in SetToSeqs(DOMAIN ranked) :
          Sorted(from) /\ ranked' = [i \in DOMAIN from |-> ranked[from[i]]]
    BY <1>8 DEF Guarantee, Sorted
  <2>2. /\ IsInjective(from) /\ Range(from) = DOMAIN ranked
        /\ DOMAIN from = DOMAIN ranked /\ DOMAIN ranked' = DOMAIN ranked
    BY <1>1, <2>1, Rearranged
  <2>3. \A i \in DOMAIN from : from[i] \in DOMAIN ranked /\ ranked'[i] = ranked[from[i]]
    BY <2>1, <2>2 DEF Range
  <2>4. ASSUME NEW x \in DOMAIN ranked
        PROVE  place(ranked[x]) \in DOMAIN from /\ from[place(ranked[x])] = x
    <3>1. PICK i \in DOMAIN from : from[i] = x
      BY <2>2 DEF Range
    <3>2. place(ranked[x]) \in DOMAIN from /\ ranked'[place(ranked[x])] = ranked[x]
      BY <2>2, <2>3, <3>1
    <3> HIDE DEF place
    <3>3. from[place(ranked[x])] \in DOMAIN ranked
          /\ ranked[from[place(ranked[x])]] = ranked[x]
      BY <2>3, <3>2
    <3> QED
      BY <1>1, <3>2, <3>3 DEF IsInjective
  <2> HIDE DEF place
  <2>5. \/ Block(b) < Block(a)
        \/ Block(b) = Block(a) /\ b < a
    BY <1>5, <2>1, <2>4 DEF Sorted
  <2>6. Block(b) < Block(a)
    BY <1>5, <1>6, <2>5
  <2>7. Need \in Int
    BY <1>1, NeedType
  <2> QED
    BY <1>1, <1>5, <2>6, <2>7, BlockOrder
<1> QED
  BY <1>7, <1>8

\* Past the guarantee nothing touches the ranking any more.
LEMMA RerankedStep ==
  ASSUME TypeOK, [Next]_vars, ~Guarantee, Reranked'
  PROVE  Reranked /\ UNCHANGED <<ranked, order, pool, fired>>
<1>1. CASE UNCHANGED vars
  BY <1>1 DEF vars, Reranked
<1>2. ~Request /\ ~Retrieve /\ ~RetrieveEnd /\ ~Filter /\ ~Cap /\ ~Consume
  BY DEF Request, Retrieve, RetrieveEnd, Filter, Cap, Consume, Reranked
<1>3. ~Rank
  BY DEF Rank, Reranked
<1>4. ASSUME Truncate \/ Admit \/ Skip \/ SelectEnd \/ ArrangeMmr \/ SwapPass \/ ArrangeEnd
      PROVE  Reranked /\ UNCHANGED <<ranked, order, pool, fired>>
  <2>1. UNCHANGED <<path, ranked, order, pool, fired>>
    BY <1>4 DEF Truncate, Admit, Skip, SelectEnd, ArrangeMmr, SwapPass, ArrangeEnd
  <2>2. stage \in {"truncate", "select", "arrange"}
    BY <1>4 DEF Truncate, Admit, Skip, SelectEnd, ArrangeMmr, SwapPass, ArrangeEnd, Walking
  <2> QED
    BY <2>1, <2>2 DEF Reranked
<1> QED
  BY <1>1, <1>2, <1>3, <1>4 DEF Next, Recommend

\* The exploration guarantee is met and not exceeded: whenever the ranking is
\* used the feed's places hold the promised number of exploration reels, or
\* what the ranker had put there if that was more.
THEOREM GuaranteeExactCorrect == Spec => []GuaranteeExact
<1>1. Init => GuaranteeExact
  BY DEF Init, GuaranteeExact, Reranked
<1>2. TypeOK /\ Permuted /\ GuaranteeExact /\ [Next]_vars => GuaranteeExact'
  <2> SUFFICES ASSUME TypeOK, Permuted, GuaranteeExact, [Next]_vars, ~Guarantee, Reranked'
               PROVE  GuaranteeExact'
    BY GuaranteeMeets DEF GuaranteeExact
  <2> QED
    BY RerankedStep DEF GuaranteeExact, Promised, LabeledIn, ExplorationLabeled
<1> QED
  BY <1>1, <1>2, RankingInvariant, PTL DEF Spec

\* The guarantee disturbs the ranking as little as it can: a reel overtakes a
\* better ranked one only if it is an exploration reel and the other is not.
THEOREM OnlyExplorationOvertakesCorrect == Spec => []OnlyExplorationOvertakes
<1>1. Init => OnlyExplorationOvertakes
  BY DEF Init, OnlyExplorationOvertakes, Reranked
<1>2. TypeOK /\ Permuted /\ OnlyExplorationOvertakes /\ [Next]_vars
        => OnlyExplorationOvertakes'
  <2> SUFFICES ASSUME TypeOK, Permuted, OnlyExplorationOvertakes, [Next]_vars, ~Guarantee,
                      Reranked'
               PROVE  OnlyExplorationOvertakes'
    BY GuaranteeOvertakes DEF OnlyExplorationOvertakes
  <2> QED
    BY RerankedStep DEF OnlyExplorationOvertakes, ExplorationLabeled
<1> QED
  BY <1>1, <1>2, RankingInvariant, PTL DEF Spec
------------------------------------------------------------------------------
(* A short feed was forced *)

\* A candidate before the cursor is in the feed or kept out by a cap.
Passed ==
  \A k \in DOMAIN ranked : k < cursor => ranked[k] \in chosen \/ Capped(ranked[k], chosen)

\* The walk begins at the best candidate, and each one it has passed is in the
\* feed or kept out by a cap; once it ends short, that is so of the whole pool.
Walked ==
  /\ stage \in {"retrieve", "filter", "cap", "rank", "guarantee", "truncate"} => cursor = 1
  /\ stage = "select" => Passed
  /\ stage = "arrange" /\ Len(feed) < FeedSize =>
       \A r \in DOMAIN pool \ chosen : Capped(r, chosen)
  /\ ShortOnlyWhenForced

\* A cap that is reached stays reached.
LEMMA CappedStays ==
  ASSUME TypeOK, NEW small \in SUBSET Reels, NEW big \in SUBSET Reels, small \subseteq big,
         NEW r \in Reels, Capped(r, small)
  PROVE  Capped(r, big)
<1>1. caps.creator \in Nat /\ caps.topic[Topic[r]] \in Nat
  BY CatalogueAssumption DEF TypeOK, Topics, Range
<1>2. \A p, q \in SUBSET Reels : p \subseteq q =>
        Cardinality(p) \in Nat /\ Cardinality(q) \in Nat /\ Cardinality(p) <= Cardinality(q)
  <2> TAKE p, q \in SUBSET Reels
  <2>1. IsFiniteSet(q) /\ IsFiniteSet(p)
    BY CatalogueAssumption, FS_Subset
  <2> QED
    BY <2>1, FS_Subset, FS_CardinalityType
<1>3. /\ Cardinality(OfCreator(Creator[r], small)) <= Cardinality(OfCreator(Creator[r], big))
      /\ Cardinality(OfCreator(Creator[r], small)) \in Nat
      /\ Cardinality(OfCreator(Creator[r], big)) \in Nat
  <2> DEFINE p == OfCreator(Creator[r], small)
             q == OfCreator(Creator[r], big)
  <2>1. p \in SUBSET Reels /\ q \in SUBSET Reels /\ p \subseteq q
    BY DEF OfCreator
  <2> HIDE DEF p, q
  <2>2. Cardinality(p) \in Nat /\ Cardinality(q) \in Nat /\ Cardinality(p) <= Cardinality(q)
    BY <1>2, <2>1
  <2> QED
    BY <2>2 DEF p, q
<1>4. /\ Cardinality(OfTopic(Topic[r], small)) <= Cardinality(OfTopic(Topic[r], big))
      /\ Cardinality(OfTopic(Topic[r], small)) \in Nat
      /\ Cardinality(OfTopic(Topic[r], big)) \in Nat
  <2> DEFINE p == OfTopic(Topic[r], small)
             q == OfTopic(Topic[r], big)
  <2>1. p \in SUBSET Reels /\ q \in SUBSET Reels /\ p \subseteq q
    BY DEF OfTopic
  <2> HIDE DEF p, q
  <2>2. Cardinality(p) \in Nat /\ Cardinality(q) \in Nat /\ Cardinality(p) <= Cardinality(q)
    BY <1>2, <2>1
  <2> QED
    BY <2>2 DEF p, q
<1> QED
  BY <1>1, <1>3, <1>4 DEF Capped

\* The feed of the cut is the whole ranking when that is short.
LEMMA TruncateWalked ==
  ASSUME TypeOK, Permuted, Truncate PROVE ShortOnlyWhenForced'
<1> DEFINE n == Lower(FeedSize, Len(ranked))
<1>1. ranked \in Seq(Reels) /\ Range(ranked) = DOMAIN pool /\ UNCHANGED <<pool, ranked>>
  BY DEF Truncate, Permuted, RankStages
<1>2. DOMAIN ranked = 1..Len(ranked) /\ Len(ranked) \in Nat
  BY <1>1, PlacesFinite
<1>3. n \in 0..Len(ranked) /\ (n < FeedSize => n = Len(ranked))
  <2> DEFINE l == Len(ranked)
  <2>1. l \in Nat /\ n = Lower(FeedSize, l)
    BY <1>2
  <2> HIDE DEF l, n
  <2> QED
    BY <2>1, RequestAssumption DEF Lower, l
<1>4. feed' = SubSeq(ranked, 1, n)
  BY DEF Truncate
<1> HIDE DEF n
<1>5. /\ feed' \in Seq(Reels) /\ Len(feed') = n /\ \A i \in 1..n : feed'[i] = ranked[i]
  BY <1>1, <1>3, <1>4, PrefixRange
<1>6. DOMAIN feed' = 1..n
  BY <1>5, LenProperties
<1>7. ASSUME Len(feed') < FeedSize PROVE Range(feed') = DOMAIN pool'
  <2>1. n = Len(ranked)
    BY <1>3, <1>5, <1>7
  <2> QED
    BY <1>1, <1>2, <1>5, <1>6, <2>1 DEF Range
<1> QED
  BY <1>7 DEF ShortOnlyWhenForced

\* Each candidate the walk passes is admitted or kept out by a cap: what it
\* has not admitted yet is unseen.
LEMMA PassedStep ==
  ASSUME TypeOK, Shape, Walked, Admit \/ Skip
  PROVE  Passed'
<1>1. /\ stage = "select" /\ cursor' = cursor + 1 /\ UNCHANGED <<ranked, pool, caps>>
      /\ cursor \in DOMAIN ranked
  BY LenProperties DEF Admit, Skip, SkipTo, Walking, TypeOK
<1>2. \A k \in DOMAIN ranked : k \in Nat /\ ranked[k] \in Reels
  BY LenProperties, ElementOfSeq DEF TypeOK
<1>3. chosen \in SUBSET Reels /\ chosen' \in SUBSET Reels /\ chosen \subseteq chosen'
  BY <1>1, <1>2 DEF Admit, Skip, TypeOK
<1>4. \A r \in Reels : Capped(r, chosen)' <=> Capped(r, chosen')
  BY <1>1 DEF Capped
<1> SUFFICES ASSUME NEW k \in DOMAIN ranked, k < cursor + 1
             PROVE  ranked[k] \in chosen' \/ Capped(ranked[k], chosen')
  BY <1>1, <1>2, <1>4 DEF Passed
<1>5. CASE k < cursor
  <2>1. ranked[k] \in chosen \/ Capped(ranked[k], chosen)
    BY <1>1, <1>5 DEF Walked, Passed
  <2> QED
    BY <1>2, <1>3, <2>1, CappedStays
<1>6. CASE k = cursor
  <2>1. CASE Admit
    BY <1>6, <2>1 DEF Admit
  <2>2. CASE Skip
    <3>1. ranked[k] \in DOMAIN pool
      BY <1>1 DEF Shape, RankedFromPool, Range
    <3>2. ranked[k] \notin seen
      BY <1>1, <3>1 DEF Shape, PoolServable
    <3>3. ranked[k] \in chosen \/ Capped(ranked[k], chosen)
      BY <1>6, <2>2, <3>2 DEF Skip, Admissible
    <3> QED
      BY <2>2, <3>3 DEF Skip
  <2> QED
    BY <2>1, <2>2
<1>7. cursor \in Nat
  BY DEF TypeOK
<1> QED
  BY <1>2, <1>5, <1>6, <1>7

\* The walk ends before the feed is full only past the last candidate.
LEMMA SelectEndWalked ==
  ASSUME TypeOK, Permuted, Walked, SelectEnd PROVE Walked'
<1>1. /\ stage = "select" /\ ~Walking /\ stage' = "arrange"
      /\ UNCHANGED <<ranked, pool, caps, chosen, feed>>
  BY DEF SelectEnd
<1>2. ASSUME Len(feed) < FeedSize, NEW r \in DOMAIN pool \ chosen PROVE Capped(r, chosen)
  <2>1. ranked \in Seq(Reels) /\ Range(ranked) = DOMAIN pool
    BY <1>1 DEF Permuted, RankStages
  <2>2. PICK k \in DOMAIN ranked : ranked[k] = r
    BY <2>1 DEF Range
  <2>3. k \in 1..Len(ranked) /\ Len(ranked) \in Nat /\ cursor \in Nat /\ ~(cursor <= Len(ranked))
    BY <1>1, <1>2, <2>1, PlacesFinite DEF Walking, TypeOK
  <2>4. k < cursor
    BY <2>3
  <2> QED
    BY <1>1, <1>2, <2>2, <2>4 DEF Walked, Passed
<1>3. \A r : Capped(r, chosen)' <=> Capped(r, chosen)
  BY <1>1 DEF Capped
<1> QED
  BY <1>1, <1>2, <1>3 DEF Walked, ShortOnlyWhenForced

\* The arrangement keeps the feed's reels.
LEMMA ArrangeKeeps ==
  ASSUME TypeOK, Shape, ArrangeMmr \/ SwapPass \/ ArrangeEnd
  PROVE  chosen = Range(feed) /\ Range(feed') = chosen /\ Len(feed') = Len(feed)
<1>1. stage = "arrange" /\ path = "diverse"
  BY DEF ArrangeMmr, SwapPass, ArrangeEnd, Shape, Ways
<1>2. chosen = Range(feed) /\ Cardinality(chosen) = Len(feed) /\ feed \in Seq(Reels)
  BY <1>1 DEF Shape, ChosenIsFeed, TypeOK
<1>3. Range(feed') = chosen /\ Len(feed') = Len(feed)
  <2>1. CASE ArrangeMmr
    <3>1. IsFiniteSet(chosen)
      BY CatalogueAssumption, FS_Subset DEF TypeOK
    <3> QED
      BY <1>2, <2>1, <3>1, Arrangements, ArrangementsOnto DEF ArrangeMmr
  <2>2. CASE SwapPass
    <3>1. CASE feed' = feed
      BY <1>2, <3>1
    <3>2. CASE \E j \in Different : feed' = Exchanged(j)
      <4>1. PICK j \in Different : feed' = Exchanged(j)
        BY <3>2
      <4>2. j \in DOMAIN feed /\ cursor + 1 \in DOMAIN feed
        BY <1>2, <2>2, LenProperties DEF Different, SwapPass, TypeOK
      <4> QED
        BY <1>2, <4>1, <4>2, SwapKeeps
    <3> QED
      BY <2>2, <3>1, <3>2 DEF SwapPass
  <2>3. CASE ArrangeEnd
    BY <1>2, <2>3 DEF ArrangeEnd
  <2> QED
    BY <2>1, <2>2, <2>3
<1> QED
  BY <1>2, <1>3

\* The arrangement keeps the feed's reels, and what each cap counts with them.
LEMMA ArrangeWalked ==
  ASSUME TypeOK, Shape, Walked, ArrangeMmr \/ SwapPass \/ ArrangeEnd PROVE Walked'
<1>1. /\ stage = "arrange" /\ path = "diverse" /\ UNCHANGED <<pool, caps, chosen, path>>
      /\ stage' \in {"arrange", "done"}
  BY DEF ArrangeMmr, SwapPass, ArrangeEnd, Shape, Ways
<1>2. chosen = Range(feed) /\ Range(feed') = chosen /\ Len(feed') = Len(feed)
  BY ArrangeKeeps
<1>3. Range(feed') = chosen /\ Len(feed') = Len(feed)
  BY <1>2
<1>4. \A r : Capped(r, chosen)' <=> Capped(r, chosen)
  BY <1>1 DEF Capped
<1>5. Len(feed') < FeedSize => \A r \in DOMAIN pool' \ chosen' : Capped(r, chosen)'
  BY <1>1, <1>3, <1>4 DEF Walked
<1>6. ShortOnlyWhenForced'
  <2>1. \A r : Capped(r, Range(feed))' <=> Capped(r, chosen)'
    BY <1>1, <1>3 DEF Capped
  <2> QED
    BY <1>1, <1>3, <1>5, <2>1 DEF ShortOnlyWhenForced
<1> QED
  BY <1>1, <1>5, <1>6 DEF Walked

\* Every step keeps what is known of the walk.
LEMMA WalkedStep ==
  ASSUME TypeOK, Shape, Permuted, Walked, [Next]_vars PROVE Walked'
<1>1. CASE Request \/ Retrieve \/ RetrieveEnd \/ Filter \/ Cap \/ Rank \/ Guarantee
  <2>1. /\ cursor' = 1
        /\ stage' \in {"retrieve", "filter", "cap", "rank", "guarantee", "truncate", "select"}
    <3>1. CASE Request
      BY <3>1 DEF Request
    <3>2. CASE Retrieve \/ RetrieveEnd \/ Filter \/ Cap
      BY <3>2 DEF Retrieve, RetrieveEnd, Filter, Cap, Walked
    <3>3. CASE Rank \/ Guarantee
      BY <3>3 DEF Rank, Guarantee, Walked
    <3> QED
      BY <1>1, <3>1, <3>2, <3>3
  <2>2. ranked' \in Seq(Reels)
    BY TypeStep DEF TypeOK
  <2>3. \A k \in DOMAIN ranked' : ~(k < 1)
    BY <2>2, LenProperties
  <2> QED
    BY <2>1, <2>3 DEF Walked, Passed, ShortOnlyWhenForced
<1>2. CASE Truncate
  <2>1. stage' = "done"
    BY <1>2 DEF Truncate
  <2> QED
    BY <1>2, <2>1, TruncateWalked DEF Walked
<1>3. CASE Admit \/ Skip
  <2>1. stage' = "select"
    BY <1>3 DEF Admit, Skip, Walking
  <2> QED
    BY <1>3, <2>1, PassedStep DEF Walked, ShortOnlyWhenForced
<1>4. CASE SelectEnd
  BY <1>4, SelectEndWalked
<1>5. CASE ArrangeMmr \/ SwapPass \/ ArrangeEnd
  BY <1>5, ArrangeWalked
<1>6. CASE Consume
  BY <1>6 DEF Consume, Walked, ShortOnlyWhenForced
<1>7. CASE UNCHANGED vars
  BY <1>7 DEF vars, Walked, Passed, ShortOnlyWhenForced, Capped
<1> QED
  BY <1>1, <1>2, <1>3, <1>4, <1>5, <1>6, <1>7 DEF Next, Recommend

\* A feed is shorter than asked only when no other candidate of the pool could
\* be added without breaking a cap.
THEOREM ShortOnlyWhenForcedCorrect == Spec => []ShortOnlyWhenForced
<1>1. Init => Walked
  BY DEF Init, Walked, ShortOnlyWhenForced
<1>2. (TypeOK /\ Shape /\ Permuted) /\ Walked /\ [Next]_vars => Walked'
  BY WalkedStep
<1>3. Walked => ShortOnlyWhenForced
  BY DEF Walked
<1> QED
  BY <1>1, <1>2, <1>3, RankingInvariant, PTL DEF Spec
------------------------------------------------------------------------------
(* Relevance loses only to the caps *)

\* Place k is lost to a cap that the reels chosen from above it reach.
LostToCap(k) == Capped(ranked[k], Above(k) \cap chosen)

\* What is chosen lies above the cursor, and each place the walk has passed is
\* chosen or lost to a cap; once it has ended, that is so of every place, unless
\* the feed was full by then.
WalkedInOrder ==
  /\ stage \in {"retrieve", "filter", "cap", "rank", "guarantee", "truncate"} => cursor = 1
  /\ stage = "select" =>
       /\ chosen \subseteq Above(cursor)
       /\ \A k \in DOMAIN ranked : k < cursor => ranked[k] \in chosen \/ LostToCap(k)
  /\ stage = "arrange" =>
       \A k \in DOMAIN ranked :
         \/ ranked[k] \in chosen
         \/ Cardinality(Above(k) \cap chosen) = FeedSize
         \/ LostToCap(k)
  /\ PassedOverOnlyForCaps

\* The walk keeps the ranking: what it admits comes below what it has chosen.
LEMMA InOrderStep ==
  ASSUME TypeOK, Shape, WalkedInOrder, Admit \/ Skip
  PROVE  /\ chosen' \subseteq Above(cursor)'
         /\ \A k \in DOMAIN ranked' :
              k < cursor' => ranked'[k] \in chosen' \/ LostToCap(k)'
<1>1. /\ stage = "select" /\ cursor' = cursor + 1 /\ UNCHANGED <<ranked, pool, caps>>
      /\ cursor \in DOMAIN ranked /\ cursor \in Nat
  BY LenProperties DEF Admit, Skip, SkipTo, Walking, TypeOK
<1>2. \A k \in DOMAIN ranked :
        /\ k \in Nat /\ ranked[k] \in Reels
        /\ Above(k) \subseteq Reels /\ Above(k)' = Above(k)
  <2> TAKE k \in DOMAIN ranked
  <2>1. k \in 1..Len(ranked) /\ Len(ranked) \in Nat /\ ranked[k] \in Reels
    BY LenProperties, ElementOfSeq DEF TypeOK
  <2>2. \A j \in 1..(k - 1) : j \in DOMAIN ranked
    BY <2>1, LenProperties DEF TypeOK
  <2> QED
    BY <1>1, <2>1, <2>2, ElementOfSeq DEF Above, TypeOK
<1>3. chosen \in SUBSET Reels /\ chosen' \in SUBSET Reels /\ chosen \subseteq chosen'
  BY <1>1, <1>2 DEF Admit, Skip, TypeOK
<1>4. \A r, reels : Capped(r, reels)' <=> Capped(r', reels')
  BY <1>1 DEF Capped
<1>5. chosen \subseteq Above(cursor)
  BY <1>1 DEF WalkedInOrder
<1>6. chosen' \subseteq Above(cursor)'
  <2>1. Above(cursor)' = Above(cursor) \cup {ranked[cursor]}
    <3>1. 1..(cursor + 1 - 1) = 1..(cursor - 1) \cup {cursor}
      <4>1. cursor >= 1
        BY <1>1, LenProperties DEF TypeOK
      <4> QED
        BY <1>1, <4>1
    <3> QED
      BY <1>1, <3>1 DEF Above
  <2> QED
    BY <1>1, <1>5, <2>1 DEF Admit, Skip
<1> SUFFICES ASSUME NEW k \in DOMAIN ranked, k < cursor + 1
             PROVE  ranked[k] \in chosen' \/ Capped(ranked[k], Above(k) \cap chosen')
  <2>1. \A k \in DOMAIN ranked :
          LostToCap(k)' <=> Capped(ranked[k], Above(k) \cap chosen')
    BY <1>1, <1>2 DEF LostToCap, Capped
  <2> QED
    BY <1>1, <1>6, <2>1
<1>7. CASE k < cursor
  <2>1. ranked[k] \in chosen \/ Capped(ranked[k], Above(k) \cap chosen)
    BY <1>1, <1>7 DEF WalkedInOrder, LostToCap
  <2>2. /\ Above(k) \cap chosen \in SUBSET Reels /\ Above(k) \cap chosen' \in SUBSET Reels
        /\ Above(k) \cap chosen \subseteq Above(k) \cap chosen'
    BY <1>2, <1>3
  <2> QED
    BY <1>2, <1>3, <2>1, <2>2, CappedStays
<1>8. CASE k = cursor
  <2>1. CASE Admit
    BY <1>8, <2>1 DEF Admit
  <2>2. CASE Skip
    <3>1. ranked[k] \in DOMAIN pool
      BY <1>1 DEF Shape, RankedFromPool, Range
    <3>2. ranked[k] \notin seen
      BY <1>1, <3>1 DEF Shape, PoolServable
    <3>3. ranked[k] \in chosen \/ Capped(ranked[k], chosen)
      BY <1>8, <2>2, <3>2 DEF Skip, Admissible
    <3>4. chosen' = chosen /\ Above(k) \cap chosen' = chosen
      BY <1>5, <1>8, <2>2 DEF Skip
    <3> QED
      BY <3>3, <3>4
  <2> QED
    BY <2>1, <2>2
<1> QED
  BY <1>1, <1>2, <1>7, <1>8

\* The walk ends past the last place, or with a full feed from above the rest.
LEMMA SelectEndInOrder ==
  ASSUME TypeOK, Shape, WalkedInOrder, SelectEnd PROVE WalkedInOrder'
<1>1. /\ stage = "select" /\ ~Walking /\ stage' = "arrange" /\ path = "diverse"
      /\ UNCHANGED <<ranked, pool, caps, chosen, feed>>
  BY DEF SelectEnd, Shape, Ways
<1>2. ASSUME NEW k \in DOMAIN ranked
      PROVE  \/ ranked[k] \in chosen
             \/ Cardinality(Above(k) \cap chosen) = FeedSize
             \/ LostToCap(k)
  <2>1. k \in 1..Len(ranked) /\ Len(ranked) \in Nat /\ cursor \in Nat
    BY LenProperties DEF TypeOK
  <2>2. CASE k < cursor
    BY <1>1, <2>2 DEF WalkedInOrder
  <2>3. CASE ~(k < cursor)
    <3>1. ~(Len(feed) < FeedSize)
      BY <1>1, <2>1, <2>3 DEF Walking
    <3>2. Cardinality(chosen) = FeedSize
      <4>1. Cardinality(chosen) = Len(feed) /\ Len(feed) <= FeedSize
        BY <1>1 DEF Shape, ChosenIsFeed, FeedFromPool
      <4>2. Len(feed) \in Nat
        BY LenProperties DEF TypeOK
      <4> QED
        BY <3>1, <4>1, <4>2, RequestAssumption
    <3>3. chosen \subseteq Above(k)
      BY <1>1, <2>1, <2>3 DEF WalkedInOrder, Above
    <3>4. Above(k) \cap chosen = chosen
      BY <3>3
    <3> QED
      BY <3>2, <3>4
  <2> QED
    BY <2>2, <2>3
<1>3. \A k : /\ LostToCap(k)' <=> LostToCap(k)
             /\ Cardinality(Above(k) \cap chosen)' = Cardinality(Above(k) \cap chosen)
  BY <1>1 DEF LostToCap, Capped, Above
<1> QED
  BY <1>1, <1>2, <1>3 DEF WalkedInOrder, PassedOverOnlyForCaps

\* Rearranging the feed changes nothing about who is in it.
LEMMA ArrangeInOrder ==
  ASSUME TypeOK, Shape, WalkedInOrder, ArrangeMmr \/ SwapPass \/ ArrangeEnd
  PROVE  WalkedInOrder'
<1>1. /\ stage = "arrange" /\ path = "diverse" /\ UNCHANGED <<ranked, caps, chosen, path>>
      /\ stage' \in {"arrange", "done"}
  BY DEF ArrangeMmr, SwapPass, ArrangeEnd, Shape, Ways
<1>2. Range(feed') = chosen
  BY ArrangeKeeps
<1>3. \A k : /\ LostToCap(k)' <=> LostToCap(k)
             /\ Above(k)' = Above(k)
             /\ Capped(ranked[k], Above(k) \cap Range(feed))' <=> LostToCap(k)
  BY <1>1, <1>2 DEF LostToCap, Capped, Above
<1>4. \A k \in DOMAIN ranked :
        \/ ranked[k] \in chosen
        \/ Cardinality(Above(k) \cap chosen) = FeedSize
        \/ LostToCap(k)
  BY <1>1 DEF WalkedInOrder
<1>5. PassedOverOnlyForCaps'
  BY <1>1, <1>2, <1>3, <1>4 DEF PassedOverOnlyForCaps
<1> QED
  BY <1>1, <1>3, <1>4, <1>5 DEF WalkedInOrder

\* Every step keeps what is known of the order of the walk.
LEMMA WalkedInOrderStep ==
  ASSUME TypeOK, Shape, WalkedInOrder, [Next]_vars PROVE WalkedInOrder'
<1>1. CASE Request \/ Retrieve \/ RetrieveEnd \/ Filter \/ Cap \/ Rank \/ Guarantee
  <2>1. /\ cursor' = 1 /\ chosen' = {}
        /\ stage' \in {"retrieve", "filter", "cap", "rank", "guarantee", "truncate", "select"}
    <3>1. CASE Request
      BY <3>1 DEF Request
    <3>2. CASE Retrieve \/ RetrieveEnd \/ Filter \/ Cap
      BY <3>2 DEF Retrieve, RetrieveEnd, Filter, Cap, WalkedInOrder, Shape, Ways, feedVars
    <3>3. CASE Rank \/ Guarantee
      BY <3>3 DEF Rank, Guarantee, WalkedInOrder, Shape, Ways, feedVars
    <3> QED
      BY <1>1, <3>1, <3>2, <3>3
  <2>2. ranked' \in Seq(Reels)
    BY TypeStep DEF TypeOK
  <2>3. \A k \in DOMAIN ranked' : ~(k < 1)
    BY <2>2, LenProperties
  <2> QED
    BY <2>1, <2>3 DEF WalkedInOrder, PassedOverOnlyForCaps
<1>2. CASE Truncate
  <2>1. stage' = "done" /\ path' # "diverse"
    BY <1>2 DEF Truncate, Shape, Ways, requestVars
  <2> QED
    BY <2>1 DEF WalkedInOrder, PassedOverOnlyForCaps
<1>3. CASE Admit \/ Skip
  <2>1. stage' = "select"
    BY <1>3 DEF Admit, Skip, Walking
  <2> QED
    BY <1>3, <2>1, InOrderStep DEF WalkedInOrder, PassedOverOnlyForCaps
<1>4. CASE SelectEnd
  BY <1>4, SelectEndInOrder
<1>5. CASE ArrangeMmr \/ SwapPass \/ ArrangeEnd
  BY <1>5, ArrangeInOrder
<1>6. CASE Consume
  BY <1>6 DEF Consume, WalkedInOrder, PassedOverOnlyForCaps
<1>7. CASE UNCHANGED vars
  <2>1. /\ stage' = stage /\ path' = path /\ caps' = caps /\ ranked' = ranked
        /\ chosen' = chosen /\ feed' = feed /\ cursor' = cursor
    BY <1>7 DEF vars, requestVars, rankVars, feedVars
  <2>2. \A k : Above(k)' = Above(k)
    BY <2>1 DEF Above
  <2>3. \A k : LostToCap(k)' <=> LostToCap(k)
    BY <2>1, <2>2 DEF LostToCap, Capped
  <2>4. PassedOverOnlyForCaps' <=> PassedOverOnlyForCaps
    BY <2>1 DEF PassedOverOnlyForCaps, Capped, Above
  <2> QED
    BY <2>1, <2>2, <2>3, <2>4 DEF WalkedInOrder
<1> QED
  BY <1>1, <1>2, <1>3, <1>4, <1>5, <1>6, <1>7 DEF Next, Recommend

\* A candidate is passed over only when better ranked reels of the same feed
\* fill it or by themselves reach one of its caps.
THEOREM PassedOverOnlyForCapsCorrect == Spec => []PassedOverOnlyForCaps
<1>1. Init => WalkedInOrder
  BY DEF Init, WalkedInOrder, PassedOverOnlyForCaps
<1>2. (TypeOK /\ Shape /\ Permuted) /\ WalkedInOrder /\ [Next]_vars => WalkedInOrder'
  BY WalkedInOrderStep
<1>3. WalkedInOrder => PassedOverOnlyForCaps
  BY DEF WalkedInOrder
<1> QED
  BY <1>1, <1>2, <1>3, RankingInvariant, PTL DEF Spec
=============================================================================
