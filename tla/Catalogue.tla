------------------------------ MODULE Catalogue ------------------------------
(***************************************************************************)
(* The live catalogue and everything that reads it: the candidate sources, *)
(* the vector indexes built over it, the baseline recommenders and the     *)
(* live ground truth.  Reels are appended in mid-run, consumed by users,   *)
(* and found again by score, recency, creator, similarity or chance.       *)
(*                                                                         *)
(* Reels are their dense ids.  A query is the similarity of each reel to   *)
(* the effective preference of the user who asks, any one.  The merge, the *)
(* ranking and the walk of the reranker are FeedPipeline's: here a pool and*)
(* a feed are any that some ranking would leave.  No reel of the program is*)
(* ever inactive.  One tick is a day and the trending half-life.           *)
(***************************************************************************)
EXTENDS Integers, Sequences, FiniteSets, SequencesExt

CONSTANTS
  Arms,           \* the algorithms run
  Users,
  Generated,      \* creator, topic and creation time of each generated reel
  NewReels,       \* creator and topic of the reels injected
  FeedSize, CandidateLimit, SourceCount,
  ExplorationCap, \* explorationCandidates
  FreshWindow, EnableAtDay,
  PseudoImpressions,
  Similarities,   \* the similarities a reel can have to a query
  DiversityEnabled,       \* diversity.enabled
  CreatorCaps, TopicCaps, \* reels of one creator or topic a feed may hold
  Affinities,     \* the levels creatorAffinity has above 0
  MaxNow, MaxRequests, MaxImpressions  \* bounds

ASSUME CatalogueAssumption ==
  /\ Arms \subseteq {"random", "popularity", "exact_vector", "oracle_satisfaction",
                     "hnsw", "hnsw_ranker", "hnsw_ranker_exploration",
                     "hnsw_ranker_diversity"}
  /\ FeedSize \in Nat \ {0} /\ CandidateLimit \in Nat
  /\ ExplorationCap \in Nat /\ EnableAtDay \in Int /\ PseudoImpressions \in Nat
  /\ Generated \in Seq(Range(Generated)) /\ NewReels \in Seq(Range(NewReels))
  /\ \A reel \in Range(Generated) : reel.created \in Int
  /\ Similarities \subseteq Int /\ MaxNow \in Nat /\ Affinities \in Nat

VARIABLES
  arm, explore, \* the algorithm and exploration.enabled
  now,
  reels,        \* the catalogue
  index,        \* reels in the recommender's vector index
  ground,       \* reels in the evaluator's exact index
  byCreator,    \* reelsByCreator: the reels the creator source knows
  seen, affinity, \* of each user: seenReels, creatorAffinity
  draws,        \* position of the recommender's random stream
  zeroDraws,    \* the position had epsilon been 0
  requests,
  asked,        \* the last request and what it found
  feed          \* what is left to consume of its feed

userVars == <<seen, affinity>>
vars == <<arm, explore, now, reels, index, ground, byCreator, userVars, draws,
          zeroDraws, requests, asked, feed>>

Lower(a, b) == IF a < b THEN a ELSE b

Reels == DOMAIN reels

\* One half-life a tick: integers stay exact for MaxNow of them.
Unit == 2 ^ MaxNow

Reel(spec, created) ==
  [creator |-> spec.creator, topic |-> spec.topic, created |-> created, impressions |-> 0,
   engagement |-> 0, trendingEngagement |-> 0, trendingImpressions |-> 0]

Specs == Range(Generated) \cup Range(NewReels)
Creators == {spec.creator : spec \in Specs}
Topics == {spec.topic : spec \in Specs}

Vector == arm \notin {"random", "popularity"}
Graph == arm \notin {"random", "popularity", "exact_vector"}
Explores == arm \in {"hnsw_ranker_exploration", "hnsw_ranker_diversity"}

\* The requests of the arm are reranked.
Diverse == arm = "hnsw_ranker_diversity" /\ DiversityEnabled

NoCaps == [creator |-> 0, topic |-> <<>>]

\* missed counts the results the graph was asked for and did not find.
NoRequest == [user |-> "none", query |-> <<>>, fired |-> FALSE, explored |-> {}, missed |-> 0,
              pool |-> {}, caps |-> NoCaps, searches |-> 0, feed |-> <<>>]

Init ==
  /\ arm \in Arms /\ explore \in (IF Explores THEN BOOLEAN ELSE {FALSE})
  /\ now = 0
  /\ reels = [r \in DOMAIN Generated |-> Reel(Generated[r], Generated[r].created)]
  /\ index = (IF Vector THEN Reels ELSE {})
  /\ ground = (IF Vector THEN Reels ELSE {})
  /\ byCreator = Reels
  /\ seen = [u \in Users |-> {}]
  /\ affinity = [u \in Users |-> [c \in Creators |-> 0]]
  /\ draws = (IF Graph THEN 1 ELSE 0) /\ zeroDraws = draws
  /\ requests = 0
  /\ asked = NoRequest /\ feed = <<>>
------------------------------------------------------------------------------
\* a goes before b by a score <<numerator, denominator>>, ties by id.
Ahead(score, a, b) ==
  LET x == score[a][1] * score[b][2]
      y == score[b][1] * score[a][2]
  IN x > y \/ (x = y /\ a < b)

Before(S, score, r) == {b \in S : Ahead(score, b, r)}

\* The best n of a set, best first.
TopBy(S, n, score) ==
  [i \in 1..Lower(n, Cardinality(S)) |->
     CHOOSE r \in S : Cardinality(Before(S, score, r)) = i - 1]

\* The sum of a counter over the catalogue.
Total(count) == Cardinality(UNION {{r} \X (1..count[r]) : r \in Reels})

Shown == Total([r \in Reels |-> reels[r].impressions])

\* The engagement rate smoothed to a prior, a rational m[1]/m[2].
Smoothed(r, m) ==
  <<reels[r].engagement * m[2] + PseudoImpressions * m[1],
    (1 + reels[r].impressions + PseudoImpressions) * m[2]>>

PriorMean ==
  IF Shown > 0 THEN <<Total([r \in Reels |-> reels[r].engagement]), Shown>> ELSE <<0, 1>>

Popular(S, n) == LET m == PriorMean IN TopBy(S, n, [r \in Reels |-> Smoothed(r, m)])

Trending ==
  TopBy({r \in Reels : reels[r].trendingEngagement > 0}, SourceCount,
        [r \in Reels |-> <<reels[r].trendingEngagement, Unit + reels[r].trendingImpressions>>])

\* Reels within the recency window.
FreshPool == {r \in Reels : reels[r].created >= now - FreshWindow}

Fresh == TopBy(FreshPool, SourceCount, [r \in Reels |-> <<reels[r].created, 1>>])

\* Reels of the creators liked, as far as the map built at construction goes,
\* by the affinity times the smoothed rate.
CreatorAffinity(u) ==
  LET liked(r) == affinity[u][reels[r].creator]
      rate(r) == Smoothed(r, <<0, 1>>)
  IN TopBy({r \in byCreator : liked(r) > 0}, SourceCount,
           [r \in Reels |-> <<liked(r) * rate(r)[1], rate(r)[2]>>])

\* The exact scan of an index.
Nearest(S, q, k) == TopBy(S, k, [r \in Reels |-> <<q[r], 1>>])

\* What a graph search finds: of the index, at most as many as asked.
Approximate(k) == {S \in SUBSET index : Cardinality(S) <= k}

\* Mutant: the graph is asked for no more than a feed.
WantedFeed == FeedSize

\* How many results the graph is asked for.
Wanted == CandidateLimit

Missed(found) == Lower(Wanted, Cardinality(index)) - Cardinality(found)

Unseen(u) == Reels \ seen[u]

\* What the oracle would serve: the best unseen reels of the live catalogue.
OracleFeed(u, q) == Nearest(Unseen(u), q, FeedSize)
------------------------------------------------------------------------------
BudgetA == ExplorationCap \div 3
BudgetB == ExplorationCap \div 3
BudgetC == ExplorationCap - BudgetA - BudgetB

\* The gates fire with epsilon, or never before the day exploration starts.
CanFire == explore /\ now >= EnableAtDay

RandomFresh ==
  {S \in SUBSET FreshPool : Cardinality(S) = Lower(BudgetA, Cardinality(FreshPool))}

\* Mutant: the least shown reels before those chosen at random are set aside.
UnderexposedOfAll(chosen) ==
  Range(TopBy(Reels, BudgetB, [r \in Reels |-> <<-reels[r].impressions, 1>>]))

Underexposed(chosen) ==
  Range(TopBy(Reels \ chosen, BudgetB, [r \in Reels |-> <<-reels[r].impressions, 1>>]))

UncertainTopic(chosen, q) ==
  Range(TopBy(Reels \ chosen, BudgetC, [r \in Reels |-> <<-q[r], 1>>]))

\* The pool after the random picks.
ExplorationPool(random, q) ==
  LET chosen == random \cup Underexposed(random)
  IN chosen \cup UncertainTopic(chosen, q)

\* Mutant: a request that cannot explore draws nothing.
GateDrawsIfOpen(fired) ==
  IF ~CanFire THEN 0
  ELSE FeedSize + IF fired THEN Lower(BudgetA, Cardinality(FreshPool)) ELSE 0

\* A gate for each slot, then the shuffle if one fired.
GateDraws(fired) ==
  IF ~explore THEN 0
  ELSE FeedSize + IF fired THEN Lower(BudgetA, Cardinality(FreshPool)) ELSE 0

\* What the sources of the arm offer, given the results of the graph search.
Offered(u, semantic, explored) ==
  semantic \cup
  (IF arm \in {"hnsw_ranker", "hnsw_ranker_exploration", "hnsw_ranker_diversity"}
   THEN Range(Popular(Reels, SourceCount)) \cup Range(Trending)
        \cup Range(CreatorAffinity(u))
   ELSE {})
  \cup (IF arm = "hnsw_ranker_diversity" /\ explore THEN Range(Fresh) ELSE {})
  \cup explored
------------------------------------------------------------------------------
\* What the cap leaves of the candidates, whatever their similarities.
Pools(S) == {P \in SUBSET S : Cardinality(P) = Lower(CandidateLimit, Cardinality(S))}

\* A feed has no more room for a reel's creator or its topic.
Capped(r, S, caps) ==
  \/ Cardinality({x \in S : reels[x].creator = reels[r].creator}) >= caps.creator
  \/ Cardinality({x \in S : reels[x].topic = reels[r].topic}) >= caps.topic[reels[r].topic]

WithinCaps(S, caps) == \A r \in S : ~Capped(r, S \ {r}, caps)

\* Mutant: the walk stops at the first reel the caps shut out.
RerankedToFirst(pool, caps) ==
  {S \in SUBSET pool : /\ Cardinality(S) <= FeedSize /\ WithinCaps(S, caps)
                       /\ \/ Cardinality(S) = Lower(FeedSize, Cardinality(pool))
                          \/ \E r \in pool \ S : Capped(r, S, caps)}

\* What a greedy walk of the pool under the caps can choose: it ends with a
\* full feed, or with no reel left that fits.
Reranked(pool, caps) ==
  {S \in SUBSET pool : /\ Cardinality(S) <= FeedSize /\ WithinCaps(S, caps)
                       /\ \/ Cardinality(S) = FeedSize
                          \/ \A r \in pool \ S : Capped(r, S, caps)}

\* The feeds of an orchestrated arm: a prefix of some ranking, or reranked.
Feeds(pool, caps) ==
  IF Diverse THEN Reranked(pool, caps)
  ELSE {S \in SUBSET pool : Cardinality(S) = Lower(FeedSize, Cardinality(pool))}

\* The caps a request may be under, personalized or not.
Caps == IF Diverse THEN [creator : CreatorCaps, topic : [Topics -> TopicCaps]] ELSE {NoCaps}
------------------------------------------------------------------------------
Answer(request) ==
  /\ asked' = request
  /\ feed' = request.feed
  /\ requests' = requests + 1
  /\ UNCHANGED <<arm, explore, now, reels, index, ground, byCreator, userVars>>

\* A request comes when the last feed is consumed.
Ready == feed = <<>> /\ requests < MaxRequests

\* RandomRecommender: one draw a slot.
RecommendRandom(u) ==
  /\ Ready /\ arm = "random"
  /\ LET k == Lower(FeedSize, Cardinality(Unseen(u))) IN
     /\ \E S \in {T \in SUBSET Unseen(u) : Cardinality(T) = k} :
          Answer([NoRequest EXCEPT !.user = u, !.feed = SetToSeq(S)])
     /\ draws' = draws + k /\ zeroDraws' = zeroDraws + k

RecommendPopular(u) ==
  /\ Ready /\ arm = "popularity"
  /\ Answer([NoRequest EXCEPT !.user = u, !.feed = Popular(Unseen(u), FeedSize)])
  /\ UNCHANGED <<draws, zeroDraws>>

\* Mutant: no over-fetch for the reels already seen.
FeedOnly(u) == Lower(FeedSize, Cardinality(index))

\* As many results as the feed and the reels seen together.
OverFetch(u) == Lower(FeedSize + Cardinality(seen[u]), Cardinality(index))

\* The feed cut from the unseen among the k nearest.
Served(u, q, k) == Nearest(Range(Nearest(index, q, k)) \cap Unseen(u), q, FeedSize)

\* ExactVectorRecommender: a full scan if the first search leaves it short.
RecommendExact(u) ==
  /\ Ready /\ arm = "exact_vector"
  /\ \E q \in [Reels -> Similarities] :
       LET k == OverFetch(u)
           again == Len(Served(u, q, k)) < FeedSize /\ k < Cardinality(index)
       IN Answer([NoRequest EXCEPT !.user = u, !.query = q,
                    !.searches = IF again THEN 2 ELSE 1,
                    !.feed = Served(u, q, IF again THEN Cardinality(index) ELSE k)])
  /\ UNCHANGED <<draws, zeroDraws>>

\* The oracle arm: the graph's candidates ranked by hidden satisfaction, as
\* far as reels have a hidden state.
RecommendOracle(u) ==
  /\ Ready /\ arm = "oracle_satisfaction"
  /\ \E semantic \in Approximate(Wanted), q \in [Reels -> Similarities] :
       LET pool == {r \in semantic \cap Unseen(u) : r \in DOMAIN Generated}
       IN Answer([NoRequest EXCEPT !.user = u, !.missed = Missed(semantic), !.searches = 1,
                    !.feed = Nearest(pool, q, FeedSize)])
  /\ UNCHANGED <<draws, zeroDraws>>

\* The orchestrated arms: what the sources offer, filtered, capped, and a feed
\* of it.
RecommendOrchestrated(u) ==
  /\ Ready /\ Graph /\ arm # "oracle_satisfaction"
  /\ \E fired \in (IF CanFire THEN BOOLEAN ELSE {FALSE}) :
     \E semantic \in Approximate(Wanted), caps \in Caps,
        q \in (IF fired THEN [Reels -> Similarities] ELSE {<<>>}),
        random \in (IF fired THEN RandomFresh ELSE {{}}) :
       LET explored == IF fired THEN ExplorationPool(random, q) ELSE {}
           offered == Offered(u, semantic, explored)
       IN /\ \E pool \in Pools(offered \cap Unseen(u)) : \E S \in Feeds(pool, caps) :
               Answer([NoRequest EXCEPT !.user = u, !.fired = fired, !.explored = explored,
                         !.missed = Missed(semantic), !.pool = pool, !.caps = caps,
                         !.searches = 1, !.feed = SetToSeq(S)])
          /\ draws' = draws + GateDraws(fired)
  /\ zeroDraws' = zeroDraws + (IF explore THEN FeedSize ELSE 0)
------------------------------------------------------------------------------
\* The simulator consumes the next reel of the feed: a watch may engage, and
\* move the estimate for the creator within its range; the session may end and
\* take the rest of the feed with it.
Consume ==
  /\ feed # <<>>
  /\ Shown < MaxImpressions
  /\ LET r == Head(feed)
         u == asked.user
     IN /\ \E gain \in {0, 1} :
             reels' = [reels EXCEPT ![r].impressions = @ + 1, ![r].engagement = @ + gain,
                         ![r].trendingEngagement = @ + gain * Unit,
                         ![r].trendingImpressions = @ + Unit]
        /\ seen' = [seen EXCEPT ![u] = @ \cup {r}]
        /\ \E level \in 0..Affinities :
             affinity' = [affinity EXCEPT ![u][reels[r].creator] = level]
  /\ feed' \in {Tail(feed), <<>>}
  /\ asked' = [NoRequest EXCEPT !.user = IF feed' = <<>> THEN @ ELSE asked.user]
  /\ UNCHANGED <<arm, explore, now, index, ground, byCreator, draws, zeroDraws, requests>>

\* Reels of the existing creators, stamped with the time of their injection.
Injected == [i \in DOMAIN NewReels |-> Reel(NewReels[i], now)]

\* onReelsAppended: the vector recommenders insert the new ones.
IndexWith(new) == IF Vector THEN index \cup new ELSE index

\* RetrievalEvaluator::appendReels.
GroundWith(new) == IF Vector THEN ground \cup new ELSE ground

\* The start of a round with an injection; the oracle runs where it is refused.
AppendReels ==
  /\ feed = <<>> /\ Len(reels) = Len(Generated) /\ arm # "oracle_satisfaction"
  /\ reels' = reels \o Injected
  /\ index' = IndexWith(Len(reels) + 1 .. Len(reels'))
  /\ ground' = GroundWith(Len(reels) + 1 .. Len(reels'))
  /\ asked' = NoRequest
  /\ UNCHANGED <<arm, explore, now, byCreator, userVars, draws, zeroDraws, requests, feed>>

\* A day: what is trending halves.
Tick ==
  /\ feed = <<>> /\ now < MaxNow
  /\ now' = now + 1
  /\ reels' = [r \in Reels |->
       [reels[r] EXCEPT !.trendingEngagement = @ \div 2, !.trendingImpressions = @ \div 2]]
  /\ asked' = NoRequest
  /\ UNCHANGED <<arm, explore, index, ground, byCreator, userVars, draws, zeroDraws,
                 requests, feed>>

Next ==
  \/ Consume \/ AppendReels \/ Tick
  \/ \E u \in Users : \/ RecommendRandom(u) \/ RecommendPopular(u)
                      \/ RecommendExact(u) \/ RecommendOracle(u)
                      \/ RecommendOrchestrated(u)

Spec == Init /\ [][Next]_vars
------------------------------------------------------------------------------
(* Properties *)

Answered == asked.searches > 0

\* The exact arm serves what the oracle would with the true preference for a
\* query: the best unseen reels of the live catalogue, appended ones included,
\* found in one search, the fallback scan never needed.
ExactHasNoRegret ==
  (Answered /\ arm = "exact_vector") =>
    /\ asked.feed = OracleFeed(asked.user, asked.query)
    /\ asked.searches = 1 /\ index = ground

\* The three modes never spend a budget on one reel twice, so a request that
\* explores offers as many reels as the budgets allow; among them as many that
\* nobody was ever shown as the underexposed budget, whatever the random picks
\* took first, and those cannot fall to the seen filter.
ExplorationPoolFull ==
  asked.fired =>
    LET unshown == {r \in Reels : reels[r].impressions = 0}
        random == Lower(BudgetA, Cardinality(FreshPool))
    IN /\ Cardinality(asked.explored \cap unshown) >= Lower(BudgetB, Cardinality(unshown))
       /\ Cardinality(asked.explored) = Lower(random + BudgetB + BudgetC, Len(reels))

\* Until the day exploration starts, the run is the run with epsilon 0: the
\* same draws from the recommender's stream and nothing explored; and at any
\* time a run that does not explore has the index seed as its only draw.
StreamAligned ==
  /\ (Explores /\ now < EnableAtDay) => draws = zeroDraws /\ asked.explored = {}
  /\ (Graph /\ ~explore) => draws = 1
  /\ zeroDraws <= draws

\* A cap of the request shuts out each reel the feed left in its pool.
ShutOut ==
  LET left == asked.pool \ Range(asked.feed)
  IN Diverse /\ left # {} /\ \A r \in left : Capped(r, Range(asked.feed), asked.caps)

\* A feed over the graph is short only when the graph finds less than asked, the
\* user has seen so much that the candidates do not reach past it, the catalogue
\* is exhausted, or, reranked, the caps shut out all that is left; so a fresh
\* user of an arm without caps has a full feed whatever its sources offer.
StarvedForCause ==
  (Answered /\ Graph /\ Len(asked.feed) < FeedSize) =>
    \/ asked.missed > 0
    \/ Cardinality(seen[asked.user]) > CandidateLimit - FeedSize
    \/ Cardinality(Unseen(asked.user)) < FeedSize
    \/ ShutOut
=============================================================================
