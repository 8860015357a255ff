---------------------------- MODULE FeedPipeline -----------------------------
(***************************************************************************)
(* One user's requests through the orchestrator: every source is run and   *)
(* merged, the pool filtered, capped and ranked, exploration promoted, and *)
(* the feed cut from the ranked pool or selected from it under diversity   *)
(* caps and reordered.  The user then consumes a prefix and asks again.    *)
(*                                                                         *)
(* Reels are their ids, compared as the code's tie-breaks do.  Embeddings, *)
(* scores and source internals are abstracted: a source produces any reels *)
(* at any similarity, a Ranker any order.  Distance and similarity are one *)
(* value, each being a monotone function of the other.                     *)
(***************************************************************************)
EXTENDS Integers, Sequences, FiniteSets, SequencesExt

CONSTANTS
  Reels,           \* catalogue ids
  Servable,        \* the active ones with an embedding
  Creator, Topic,  \* creatorId and primaryTopic of each reel
  Similarities,    \* values of retrievalSimilarity
  Sources,         \* the recommender's sources, in registration order
  Paths,           \* "identity" (no ranker), "ranked", "diverse" (reranker)
  FeedSize,        \* request.feedSize
  CandidateLimit,  \* request.candidateLimit
  GuaranteedSlots, \* exploration.guaranteedSlots
  MaxPerCreator,   \* diversity.maxPerCreator
  MaxPerTopic,     \* diversity.maxPerTopic
  UseMmr,          \* diversity.useMmr
  CapScales,       \* values of capScale in tenths, {} without personalization
  Fatigues         \* values of estimatedTopicFatigue in tenths

ASSUME CatalogueAssumption ==
  /\ Reels \subseteq Nat /\ IsFiniteSet(Reels)
  /\ Servable \subseteq Reels
  /\ DOMAIN Creator = Reels /\ DOMAIN Topic = Reels
  /\ Similarities \subseteq Int

Labels == {"hnsw", "popular", "trending", "fresh", "creator", "exploration"}

ASSUME RequestAssumption ==
  /\ Sources \in Seq(Labels)
  /\ Paths \subseteq {"identity", "ranked", "diverse"}
  /\ FeedSize \in Nat \ {0} /\ CandidateLimit \in Nat \ {0}
  /\ GuaranteedSlots \in Nat
  /\ MaxPerCreator \in Nat /\ MaxPerTopic \in Nat
  /\ UseMmr \in BOOLEAN
  /\ CapScales \subseteq Nat /\ Fatigues \subseteq 0..10

VARIABLES
  stage,   \* where recommend() is
  path,    \* which of its three ways out it will take
  explore, \* request.enableExploration
  caps,    \* the caps the reranker applies to this user
  seen,    \* user.seenReels
  turn,    \* the source to run next
  raw,     \* history: every candidate produced
  fired,   \* lastFiredSlots of the exploration source
  pool,    \* reel |-> its merged similarity and source labels
  order,   \* history: the ranker's order
  ranked,  \* the pool, best first
  chosen,  \* reels admitted by the selection walk
  feed,    \* the feed under construction, then the response
  cursor   \* position of the selection walk, then of the swap pass

retrieveVars == <<turn, raw, fired>>
requestVars  == <<path, explore, caps>>
rankVars     == <<order, ranked>>
feedVars     == <<chosen, feed>>
vars == <<stage, requestVars, seen, retrieveVars, pool, rankVars, feedVars, cursor>>

Exploration == "exploration"
Topics == Range(Topic)
Lower(a, b) == IF a < b THEN a ELSE b
------------------------------------------------------------------------------
(* Caps *)

\* x / 10 rounded to the nearest integer.
Tenths(x) == (2 * x + 10) \div 20

\* The cap for a ten-item feed scaled to FeedSize, at least one.
TopicCap(perTen) ==
  LET scaled == (perTen * FeedSize + 9) \div 10 IN IF scaled < 1 THEN 1 ELSE scaled

EffectiveCap(base, scale) ==
  LET scaled == Tenths(base * scale) IN
  Lower(IF scaled < 1 THEN 1 ELSE scaled, FeedSize)

FixedCaps ==
  [creator |-> MaxPerCreator, topic |-> [t \in Topics |-> TopicCap(MaxPerTopic)]]

\* The creator cap follows the same tolerance lowered by creator fatigue.
PersonalCaps ==
  {[creator |-> EffectiveCap(MaxPerCreator, s[2]),
    topic |-> [t \in Topics |->
       LET reduced == Tenths(TopicCap(EffectiveCap(MaxPerTopic, s[1])) * (10 - fatigue[t]))
       IN IF reduced < 1 THEN 1 ELSE reduced]] :
     s \in {s \in CapScales \X CapScales : s[2] <= s[1]},
     fatigue \in [Topics -> Fatigues]}

OfCreator(c, reels) == {r \in reels : Creator[r] = c}
OfTopic(t, reels) == {r \in reels : Topic[r] = t}

\* A cap keeps r out of a feed made of these reels.
Capped(r, reels) ==
  \/ Cardinality(OfCreator(Creator[r], reels)) >= caps.creator
  \/ Cardinality(OfTopic(Topic[r], reels)) >= caps.topic[Topic[r]]
------------------------------------------------------------------------------
Init ==
  /\ stage = "idle" /\ path = "identity" /\ explore = FALSE /\ caps = FixedCaps
  /\ seen = {} /\ turn = 1 /\ raw = {} /\ fired = 0 /\ pool = <<>>
  /\ order = <<>> /\ ranked = <<>> /\ chosen = {} /\ feed = <<>> /\ cursor = 1

Request ==
  /\ stage = "idle" /\ stage' = "retrieve"
  /\ path' \in Paths /\ explore' \in BOOLEAN
  /\ caps' \in {FixedCaps} \cup (IF path' = "diverse" THEN PersonalCaps ELSE {})
  /\ turn' = 1 /\ raw' = {} /\ pool' = <<>>
  /\ order' = <<>> /\ ranked' = <<>> /\ chosen' = {} /\ feed' = <<>> /\ cursor' = 1
  /\ UNCHANGED <<seen, fired>>

\* The merge of the candidates found by source s.  Mutant: the last
\* similarity wins.
MergeLast(p, s, found) ==
  [r \in DOMAIN p \cup DOMAIN found |->
     IF r \notin DOMAIN found THEN p[r]
     ELSE [similarity |-> found[r],
           sources |-> {s} \cup IF r \in DOMAIN p THEN p[r].sources ELSE {}]]

Merge(p, s, found) ==
  [r \in DOMAIN p \cup DOMAIN found |->
     IF r \notin DOMAIN found THEN p[r]
     ELSE IF r \notin DOMAIN p THEN [similarity |-> found[r], sources |-> {s}]
     ELSE [similarity |-> IF found[r] > p[r].similarity THEN found[r]
                          ELSE p[r].similarity,
           sources |-> p[r].sources \cup {s}]]

\* Source number turn produces its candidates; a request without exploration,
\* or none of whose FeedSize gates fires, gets none from that source.
Retrieve ==
  LET s == Sources[turn] IN
  /\ stage = "retrieve" /\ turn <= Len(Sources)
  /\ fired' \in (IF s # Exploration THEN {fired}
                 ELSE IF explore THEN 0..FeedSize ELSE {0})
  /\ \E reels \in SUBSET Reels :
       /\ s = Exploration /\ fired' = 0 => reels = {}
       /\ \E found \in [reels -> Similarities] :
            /\ pool' = Merge(pool, s, found)
            /\ raw' = raw \cup {[reel |-> r, source |-> s, similarity |-> found[r]] :
                                  r \in reels}
  /\ turn' = turn + 1
  /\ UNCHANGED <<stage, requestVars, seen, rankVars, feedVars, cursor>>

RetrieveEnd ==
  /\ stage = "retrieve" /\ turn > Len(Sources)
  /\ stage' = "filter"
  /\ UNCHANGED <<requestVars, seen, retrieveVars, pool, rankVars, feedVars, cursor>>

\* Mutant: only the embedding is looked at.
EligibleUnfiltered(r) == r \in Servable

Eligible(r) == r \in Servable /\ r \notin seen

Filter ==
  /\ stage = "filter" /\ stage' = "cap"
  /\ pool' = [r \in {q \in DOMAIN pool : Eligible(q)} |-> pool[r]]
  /\ raw' = {}
  /\ UNCHANGED <<requestVars, seen, turn, fired, rankVars, feedVars, cursor>>

\* The total order of the pool cap and of the identity path.
MoreRelevant(a, b) ==
  \/ pool[a].similarity > pool[b].similarity
  \/ pool[a].similarity = pool[b].similarity /\ a < b

Cap ==
  /\ stage = "cap" /\ stage' = "rank"
  /\ pool' = [r \in {q \in DOMAIN pool :
                       Cardinality({b \in DOMAIN pool : MoreRelevant(b, q)})
                         < CandidateLimit} |-> pool[r]]
  /\ UNCHANGED <<requestVars, seen, retrieveVars, rankVars, feedVars, cursor>>

\* Without a ranker the pool is sorted; a ranker reorders it as it likes.
Rank ==
  /\ stage = "rank"
  /\ stage' = IF path = "identity" THEN "truncate" ELSE "guarantee"
  /\ \E seq \in SetToSeqs(DOMAIN pool) :
       /\ path = "identity" =>
            \A i, j \in DOMAIN seq : i < j => MoreRelevant(seq[i], seq[j])
       /\ ranked' = seq /\ order' = seq
  /\ UNCHANGED <<requestVars, seen, retrieveVars, pool, feedVars, cursor>>

\* representativeSource: exploration wins the label.
ExplorationLabeled(r) == Exploration \in pool[r].sources

Prefix == 1..FeedSize
LabeledIn(seq, places) == {i \in places \cap DOMAIN seq : ExplorationLabeled(seq[i])}

\* How many exploration reels the guarantee owes the prefix of seq.
Promised(seq) ==
  IF Exploration \in Range(Sources)
  THEN Min({fired, GuaranteedSlots, Cardinality(LabeledIn(seq, DOMAIN seq))})
  ELSE 0

Need == Promised(ranked) - Cardinality(LabeledIn(ranked, Prefix))

\* The best exploration reels below the cut.  Mutant: the worst.
PromotedWorst ==
  LET below == LabeledIn(ranked, DOMAIN ranked \ Prefix)
  IN {i \in below : Cardinality({j \in below : j > i}) < Need}

Promoted ==
  LET below == LabeledIn(ranked, DOMAIN ranked \ Prefix)
  IN {i \in below : Cardinality({j \in below : j < i}) < Need}

\* The worst others of the prefix.  Mutant: the worst of the prefix.
EvictedAny == {i \in Prefix : Cardinality({j \in Prefix : j > i}) < Need}

Evicted ==
  LET others == Prefix \ LabeledIn(ranked, Prefix)
  IN {i \in others : Cardinality({j \in others : j > i}) < Need}

\* Where position i goes: the kept prefix, then the promoted, then the tail.
Block(i) ==
  IF i \in Prefix \ Evicted THEN 0 ELSE IF i \in Promoted THEN 1 ELSE 2

Guarantee ==
  /\ stage = "guarantee"
  /\ stage' = IF path = "diverse" THEN "select" ELSE "truncate"
  /\ IF Len(ranked) <= FeedSize \/ Need <= 0
     THEN ranked' = ranked
     ELSE \E from \in SetToSeqs(DOMAIN ranked) :
            /\ \A i, j \in DOMAIN from : i < j =>
                 \/ Block(from[i]) < Block(from[j])
                 \/ Block(from[i]) = Block(from[j]) /\ from[i] < from[j]
            /\ ranked' = [i \in DOMAIN from |-> ranked[from[i]]]
  /\ UNCHANGED <<requestVars, seen, retrieveVars, pool, order, feedVars, cursor>>

Truncate ==
  /\ stage = "truncate" /\ stage' = "done"
  /\ feed' = SubSeq(ranked, 1, Lower(FeedSize, Len(ranked)))
  /\ UNCHANGED <<requestVars, seen, retrieveVars, pool, rankVars, chosen, cursor>>

\* Mutant: the caps are compared with > instead of >=.
AdmissibleOneMore(r) ==
  /\ r \notin chosen /\ r \notin seen
  /\ Cardinality(OfCreator(Creator[r], chosen)) <= caps.creator
  /\ Cardinality(OfTopic(Topic[r], chosen)) <= caps.topic[Topic[r]]

\* Mutant: a candidate looked at counts against the caps, admitted or not.
AdmissibleCountedFirst(r) ==
  /\ r \notin chosen /\ r \notin seen
  /\ ~Capped(r, Range(SubSeq(ranked, 1, cursor - 1)))

Admissible(r) == r \notin chosen /\ r \notin seen /\ ~Capped(r, chosen)

Walking == stage = "select" /\ cursor <= Len(ranked) /\ Len(feed) < FeedSize

Admit ==
  /\ Walking /\ Admissible(ranked[cursor])
  /\ feed' = Append(feed, ranked[cursor])
  /\ chosen' = chosen \cup {ranked[cursor]}
  /\ cursor' = cursor + 1
  /\ UNCHANGED <<stage, requestVars, seen, retrieveVars, pool, rankVars>>

\* Mutant: a candidate not admitted ends the walk.
SkipAll == Len(ranked) + 1

SkipTo == cursor + 1

Skip ==
  /\ Walking /\ ~Admissible(ranked[cursor])
  /\ cursor' = SkipTo
  /\ UNCHANGED <<stage, requestVars, seen, retrieveVars, pool, rankVars, feedVars>>

SelectEnd ==
  /\ stage = "select" /\ ~Walking
  /\ stage' = "arrange" /\ cursor' = 1
  /\ UNCHANGED <<requestVars, seen, retrieveVars, pool, rankVars, feedVars>>

\* MMR arranges the selected set by scores and embeddings: in any order.
ArrangeMmr ==
  /\ UseMmr /\ stage = "arrange" /\ stage' = "done"
  /\ feed' \in SetToSeqs(chosen)
  /\ UNCHANGED <<requestVars, seen, retrieveVars, pool, rankVars, chosen, cursor>>

\* The place to fetch a different topic from, once two neighbours share one.
Different ==
  {j \in DOMAIN feed : j > cursor + 1 /\ Topic[feed[j]] # Topic[feed[cursor]]}

Exchanged(j) ==
  [feed EXCEPT ![cursor + 1] = feed[j], ![j] = feed[cursor + 1]]

SwapPass ==
  /\ ~UseMmr /\ stage = "arrange" /\ cursor + 1 <= Len(feed)
  /\ IF Topic[feed[cursor]] = Topic[feed[cursor + 1]] /\ Different # {}
     THEN \E j \in Different :
            (\A k \in Different : j <= k) /\ feed' = Exchanged(j)
     ELSE feed' = feed
  /\ cursor' = cursor + 1
  /\ UNCHANGED <<stage, requestVars, seen, retrieveVars, pool, rankVars, chosen>>

ArrangeEnd ==
  /\ ~UseMmr /\ stage = "arrange" /\ cursor + 1 > Len(feed)
  /\ stage' = "done"
  /\ UNCHANGED <<requestVars, seen, retrieveVars, pool, rankVars, feedVars, cursor>>

\* The caller: a prefix of the response is consumed (a session may end early).
Consume ==
  /\ stage = "done" /\ stage' = "idle"
  /\ \E n \in 0..Len(feed) : seen' = seen \cup Range(SubSeq(feed, 1, n))
  /\ UNCHANGED <<requestVars, retrieveVars, pool, rankVars, feedVars, cursor>>

Recommend ==
  \/ Retrieve \/ RetrieveEnd \/ Filter \/ Cap \/ Rank \/ Guarantee \/ Truncate
  \/ Admit \/ Skip \/ SelectEnd \/ ArrangeMmr \/ SwapPass \/ ArrangeEnd

Next == Request \/ Recommend \/ Consume

Spec == Init /\ [][Next]_vars
------------------------------------------------------------------------------
(* Properties *)

PoolEntries == [similarity : Similarities, sources : SUBSET Range(Sources)]

\* Every variable has its type.
TypeOK ==
  /\ stage \in {"idle", "retrieve", "filter", "cap", "rank", "guarantee",
                "truncate", "select", "arrange", "done"}
  /\ path \in Paths \cup {"identity"} /\ explore \in BOOLEAN
  /\ caps \in [creator : Nat, topic : [Topics -> Nat]]
  /\ seen \subseteq Reels /\ chosen \subseteq Reels
  /\ turn \in Nat \ {0} /\ fired \in 0..FeedSize /\ cursor \in Nat \ {0}
  /\ DOMAIN pool \subseteq Reels
  /\ \A r \in DOMAIN pool : pool[r] \in PoolEntries
  /\ ranked \in Seq(Reels) /\ feed \in Seq(Reels)

\* The merge loses nothing, whatever order the sources ran in: a reel is in
\* the pool iff some source produced it, at the best of its similarities and
\* with every one of its labels.
MergeExact ==
  stage = "filter" =>
    /\ DOMAIN pool = {c.reel : c \in raw}
    /\ \A r \in DOMAIN pool :
         LET found == {c \in raw : c.reel = r} IN
         pool[r] = [similarity |-> Max({c.similarity : c \in found}),
                    sources |-> {c.source : c \in found}]

Reranked == stage \in {"truncate", "select", "arrange", "done"} /\ path # "identity"

\* The guarantee is met and not exceeded: after it the prefix holds the
\* promised number of exploration reels, or the number the ranker had put
\* there if that was more.
GuaranteeExact ==
  Reranked =>
    Cardinality(LabeledIn(ranked, Prefix)) =
      Max({Promised(order), Cardinality(LabeledIn(order, Prefix))})

\* The guarantee disturbs the ranking as little as it can: it permutes the
\* pool, and a reel overtakes a better ranked one only if it is an exploration
\* reel and the other is not.
OnlyExplorationOvertakes ==
  Reranked =>
    /\ Range(ranked) = DOMAIN pool /\ IsInjective(ranked)
    /\ \A a, b \in DOMAIN order :
         LET place(r) == CHOOSE i \in DOMAIN ranked : ranked[i] = r IN
         a < b /\ place(order[b]) < place(order[a]) =>
           ExplorationLabeled(order[b]) /\ ~ExplorationLabeled(order[a])

\* A diverse feed never exceeds a cap, while it is selected and once it is
\* rearranged.
FeedWithinCaps ==
  path = "diverse" =>
    /\ \A r \in Range(feed) :
         /\ Cardinality(OfCreator(Creator[r], Range(feed))) <= caps.creator
         /\ Cardinality(OfTopic(Topic[r], Range(feed))) <= caps.topic[Topic[r]]
    /\ IsInjective(feed)

\* A feed is shorter than requested only when no other candidate of the pool
\* could be added without breaking a cap.
ShortOnlyWhenForced ==
  stage = "done" /\ Len(feed) < FeedSize =>
    \A r \in DOMAIN pool \ Range(feed) : path = "diverse" /\ Capped(r, Range(feed))

\* What is ranked above place k.
Above(k) == {ranked[j] : j \in 1..(k - 1)}

\* Relevance loses to the caps and to nothing else, and so does the place the
\* guarantee won for a reel: a candidate is passed over only when better ranked
\* reels of the same feed fill it or by themselves reach one of its caps.
PassedOverOnlyForCaps ==
  stage = "done" /\ path = "diverse" =>
    \A k \in DOMAIN ranked :
      LET better == Above(k) \cap Range(feed) IN
      \/ ranked[k] \in Range(feed)
      \/ Cardinality(better) = FeedSize
      \/ Capped(ranked[k], better)

\* After the swap pass neighbours share a topic only where nothing but that
\* topic is left.
TopicsSpread ==
  stage = "done" /\ path = "diverse" /\ ~UseMmr =>
    \A i \in DOMAIN feed :
      i + 1 \in DOMAIN feed /\ Topic[feed[i]] = Topic[feed[i + 1]] =>
        \A j \in DOMAIN feed : j > i => Topic[feed[j]] = Topic[feed[i]]

\* A diverse feed is diverse: within its caps, and spread.
FeedDiverse == FeedWithinCaps /\ TopicsSpread

\* The pipeline implements the service its callers rely on.
Service ==
  INSTANCE FeedService WITH
    asked <- stage \notin {"idle", "done"},
    answer <- IF stage = "done" THEN feed ELSE <<>>

\* Refinement: every behaviour of the pipeline is one of FeedService.
RefinesFeedService == Service!Spec
=============================================================================
