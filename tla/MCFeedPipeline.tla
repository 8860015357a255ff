--------------------------- MODULE MCFeedPipeline ----------------------------
(* Catalogues for checking FeedPipeline. *)
EXTENDS FeedPipeline

\* The ranked path: who made a reel and what it is about do not matter.
Plain == [r \in Reels |-> 1]
TwoSources == <<"hnsw", "exploration">>

\* The diverse path: creators and topics that overlap in part.
Creators == [r \in Reels |-> IF r \in {0, 1} THEN 1 ELSE r]
TopicsOf == [r \in Reels |-> IF r \in {0, 2, 4} THEN 1 ELSE 2]
OneSource == <<"hnsw">>
=============================================================================
