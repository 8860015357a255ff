\* Two sources merged, filtered and capped; the feed cut by retrieval order, by
\* a Ranker, or through the MMR way out, with up to two promotions.
SPECIFICATION Spec
CONSTANTS
  Reels = {0, 1, 2, 3}
  Servable = {0, 1, 2, 3}
  Creator <- Plain
  Topic <- Plain
  Similarities = {1, 2}
  Sources <- TwoSources
  Paths = {"identity", "ranked", "diverse"}
  FeedSize = 2
  CandidateLimit = 4
  GuaranteedSlots = 2
  MaxPerCreator = 2
  MaxPerTopic = 3
  UseMmr = TRUE
  CapScales = {}
  Fatigues = {0}
INVARIANTS
  MergeExact
  GuaranteeExact
  OnlyExplorationOvertakes
PROPERTIES
  RefinesFeedService
