SPECIFICATION Spec
CHECK_DEADLOCK FALSE
CONSTANTS
  Arms = {"random", "popularity", "exact_vector", "oracle_satisfaction", "hnsw", "hnsw_ranker", "hnsw_ranker_exploration", "hnsw_ranker_diversity"}
  Users = {"u"}
  Generated <- MCGenerated
  NewReels <- MCNewReels
  FeedSize = 2
  CandidateLimit = 3
  SourceCount = 1
  ExplorationCap = 3
  FreshWindow = 1
  EnableAtDay = 1
  PseudoImpressions = 2
  Similarities = {0, 1}
  DiversityEnabled = TRUE
  CreatorCaps = {1, 2}
  TopicCaps = {1}
  Affinities = 2
  MaxNow = 1
  MaxRequests = 2
  MaxImpressions = 3
INVARIANTS ExactHasNoRegret ExplorationPoolFull StreamAligned StarvedForCause
