\* Selection under fixed and personal caps, then the topic swap pass.
SPECIFICATION Spec
CONSTANTS
  Reels = {0, 1, 2, 3, 4}
  Servable = {0, 1, 2, 3, 4}
  Creator <- Creators
  Topic <- TopicsOf
  Similarities = {1}
  Sources <- OneSource
  Paths = {"diverse"}
  FeedSize = 4
  CandidateLimit = 5
  GuaranteedSlots = 0
  MaxPerCreator = 2
  MaxPerTopic = 6
  UseMmr = FALSE
  CapScales = {5, 10}
  Fatigues = {0, 6}
INVARIANTS
  FeedDiverse
  ShortOnlyWhenForced
  PassedOverOnlyForCaps
