\* Both session models under the shared clock, session dynamics also under the
\* event clock; every gate on, or learning alone.
CHECK_DEADLOCK FALSE
SPECIFICATION BooksSpec
CONSTANTS
  Users = {1, 2}
  Reels = {1, 2}
  Clocks = {"shared", "event"}
  SessionModels = {"rotation", "dynamics"}
  Starts = {0, 2, 5}
  WatchTimes = {0, 3}
  BrowseOverhead = 2
  SessionTargets = {1, 2}
  MaxImpressions = 4
  GateSets = {{"evolution", "retention", "learning", "personalized"},
              {"evolution", "learning", "personalized"}, {"learning"}}
  RecentWindow = 2
  Duration = 3
  RepetitivePercent = 30
  ReturnDelays = {1, 9}
  ChurnDelay = 8
  DayLength = 2
  Horizon = 7
  ShortWindow = 1
  LongWindow = 7
  Decile = 2
  NicheReels = {1}
  Cohort = {1}
INVARIANTS
  TrendingDecayedForward
  BooksAgree
  SessionTimesExact
  HiddenStateExact
  LearnedStateExact
