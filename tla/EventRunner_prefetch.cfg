\* One user with a deep client cache, threshold refill and invalidation.
SPECIFICATION Spec
CONSTANTS
  Users = {u1}
  Reels = {r1, r2, r3, r4}
  Horizon = 7
  OpenTimes = {0, 8}
  WatchTimes = {0, 1}
  BrowseOverhead = 1
  RefetchDelay = 1
  ReturnDelays = {1, 9}
  PrefetchDepth = 2
  RefillThreshold = 1
  InvalidateOnIntent = TRUE
  LearningEnabled = TRUE
  RetentionEnabled = TRUE
SYMMETRY Symmetry
INVARIANTS
  ChainSound
  NoLostUser
  StalenessBound
  SessionsConserved
