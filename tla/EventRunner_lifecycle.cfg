\* Two users meeting at the same timestamps, refill when empty and
\* invalidation: shared state, and progress under the loop's own fairness (no
\* symmetry: liveness).
SPECIFICATION FairSpec
CONSTANTS
  Users = {u1, u2}
  Reels = {r1, r2, r3}
  Horizon = 4
  OpenTimes = {0, 1}
  WatchTimes = {0, 1}
  BrowseOverhead = 1
  RefetchDelay = 1
  ReturnDelays = {1, 9}
  PrefetchDepth = 2
  RefillThreshold = 0
  InvalidateOnIntent = TRUE
  LearningEnabled = TRUE
  RetentionEnabled = TRUE
INVARIANTS
  SnapshotConsistency
  NeverServedTwice
PROPERTIES
  RunCompletes
  ExitedUsersReturn
  RefinesLifecycle
