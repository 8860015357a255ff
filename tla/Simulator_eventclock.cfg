\* The event clock steps back between two users of one reel.
SPECIFICATION Spec
CONSTANTS
  Users = {u1, u2}
  Reels = {r1}
  Clocks = {"event"}
  SessionModels = {"dynamics"}
  Starts = {0, 1, 3, 6}
  WatchTimes = {0, 3}
  BrowseOverhead = 2
  SessionTargets = {1}
  MaxImpressions = 3
CHECK_DEADLOCK FALSE
INVARIANTS
  VelocityCorrect
