\* One to three threads, no users to more users than threads.
SPECIFICATION FairSpec
CONSTANTS
  ThreadCounts = {1, 2, 3}
  UserCounts = {0, 1, 2, 3, 4}
  Warmup = 1
  Timed = 2
INVARIANTS
  MeasurementExact
  UsersSplit
PROPERTIES
  Terminates
