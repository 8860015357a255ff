\* Three requests over three days and two retraining boundaries; the ids
\* cover the shown-only, both and pool-only samples.
SPECIFICATION Spec
CONSTANTS
  Users = {u1, u2}
  Reels = {r1, r2}
  Horizon = 4
  DayLength = 2
  Depth = 1
  RefillThreshold = 1
  MaxRequests = 3
  ShownSampled = {1, 2}
  PoolSampled = {2, 3}
  KeepMatrix = TRUE
  MaxRowsPerFile = 1
  RetrainInterval = 2
  MinTrainingRows = 1
  MinPositives = 1
SYMMETRY Symmetry
INVARIANTS
  ServingExact
  TablesJoin
  OfflineMatchesMemory
  SnapshotsAreDayEnd
  DayBooksBalance
