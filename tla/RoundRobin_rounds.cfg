\* Injection, drift and session exits, alone and together.
SPECIFICATION Spec
CONSTANTS
  Configs <- MixedConfigs
  Tracked = 2
CHECK_DEADLOCK FALSE
INVARIANTS
  ServedEveryRound
  DriftCurrent
  CurveExact
  LedgersAgree
