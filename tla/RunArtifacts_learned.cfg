SPECIFICATION Spec
CONSTANTS
  Documents <- EveryDocument
  Overrides = {"none"}
  Switches = {}
CHECK_DEADLOCK FALSE
INVARIANT
  LearnedReportOnlyOnLearnedArm
