SPECIFICATION Spec
CONSTANTS
  Documents <- EveryDocument
  Overrides = {"none", "factory_arm", "oracle_satisfaction", "hnsw_learned_ranker"}
  Switches = {"smoke", "seed"}
CHECK_DEADLOCK FALSE
INVARIANTS
  LateRefusals
  GatesReported
  DirectoryExact
