SPECIFICATION Spec
CONSTANTS
  Devices = {0, 1}
  CONFIGS <- MC_CONFIGS
INVARIANTS
  QueuesOwned
  CounterExact
  StatsKept
PROPERTIES
  LifeSpec
  TasksEnd
CHECK_DEADLOCK FALSE
