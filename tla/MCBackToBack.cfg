SPECIFICATION BurstSpec
CONSTANTS
  MAX_PKTS = 4
  ARRAY = 2
  GRANULARITIES = {1, 2}
  NUM_ITERATIONS = 2
  BUFFERS = {0, 1, 3, 4}
INVARIANTS
  LockStep
  BurstPrecise
PROPERTY
  BackToBackEnds
CHECK_DEADLOCK FALSE
