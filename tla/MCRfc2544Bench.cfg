SPECIFICATION Spec
CONSTANTS
  UDP_PORT = 42
  MAX_PORT = 63
  FRAMES = 1
  MAX_LINK_RATE = 20
  THRESHOLDS = {2, 4}
  LOSS_NUM = 1
  LOSS_DEN = 3
  NUM_ITERATIONS = 2
  GRANULARITIES = {5, 19}
  CAPACITIES = {0, 13, 20}
INVARIANTS
  ResultsValid
  SearchPrecise
  SweepComplete
PROPERTY
  BenchEnds
CHECK_DEADLOCK FALSE
