SPECIFICATION LoadSpec
CONSTANTS
  Modes = {"poisson", "cbr"}
  batch_size = 3
  RING_SIZE = 4
  RESTART = 1
  CbrGap = 1
  PoissonGaps = {0, 2}
  CustomGaps = {0}
  MaxSend = 0
  MaxPackets = 0
  MaxTime = 3
  BUFS = 2
  DataLimits = {6}
INVARIANT DataLimitSent
CHECK_DEADLOCK FALSE
