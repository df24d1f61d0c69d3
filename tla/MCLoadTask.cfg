SPECIFICATION LoadSpec
CONSTANTS
  Modes = {"custom", "poisson", "cbr"}
  batch_size = 2
  RING_SIZE = 3
  RESTART = 2
  CbrGap = 2
  PoissonGaps = {0, 1, 3}
  CustomGaps = {0, 2}
  MaxSend = 2
  MaxPackets = 4
  MaxTime = 6
  BUFS = 2
  DataLimits <- MC_DataLimits
INVARIANTS NothingLost RateCeiling LimitRespected
PROPERTY LoadEnds
CHECK_DEADLOCK FALSE
