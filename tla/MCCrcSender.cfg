SPECIFICATION SenderSpec
CONSTANTS
  MIN_PACKET_SIZE = 7
  DEVICE_MIN = 1
  PACKET_OVERHEAD = 1
  TRANSMIT_BUFFER_SIZE = 3
  SPLIT_SLACK = 1
  STAT_OVERHEAD = 1
  InvalidSizes = {4, 16}
  NULL = NULL
  Loads <- MCLoads
  Empties = {2}
  MaxFrames = 6
INVARIANTS SpacingKept FillersValid
PROPERTIES LossNeedsDeletedTail SendTerminates
