SPECIFICATION Spec
CONSTANTS
  MIN_PACKET_SIZE = 10
  DEVICE_MIN = 1
  PACKET_OVERHEAD = 1
  TRANSMIT_BUFFER_SIZE = 2
  SPLIT_SLACK = 1
  STAT_OVERHEAD = 1
  InvalidSizes = {6, 9}
  NULL = NULL
  NS_NUM = 3
  NS_DEN = 2
  LATE = 4
  IDLE_SIZE = 6
  BATCH_SIZE = 9
  BURST = 1
  WARMUP = 1
  RING_SIZE = 3
  FirstTimestamps = {3}
  Bufs <- MCBufs
  MaxPackets = 4
  MaxBytes = 40
INVARIANTS OnTime PacketsAccounted
PROPERTIES LoopServes
CHECK_DEADLOCK FALSE
