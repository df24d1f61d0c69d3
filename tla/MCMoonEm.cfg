SPECIFICATION Spec
CONSTANTS
  LOOPS <- MC_LOOPS
  LOSS_TYPES = {"UNIFORM"}
  BURST_SIZE = 2
  RING_SIZE = 3
  NUM_BUFS = 3
  DELAY = 1
  TOKEN_RATE = 1
  TICKS_PER_BYTE = 1
  CAPACITY = 2
  SIZES = {1, 2}
  BOOT = 3
  LAST_ARRIVAL = 4
  MAX_TIME = 7
  MAX_PKTS = 3
INVARIANTS
  NeverEarly
  TokenBucketConforms
  LeakyBucketSpaces
  EachPacketOnce
PROPERTY
  AllLeave
CHECK_DEADLOCK FALSE
