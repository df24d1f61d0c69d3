SPECIFICATION Spec
CONSTANTS
  SLOTS = 2
  Ids = {0, 2}
  Latencies = {3}
  PreTs <- MCPreTs
  BUFS = 2
  MaxPackets = 3
INVARIANTS EntryWhole SamplesPaired EntryUsedOnce
PROPERTY PostKeepsUp
CHECK_DEADLOCK FALSE
