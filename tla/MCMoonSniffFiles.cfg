SPECIFICATION Spec
CONSTANTS
  BUCKET_SIZES = {1, 4}
  SCALE = 6
  MODES = {"mscap", "pcap"}
  WORD = 16
  INDEX_BITMASK = 7
  MARGIN = 1
  TIME_THRESH <- MC_THRESH
  FIRST_IDS = {0, 5}
  TRACES <- MC_TRACES
  NUM_PKTS = 3
  SEQ_OFFSET = 42
  SNAP_LEN = 64
  INITIAL_FILE_SIZE = 112
INVARIANTS
  SamplesTrue
  MatchComplete
  RecordsAccounted
  HistogramExact
  PcapRoom
PROPERTY
  CaptureEnds
CHECK_DEADLOCK FALSE
