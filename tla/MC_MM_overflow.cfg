CONSTANTS
  NULL = NULL
  CHUNKSIZE = 32
  MAX_HEAP = 96
  NUM_SEGS = 4
  SIZE_BITS = 16
  DEBUG = FALSE
  Requests <- Overflow_Requests
  ReallocRequests <- Core_ReallocRequests
  CallocArgs <- Core_CallocArgs
SPECIFICATION Spec
INVARIANT LiveBlocksIntact
CHECK_DEADLOCK FALSE
