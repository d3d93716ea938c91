CONSTANTS
  NULL = NULL
  CHUNKSIZE = 32
  MAX_HEAP = 96
  NUM_SEGS = 4
  SIZE_BITS = 16
  DEBUG = FALSE
  Requests <- Api_Requests
  ReallocRequests <- Api_ReallocRequests
  CallocArgs <- Api_CallocArgs
SPECIFICATION Spec
INVARIANT TypeOK LiveBlocksIntact ContentsPreserved
PROPERTY LivePayloadPreserved
CHECK_DEADLOCK FALSE
