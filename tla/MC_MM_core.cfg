CONSTANTS
  NULL = NULL
  CHUNKSIZE = 48
  MAX_HEAP = 128
  NUM_SEGS = 4
  SIZE_BITS = 16
  DEBUG = FALSE
  Requests <- Core_Requests
  ReallocRequests <- Core_ReallocRequests
  CallocArgs <- Core_CallocArgs
SPECIFICATION Spec
INVARIANT LiveBlocksIntact ImplicitListSound FreeListsMatchHeap BoundaryTagsMatch
PROPERTY LivePayloadPreserved
CHECK_DEADLOCK FALSE
