\* Two requests: bodies that are empty, out of order, for two transformers, or
\* partly invalid; the second export is cut by its limit and leaves a part chunk.
CONSTANTS
  Requests = {r1, r2}
  Batches <- MCBatches
  Limit = 3
  Chunk = 2
  None = None
SPECIFICATION Spec
SYMMETRY Interchangeable
INVARIANTS CachedIsStored AllOrNothing CacheFollowsRequests
PROPERTIES ExportCountsRows
CHECK_DEADLOCK FALSE
