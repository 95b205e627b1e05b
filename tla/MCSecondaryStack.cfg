\* 10 usable bytes in a chunk of 14, alignment 2, an address space of 64 bytes
\* so that a request of Storage_Count'Last is still larger than the chunk.
CONSTANTS
  ChunkSize  = 14
  MarkBytes  = 2
  MaxAlign   = 2
  MemorySize = 64
  MaxScopes  = 3
SPECIFICATION Spec
INVARIANTS StackInv BlocksInsideChunk BlocksDisjoint NothingLeaks
PROPERTY PoolSpec
