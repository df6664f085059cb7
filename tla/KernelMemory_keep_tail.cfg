SPECIFICATION Spec
CONSTANTS
  Sizes <- Requests
  FreesTail = FALSE
  MaxLive = 3
  HeapEnd = 21
  PMM_BLOCK_SIZE = 2
  Pages = 6
  WordBits = 2
  kernel_size = 5
  AlignedEvery = 2
  L1Tables = 1
  CounterRange = 16
  RegionSizes <- Regions
  MaxUsed = 7
  kmalloc_size = 28
  ManagerSize = 2
  BitmapSize = 3
  PermanentSizes <- ObjectSizes
  MaxPermanent = 3
CHECK_DEADLOCK FALSE
INVARIANTS TypeOK Tiling BlocksMatchHolders FreeFindsBlock WritesHitNextHeader HeadersApart CountersMatchBitmap LowestPageFound SearchSucceeds
PROPERTY ImplementsAllocator
