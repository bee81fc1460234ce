CONSTANTS
  WORDS = 3
  WordBits = 4
  PAGE_SIZE = 2
  MemoryMaps <- Maps
  Kernel <- kernel
  UserPages = 4
  HeapPages = 2
  TableSpan = 3
  MmioTables = 1
  StackPages = 1
  TestFrames = 2
  NicFrames = 2
  Programs <- images
  Runs = 3
SPECIFICATION SpaceSpec
INVARIANTS TypeOK HeldFramesAreMarked FramesHaveOneUse HeapIntact ImageIntact SelfTestRestores
PROPERTY ImplementsFramePool
CHECK_DEADLOCK FALSE
