CONSTANTS
  WORDS = 2
  WordBits = 2
  PAGE_SIZE = 2
  RAM = 10
  MemoryMaps <- AnyMaps
  Kernel <- kernel
SPECIFICATION Spec
CHECK_DEADLOCK FALSE
INVARIANT PartialPagesProtected
