SPECIFICATION Spec
CONSTANTS
  mem_size_aligned = 16
  SIZEOF_STRUCT_MEM = 2
  MIN_SIZE_ALIGNED = 2
  Sizes = {0, 1, 3, 6, 10}
INVARIANTS HeapOK LowestFree UsedCounted
