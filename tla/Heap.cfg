CONSTANTS
  Units = 7
  MaxUnits = 4
  GoesOn = FALSE
SPECIFICATION FairHeapSpec
INVARIANTS Partitioned
PROPERTIES ImplementsAllocator CallsEnd
CHECK_DEADLOCK FALSE
