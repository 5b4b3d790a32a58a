CONSTANTS
  Depth = 3
  Low = 1
  Block = 2
  Size = 2
  Byte = {0, 1}
  Delay = 2
  UnitCycles = 2
SPECIFICATION FairSpec
INVARIANT RefillFits
PROPERTIES ImplementsStream EmptyIsRefilled
