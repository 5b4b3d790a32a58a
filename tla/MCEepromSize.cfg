CONSTANTS
  Cell = {0, 1, 2, 3, 170}
  Erased = 3
  Cell0 = {0, 3}
  BankSize = 4
  SectorSize = 2
  Unlock1 = 3
  Unlock2 = 1
  Command <- MCCommand
  MaxCommands = 3
  Sizes <- MCSizes
  BlockSize = 2
  CellBits = 2
  DummyBits = 2
  Block = {0, 1}
  Data <- MCData
  MaxFrames = 2
  Frame <- MCFrame
  Now <- MCNow
  CounterSize = 2
  Brightness = 0
  MaxSelects = 2
  SaveAt = {9}
  Cartridges <- MCCartridges
SPECIFICATION Spec
INVARIANT SizeFromFirstTransfer
CHECK_DEADLOCK FALSE
