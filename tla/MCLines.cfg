CONSTANTS
  Last = 9
  Height = 3
  VideoFirst = 1
  VideoEnd = 5
  LatchFrom = 6
  HDraw = 4
  HBlank = 2
  LatchDelay = 3
  VideoDelay = 2
  Setting = {0, 2, 9}
SPECIFICATION Spec
INVARIANTS FlagsMatchBeam OccasionsOnce InterruptsOnce ShowsItsLine
