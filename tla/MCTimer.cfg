CONSTANTS
  Last = 2
  Range = 3
  Reload = {0, 2}
  Control <- MCControl
  Period = {1, 2}
  Wrap = 2
  Tag = {1, 2}
SPECIFICATION Spec
INVARIANT OverflowOnTime
PROPERTY ImplementsCounters
