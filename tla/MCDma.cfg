CONSTANTS
  Channel <- MCChannel
  Timing <- MCTiming
  Block = {2}
  FIFOBlock = 1
  Tag = {1, 2}
SPECIFICATION Spec
INVARIANTS ActiveIsLowest EnrolledAreEnabled ActivationCancellable
PROPERTIES UnitByActive TopServed
