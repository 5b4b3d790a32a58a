CONSTANTS
  Class = {c1}
  Closure = closure
  EndOfQueue = endOfQueue
  NoSave = NoSave
  Delay <- MCDelay
  Cycles <- MCCycles
  Pri <- MCPri
  Forever = 20
  MaxEvents = 5
  MaxNow = 2
  MaxCancels = 1
  SaveAt = 4
SPECIFICATION Spec
PROPERTY ImplementsQueue
CHECK_DEADLOCK FALSE
