CONSTANTS
  Source = {dma}
  Delay <- MCDelay
  Pri <- MCPri
  Far = 100
  MaxQueue = 6
SPECIFICATION Spec
INVARIANT SourceNotMasked
