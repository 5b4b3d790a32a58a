CONSTANTS
  Kind = {"sweep", "quad", "wave", "noise"}
  MaxLength <- MCMaxLength
  LengthByte = 3
  Lengths <- MCLength
  Counting <- MCCounting
  Shape <- MCShape
  MaxVolume = 2
  Dividers = 2
  MaxShift = 1
  Limit = 4
  LowByte = 2
  Tag = {1, 2}
  NoEvent = 0
SPECIFICATION PsgFairSpec
INVARIANTS ChainAlive OneChain LengthLeft
PROPERTY FallsSilent
