CONSTANTS
  WORD = 64
  SPACE = 48
  PAGE_SIZE = 8
  MAX_LOCAL_REGS = 2
  MAX_BUFFER_SIZE = 16
  Addresses <- MCAddresses
  Values <- MCValues
SPECIFICATION FairSpec
INVARIANTS
  TypeOK
  SuccessIsWhole
  InOrder
  NothingLeft
  KilledHoldsLittle
  SegmentsCover
PROPERTIES
  IoctlReturns
