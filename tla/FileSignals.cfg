CONSTANTS
  t1 = t1
  t2 = t2
  t3 = t3
  None = None
  Threads <- MCThreads
  Signals = TRUE
  MaxOpens = 3
SPECIFICATION FairSpec
INVARIANTS
  TypeOK
  WriterExclusive
  CountsBalance
PROPERTIES
  CallsReturn
