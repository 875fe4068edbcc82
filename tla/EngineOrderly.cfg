CONSTANTS
  CNT = 8
  CyclesValues <- MCCycles
  MaxOutstanding = 2
  OneAtATime = TRUE
SPECIFICATION FairSpec
INVARIANTS
  TypeOK
  GoIsOneAccess
PROPERTIES
  PortsHeld
  DataDelay
  GosAnswered
