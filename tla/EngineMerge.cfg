CONSTANTS
  CNT = 8
  CyclesValues <- MCCycles
  MaxOutstanding = 2
  OneAtATime = TRUE
SPECIFICATION Spec
INVARIANTS
  InterruptPerWord
