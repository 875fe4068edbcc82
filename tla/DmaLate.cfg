CONSTANTS
  p1 = p1
  p2 = p2
  Ascii = Ascii
  Procs <- MCOne
  MaxPages = 1
  MaxOutstanding = 1
  Directions <- MCOneBoth
  Faults <- MCTimeout
  TakeTurns = TRUE
SPECIFICATION Spec
INVARIANTS
  WaitBlocks
