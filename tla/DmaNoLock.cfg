CONSTANTS
  p1 = p1
  p2 = p2
  Ascii = Ascii
  Procs <- MCProcs
  MaxPages = 1
  MaxOutstanding = 1
  Directions <- MCBoth
  Faults <- MCNoFaults
  TakeTurns = FALSE
SPECIFICATION Spec
INVARIANTS
  MutualExclusion
