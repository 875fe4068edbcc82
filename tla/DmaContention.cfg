CONSTANTS
  p1 = p1
  p2 = p2
  Ascii = Ascii
  Procs <- MCProcs
  MaxPages = 1
  MaxOutstanding = 1
  Directions <- MCMixed
  Faults <- MCWaitFaults
  TakeTurns = FALSE
SPECIFICATION Spec
PROPERTIES
  StraysExplained
