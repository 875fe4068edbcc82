CONSTANTS
  t1 = t1
  t2 = t2
  t3 = t3
  None = None
  Threads <- MCTwo
  Signals = TRUE
  MaxOpens = 2
SPECIFICATION Spec
INVARIANTS
  WriterAdmitted
