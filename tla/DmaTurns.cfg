CONSTANTS
  p1 = p1
  p2 = p2
  Ascii = Ascii
  Procs <- MCProcs
  MaxPages = 4
  MaxOutstanding = 2
  Directions <- MCBoth
  Faults <- MCSetupFaults
  TakeTurns = TRUE
SPECIFICATION FairSpec
INVARIANTS
  TypeOK
  DoneMeansMoved
  AccessesMappedPages
  OneCompletionOnItsWay
PROPERTIES
  AddressHeld
  CallReturns
  KeepsPromise
