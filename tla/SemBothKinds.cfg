CONSTANTS
  t1 = t1
  t2 = t2
  t3 = t3
  isr = isr
  Takers <- MCTakers
  Givers <- MCIsr
  Kinds = {TRUE, FALSE}
  Interruptible = TRUE
  MaxGives = 2
SPECIFICATION FairSpec
INVARIANTS
  TypeOK
  PermitsConserved
  NoLostWakeup
  DebtBounded
PROPERTIES
  PermitTaken
  TimedTakeReturns
  ImplementsPool
