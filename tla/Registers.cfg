CONSTANT
  Orders <- MCOrders
SPECIFICATION FairSpec
INVARIANTS
  TypeOK
  GoOncePerWrite
PROPERTIES
  ReadsRight
  AccessAnswered
