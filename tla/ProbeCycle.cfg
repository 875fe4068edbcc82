CONSTANTS
  u1 = u1
  u2 = u2
  Users <- MCUsers
SPECIFICATION Spec
INVARIANTS
  TypeOK
  CallbacksSafe
  LateFilesSafe
  OwnsExactly
PROPERTIES
  OthersRegionKept
