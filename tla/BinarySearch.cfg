SPECIFICATION FairSpec
CONSTANTS
  Client = {c1, c2}
  NoClient = NoClient
  Key <- MCKey
  Dest = {d1, d2}
  NotFound = NotFound
  Nil = Nil
  NoReq = NoReq
INVARIANTS
  TypeOK
  Sorted
  BoundsKeepKey
  LockHeld
  SearchEnds
  NobodyStuck
PROPERTIES
  Linearizable
  CallsReturn
CHECK_DEADLOCK TRUE
