SPECIFICATION FairSpec
CONSTANTS
  Client = {c1, c2, c3}
  NoClient = NoClient
  Key = {k1}
  Dest = {d1, d2}
  NotFound = NotFound
  Nil = Nil
  NoReq = NoReq
INVARIANTS
  TypeOK
  NoConcurrentMapAccess
  NobodyStuck
PROPERTIES
  Linearizable
  CallsReturn
CHECK_DEADLOCK TRUE
