SPECIFICATION ServiceSpec
CONSTANTS
  alice = alice
  bob = bob
  Handler = {h1, h2}
  Agent <- MCAgent
  Anonymous = Anonymous
  Doc <- MCDoc
  NilDoc = NilDoc
  Scheme = {"https"}
  Dest <- MCDest
  ResolveReference <- MCResolveReference
  Missing = Missing
  MaxTries = 2
  Domain <- MCDomain
  On <- MCOn
  Id <- MCId
SYMMETRY Symmetry
INVARIANTS
  ServiceTypeOK
  AnsweredLives
  OnlyAsked
  StoredOnce
  OwnWritesStand
PROPERTIES
  ImplementsStore
CHECK_DEADLOCK FALSE
