SPECIFICATION FairSpec
CONSTANTS
  Handler = {h1, h2}
  Agent = {alice, bob}
  Anonymous = Anonymous
  Doc = {link}
  NilDoc = NilDoc
  Scheme <- MCScheme
  Dest <- MCDest
  ResolveReference <- MCResolveReference
  Missing = Missing
INVARIANT TypeOK
PROPERTIES
  OwnerSettles
  CallsEnd
CHECK_DEADLOCK TRUE
