SPECIFICATION Spec
CONSTANTS
  Handler = {h1, h2}
  Agent = {alice, bob}
  Anonymous = Anonymous
  Doc = {link}
  NilDoc = NilDoc
  Scheme <- MCScheme
  Dest <- MCDest
  ResolveReference <- MCResolveReference
  Missing = Missing
PROPERTY KeepsOwner
CHECK_DEADLOCK TRUE
