SPECIFICATION Spec
CONSTANTS
  Run = {r1, r2}
  Inode = {f1, f2, f3, f4}
  NoInode = NoInode
  MaxTokens = 3
  Longer = {}
INVARIANTS
  TypeOK
  WholeAlone
  SavedWhenSent
PROPERTIES
  LoginOnlyIfNeeded
  ImplementsCell
CHECK_DEADLOCK TRUE
