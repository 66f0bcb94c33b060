SPECIFICATION Spec
CONSTANTS
  Run = {r1, r2}
  Inode = {f1, f2, f3}
  NoInode = NoInode
  MaxTokens = 2
  Longer = {1}
INVARIANT CacheWhole
CHECK_DEADLOCK TRUE
