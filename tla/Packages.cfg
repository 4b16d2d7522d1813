CONSTANTS
  root = root
  user = user
  w1 = w1
  w2 = w2
  User = {root, user}
  Admin = {root}
  Worker <- Workers
  MaxId = 3
  MaxPages = 3
  Sizes = {3}
  Deleted = {2}
  MaxBook = 2
  Shares <- SplitLists
  Nobody = Nobody
SPECIFICATION Spec
SYMMETRY Symmetry
INVARIANTS
  TypeOK
  NoPageSkipped
PROPERTIES
  SplitIsPartition
  PackagesGoHome
  OnlyOwnerDeletes
  DeletionLeavesNothing
\* Every account may be deleted: then nobody can act any more.
CHECK_DEADLOCK FALSE
