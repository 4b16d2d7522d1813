CONSTANTS
  root = root
  user = user
  w1 = w1
  w2 = w2
  User = {root, user}
  Admin = {root}
  Worker = {w1}
  MaxId = 5
  MaxPages = 3
  Sizes = {3}
  Deleted = {2}
  MaxBook = 2
  Shares <- SplitLists
  Nobody = Nobody
SPECIFICATION Spec
INVARIANTS
  PackagesDisjoint
CHECK_DEADLOCK FALSE
