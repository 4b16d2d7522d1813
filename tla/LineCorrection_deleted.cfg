\* One project; a POST and a DELETE of the same line.
SPECIFICATION Spec
CONSTANTS
  p1 = p1
  p2 = p2
  b1 = b1
  Worker = {w1, w2}
  Project = {p1}
  Book = {b1}
  BookOf <- OneProject
  Line = {l1}
  Slot = {s1}
  Text = {a}
  NoText = NoText
  NoContent = NoContent
  NoRequest = NoRequest
  Method = {"POST", "DELETE"}
  PoolSize = 2
INVARIANTS NoOrphans
