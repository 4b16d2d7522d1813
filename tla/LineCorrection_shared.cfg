\* A book and a package of it: two lock keys for the same line.
SPECIFICATION Spec
CONSTANTS
  p1 = p1
  p2 = p2
  b1 = b1
  Worker = {w1, w2}
  Project = {p1, p2}
  Book = {b1}
  BookOf <- BookAndPackage
  Line = {l1}
  Slot = {s1}
  Text = {a, b}
  NoText = NoText
  NoContent = NoContent
  NoRequest = NoRequest
  Method = {"POST"}
  PoolSize = 2
PROPERTIES ManualSurvives
