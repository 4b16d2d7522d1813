\* Two workers and two connections; one project, so every request for the line
\* uses the same lock key; a line of two slots.
SPECIFICATION Spec
CONSTANTS
  p1 = p1
  p2 = p2
  b1 = b1
  Worker = {w1, w2}
  Project = {p1}
  Book = {b1}
  BookOf <- OneProject
  Line = {l1}
  Slot = {s1, s2}
  Text = {a}
  NoText = NoText
  NoContent = NoContent
  NoRequest = NoRequest
  Method = {"GET", "POST", "DELETE"}
  PoolSize = 2
INVARIANTS TypeOK LockInv ConnectionsHeld CopyIsCurrent HonestAnswers
PROPERTIES ManualSurvives ImplementsRegister LockReleased
