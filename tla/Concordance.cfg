CONSTANTS
  Match = {1, 2, 3, 4, 5, 6, 7, 8, 9, 10, 11, 12, 13}
  LineOf <- Place
  Hits = 2
  Text = {"new"}
  Own = "own"
  MaxPending = 2
  MaxClicks = 3
  MaxFailures = 1
  MaxEdits = 1
SPECIFICATION Spec
INVARIANTS
  TypeOK
  ListIsCurrent
  CorrectedSharesLine
PROPERTIES
  PagesExist
\* The user may stop.
CHECK_DEADLOCK FALSE
