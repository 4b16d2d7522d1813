CONSTANTS
  Page = {1, 2}
  LineIds <- Ids
  Edited <- Corrected
  Text = {"new"}
  Ocr = "ocr"
  MaxTokens = 2
  MaxPending = 2
  MaxClicks = 3
  MaxFailures = 1
SPECIFICATION Spec
INVARIANTS
  TypeOK
  ShownIsStored
  DrawnAtItsLine
PROPERTIES
  LiveTokenKept
  BackdropLifts
\* The user may stop, and the tab may be left at the form for the login.
CHECK_DEADLOCK FALSE
