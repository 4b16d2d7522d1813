CONSTANTS
  Char = {1}
  Space = 2
  MaxOcr = 3
  MaxText = 2
  MaxLine = 4
  MaxEdits = 2
  Width = 4
  Cuts <- ClientCuts
SPECIFICATION Spec
INVARIANTS
  TokenIdsFindTokens
CHECK_DEADLOCK FALSE
