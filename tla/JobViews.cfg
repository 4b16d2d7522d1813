CONSTANTS
  MaxJobs = 2
  MaxMishaps = 1
  MaxEdits = 1
  Shown = {"profile", "lexicon"}
  MaxLayouts = 3
  MaxClicks = 3
SPECIFICATION Spec
INVARIANTS
  TypeOK
  OneJobPerBook
  FlagsTellFiles
PROPERTIES
  LoadingEnds
\* The user may stop.
CHECK_DEADLOCK FALSE
