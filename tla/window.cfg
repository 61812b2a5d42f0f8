\* Two changes of the tree, a window hidden twice and one crash of Explorer.
CONSTANTS
  MaxChanges = 2
  TRAY_MAX_RETRIES = 1
  MaxHides = 2
  MaxCrashes = 1
  close_to_tray_ = TRUE
SPECIFICATION FairSpec
INVARIANTS GateMatches ShowHasController
PROPERTIES ShowsLatest 
CHECK_DEADLOCK FALSE
