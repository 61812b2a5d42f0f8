\* Two requests at a time, three changes of the configuration and two crashes.
CONSTANTS
  Gui = Gui
  None = None
  Threads = {t1, t2}
  Callers = {t1, t2}
  Savers = {t1, t2, Gui}
  MaxChanges = 3
  MaxCrashes = 2
SPECIFICATION FairSpec
 
PROPERTY ShutdownCompletes
CHECK_DEADLOCK FALSE
