\* Two requests at a time on one process and up to three changes.
SPECIFICATION Spec
CONSTANTS
  HttpThreads = 2
  MaxMutations = 3
  Endpoints = {e1, e2}
  Default = e1
  Processes = {p1}
  RuleMatches = {p1}
  None = None
INVARIANTS MapsFollowConfig NoDangling 
CHECK_DEADLOCK FALSE
