SPECIFICATION Spec
CONSTANTS
  g = g
  MaxPsn = 2
  MaxEarly = 0
  Pids = {p1, p2}
  NoPid = NoPid
  Unopenable = {}
  MaxLosses = 0
  Overlaps = {}
  NO_PROXY = NO_PROXY
  Rules <- MCRules
  NameMatch <- MCNameMatch
  RuleGroup <- MCRuleGroup
  ManualGroups = {g}
  kMaxChainDepth = 2
  MaxCommands = 2
  HttpThreads = 1
  MaxMutations = 2
SYMMETRY MCSymmetry
INVARIANTS MarkHasReason 
PROPERTY LiveUndisturbed
CHECK_DEADLOCK FALSE
