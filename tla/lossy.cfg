SPECIFICATION Spec
CONSTANTS
  g = g
  MaxPsn = 3
  MaxEarly = 2
  Pids = {p1, p2}
  NoPid = NoPid
  Unopenable = {}
  MaxLosses = 1
  Overlaps = {}
  NO_PROXY = NO_PROXY
  Rules <- MCRules
  NameMatch <- MCNameMatch
  RuleGroup <- MCRuleGroup
  ManualGroups = {g}
  kMaxChainDepth = 2
  MaxCommands = 0
  HttpThreads = 1
  MaxMutations = 0
SYMMETRY MCSymmetry
INVARIANT Recovers
CHECK_DEADLOCK FALSE
