SPECIFICATION Spec
CONSTANTS
  g = g
  MaxPsn = 3
  MaxEarly = 2
  Pids = {p1, p2, p3}
  NoPid = NoPid
  Unopenable = {1}
  MaxLosses = 0
  Overlaps = {}
  NO_PROXY = NO_PROXY
  Rules <- MCRules
  NameMatch <- MCNameMatch
  RuleGroup <- MCRuleGroup
  ManualGroups = {g}
  kMaxChainDepth = 2
  MaxCommands = 0
  HttpThreads = 1
  MaxMutations = 0
SYMMETRY MCSymmetry
INVARIANTS SideMapExact  ParentIsAncestor 
PROPERTY ChildrenMoveUp
CHECK_DEADLOCK FALSE
