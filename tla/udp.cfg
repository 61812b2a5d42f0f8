SPECIFICATION Spec
CONSTANTS
  u1 = u1
  u2 = u2
  p1 = p1
  a = a
  b = b
  r1 = r1
  r2 = r2
  g0 = g0
  g1 = g1
  None = None
  MANUAL = MANUAL
  DIRECT = DIRECT
  Sockets = {u1, u2}
  UPorts = {p1}
  PortOf <- MCPortOf
  Dsts = {a, b}
  Roaming = {}
  MaxDatagrams = 2
  ExcludeRules = {r1, r2}
  Excludes <- MCExcludes
  InitialExcludes <- MCInitial
  MaxReloads = 2
  UWorkers = {w1}
  UGroups = {g0, g1}
  DefaultGroup = g0
  RuleOf <- MCRuleOf
  GroupOf <- MCGroupOf
  MaxSessions = 2
  Lagging = FALSE
INVARIANTS PolicyFresh RowKeepsItsRule DirectUntouched DestinationKept ReplyFromPeer AnswersHeard
CHECK_DEADLOCK FALSE
