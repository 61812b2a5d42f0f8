SPECIFICATION Spec
CONSTANTS
  f1 = f1
  f2 = f2
  p1 = p1
  p2 = p2
  None = None
  Flows = {f1, f2}
  Ports = {p1, p2}
  PortOf <- MCOwnPorts
  RemoteOf <- MCRemoteOf
  Verdict <- MCVerdict
  EchoPaths = {}
  Lossy = {}
  ReuseGap = 0
  PauseLen = 30
  MaxPauses = 0
  Rto = 29
  MaxRetransmits = 0
  PoolSize = 1
  WordGenMod = 64
  PoolGenMod = 256
  TTL = 20
  Watchdog = 25
  Workers = {w1}
  Oversize = {}
  MayStop = FALSE
  Lagging = {}
INVARIANTS PoolOwnership NoLeak
PROPERTY MismatchOnlyByTruncation
