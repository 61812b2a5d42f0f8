SPECIFICATION FairSpec
CONSTANTS
  f1 = f1
  f2 = f2
  p1 = p1
  p2 = p2
  None = None
  Flows = {f1}
  Ports = {p1}
  PortOf <- MCOwnPorts
  RemoteOf <- MCRemoteOf
  Verdict <- MCVerdict
  EchoPaths = {"direct"}
  Lossy = {f1}
  ReuseGap = 0
  PauseLen = 30
  MaxPauses = 1
  Rto = 29
  MaxRetransmits = 1
  PoolSize = 1
  WordGenMod = 64
  PoolGenMod = 256
  TTL = 20
  Watchdog = 25
  Workers = {w1, w2}
  Oversize = {}
  MayStop = TRUE
  Lagging = {}
INVARIANTS TypeOK NoHijack StaysReflected
PROPERTY SynGetsOut
