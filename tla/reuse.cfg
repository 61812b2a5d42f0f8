SPECIFICATION Spec
CONSTANTS
  f1 = f1
  f2 = f2
  p1 = p1
  p2 = p2
  None = None
  Flows = {f1, f2}
  Ports = {p1}
  PortOf <- MCOnePort
  RemoteOf <- MCRemoteOf
  Verdict <- MCVerdict
  EchoPaths = {"direct"}
  Lossy = {f1}
  ReuseGap = 25
  PauseLen = 30
  MaxPauses = 2
  Rto = 29
  MaxRetransmits = 0
  PoolSize = 2
  WordGenMod = 64
  PoolGenMod = 256
  TTL = 20
  Watchdog = 25
  Workers = {w1, w2}
  Oversize = {f2}
  MayStop = FALSE
  Lagging = {"relays"}
SYMMETRY MCSymmetry
INVARIANT ClearsOwnDecision
