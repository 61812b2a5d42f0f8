SPECIFICATION FairSpec
CONSTANTS
  i1 = i1
  i2 = i2
  router = router
  own = own
  l1 = l1
  l2 = l2
  s1 = s1
  x1 = x1
  x2 = x2
  Automatic = Automatic
  None = None
  main = main
  h1 = h1
  Interfaces = {i1, i2}
  Servers = {router, own}
  Listens = {l1, l2}
  DhcpServers = router
  UserSetting <- MCUserSetting
  Unreliable = {"capture", "set", "start"}
  Handlers = {h1}
  Main = main
  Upstreams = {s1}
  Proxies = {x1, x2}
  Modes = {"forwarder", "hook"}
  DefaultConfig <- MCDefaultConfig
  MaxConcurrent = 1
  MaxChanges = 2
  MaxCrashes = 2
INVARIANT AgreesWithConfig
PROPERTIES KeepsPromise LeavesNothing ComesBack
