SPECIFICATION Spec
CONSTANTS
  h1 = h1
  h2 = h2
  Main = Main
  Ticker = Ticker
  Admin = Admin
  NoCert = NoCert
  site = site
  Parts = {"app"}
  Modes = {"http", "http01", "dns01", "manual"}
  MaxRequests = 2
  Optional <- MCOptional
  Handshakes = {h1, h2}
  Domains <- MCDomains
  OldNames <- MCOldNames
  MaxOrders = 1
  Workloads <- MCWorkloads
CHECK_DEADLOCK FALSE
INVARIANT ShutdownHookRuns
