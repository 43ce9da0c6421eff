SPECIFICATION AnySpec
CONSTANTS
  h1 = h1
  h2 = h2
  i1 = i1
  i2 = i2
  p = p
  q = q
  None = None
  Runs = {p, q}
  Hosts = {h1, h2}
  Inventories = {i1, i2}
  GeoNeeded = {i1}
  MaxTries = 1
  MaxDrift = 0
  MaxCrashes = 0
  Faults = {}
  NoInventory = NoInventory
  NoHost = NoHost
  DeadHost = DeadHost
  NoRun = NoRun
SYMMETRY Alike
INVARIANTS OneExecution OneHeartbeat ReusedScopesCount
PROPERTY BytesAreKept
CHECK_DEADLOCK FALSE
