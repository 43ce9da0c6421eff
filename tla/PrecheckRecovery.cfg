SPECIFICATION FairSpec
CONSTANTS
  r1 = r1
  r2 = r2
  h1 = h1
  h2 = h2
  i1 = i1
  i2 = i2
  Runs = {r1}
  Hosts = {h1}
  Inventories = {i1, i2}
  GeoNeeded = {i1}
  MaxTries = 2
  MaxDrift = 1
  MaxCrashes = 1
  Faults = {"error", "blocked", "source"}
  NoInventory = NoInventory
  NoHost = NoHost
  DeadHost = DeadHost
  NoRun = NoRun
INVARIANT EffectsConfirmed
INVARIANT CompletedResult
PROPERTY WorkedRunsSettle
PROPERTY CancelledIsLeft
\* A Run that ended stops.
CHECK_DEADLOCK FALSE
