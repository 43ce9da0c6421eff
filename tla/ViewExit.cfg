SPECIFICATION Spec
CONSTANTS
  None = None
  h1 = h1
  h2 = h2
  h3 = h3
  c1 = c1
  c2 = c2
  Hosts = {h1, h2, h3}
  Clients = {c1, c2}
  MaxFaults = 1
INVARIANT OrderlyExitIsBridged
CHECK_DEADLOCK FALSE
