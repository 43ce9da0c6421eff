SPECIFICATION Spec
CONSTANTS
  d1 = d1
  d2 = d2
  NumItems = 1
  Routes = {"same", "cross"}
  Losses = {d1, d2}
  MaxRevision = 3
  MaxDrift = 1
  Faults = {"crash", "io", "drift", "exception"}
INVARIANT NothingLost
INVARIANT CompletedIsReal
\* A closed or cancelled Run stops.
CHECK_DEADLOCK FALSE
