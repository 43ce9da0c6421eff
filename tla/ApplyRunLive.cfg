SPECIFICATION FairSpec
CONSTANTS
  d1 = d1
  d2 = d2
  NumItems = 2
  Routes = {"same", "cross"}
  Losses = {d1}
  MaxRevision = 3
  MaxDrift = 0
  Faults = {}
PROPERTY CancelCloses
PROPERTY Settles
\* A closed or cancelled Run stops.
CHECK_DEADLOCK FALSE
