SPECIFICATION Spec
CONSTANTS
  d1 = d1
  d2 = d2
  NumItems = 2
  Routes = {"same", "cross"}
  Losses = {d1}
  MaxRevision = 3
  MaxDrift = 0
  Faults = {"crash", "io"}
INVARIANT TypeOK
INVARIANT JournalCoversEffects
INVARIANT DeletionAuthorized
INVARIANT QuiescentAtRest
INVARIANT ReceiptTruthful
PROPERTY SealedForGood
PROPERTY KeepsMovePromise
\* A closed or cancelled Run stops.
CHECK_DEADLOCK FALSE
