SPECIFICATION EitherSpec
CONSTANTS
    w1 = w1 w2 = w2 r1 = r1 probe = probe frame = frame bundle = bundle
    Runs = {r1}
    Workers = {w1, w2}
    RunOf <- OneRun
    Kinds = {probe, frame, bundle}
    Inputs <- Needing
    MaxWork = 3
    MaxAttempts = 2
    MaxInvalidations = 1
    MaxDetached = 1
    None = none
INVARIANTS InputsHold PendingCanEnd TablesAgree
PROPERTY ProductionIsSound
SYMMETRY Alike
CHECK_DEADLOCK FALSE
