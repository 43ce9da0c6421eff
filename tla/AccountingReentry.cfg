SPECIFICATION Spec
CONSTANTS
    k1 = k1 k2 = k2 v1 = v1 v2 = v2
    Runs = {1}
    NumPaths = 2
    Dir = {2}
    Contents = {k1, k2}
    Volumes = {v1, v2}
    BatchSize = 1
    MaxPasses = 3
    MaxMishaps = 2
    Absent = absent
INVARIANT ReentryReuses
CHECK_DEADLOCK FALSE
