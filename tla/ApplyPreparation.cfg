SPECIFICATION SmallSpec
CONSTANTS
    e = e c1 = c1 c2 = c2 r1 = r1 r2 = r2 q1 = q1 q2 = q2
    s1 = s1 s2 = s2 s3 = s3 t1 = t1 t2 = t2 t3 = t3 t4 = t4
    Runs = {e, r1, r2}
    Requests = {q1, q2}
    Callers = {c1, c2}
    Earlier = e
    Items = {1, 2, 3}
    Wanted <- Wants
    Source <- FoundAt
    Target <- GoesTo
    Places = {s1, s2, s3, t1, t2, t3, t4}
    Moved <- MovedBefore
    MaxNode = 4
    MaxDrift = 1
    None = none
INVARIANT AuthorityIsEarned
\* What is modelled may end.
CHECK_DEADLOCK FALSE
SYMMETRY Alike
