SPECIFICATION AnySpec
CONSTANTS
    h1 = h1
    h2 = h2
    h3 = h3
    x = x
    y = y
    q1 = q1
    q2 = q2
    q3 = q3
    Hosts = {h1, h2, h3}
    Clients = {x, y}
    MaxFaults = 1
    None = None
SYMMETRY Alike
INVARIANTS OneHost GroupingIsSound
PROPERTIES StoppedIsReal PagesAreExact AnswersAreVerified SealedResultsAreWhole ReadersKeepTheirContext
CHECK_DEADLOCK FALSE
