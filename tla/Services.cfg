SPECIFICATION AnySpec
CONSTANTS
    x = x y = y req1 = req1 req2 = req2
    Invokers = {x, y}
    Requests = {req1, req2}
    Works = {w1, w2}
    Existing = {w1}
    Contents = {k1, k2}
    Candidates = {k1, k2}
    Edits = {k2}
    Times = {1}
    MaxRevision = 2
    MaxTouched = 1
    Foreign = foreign
    None = None
SYMMETRY Alike
INVARIANTS SealCannotBeOvertaken OneTransitionPerRequest AnalysisDecides
INVARIANTS AdmissionIsSound LookupsAreAccountedFor
PROPERTIES UpdateAnswersTruly KeepsRegister DatasetIsCurrentAndKept AccountingIsTrue
CHECK_DEADLOCK FALSE
