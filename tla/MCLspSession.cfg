SPECIFICATION MCSpec
CONSTANTS
    u1 = u1
    a = a
    u2 = u2
    Uris = {u1, u2}
    Texts = {a,b}
    Oversized = big
    Absent = absent
    Rejected = rejected
    NFiles = 2
    Group <- MCGroup
    Workers = {w1, w2}
    Queries = {q1}
    Lanes = {"worker", "files", "query"}
    MaxVersion = 2
    OpenVersions = {1}
    MaxEpoch = 3
    MaxWrites = 1
    MaxPanics = 1
INVARIANTS
    EditsAreKept
    OneAnalysis
    NoTornWorkspace
    ShownTextIsVersioned
PROPERTIES
    AnswersAreCurrent WorkerSettles
CHECK_DEADLOCK FALSE
