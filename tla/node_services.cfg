SPECIFICATION Spec
CONSTANTS
    e1 = e1
    e2 = e2
    q1 = q1
    q2 = q2
    Ensurer = {e1, e2}
    Query = {q1, q2}
    None = None
    MaxProcesses = 2
    MaxIncarnation = 2
    MaxUpdates = 1
    MaxPending = 2
    MaxOutbound = 2
    MaxTombstones = 1
    MaxActive = 1
    MaxResults = 1
INVARIANTS OneStart TreeLabelled FreshAnswer AnswersMatched
CONSTRAINT OneGroup
SYMMETRY Interchangeable
CHECK_DEADLOCK FALSE
