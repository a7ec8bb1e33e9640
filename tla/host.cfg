\* One host: its commands and daemon, the tailnet, the store, a backup.
SPECIFICATION Spec
CONSTANTS
    c1 = c1
    c2 = c2
    s1 = s1
    s2 = s2
    i1 = i1
    i2 = i2
    Parts = {"host", "confirmed", "tailnet", "openings", "callers", "backup"}
    Cli = {c1, c2}
    Foreign = {"rule"}
    KeyIds = {1}
    Daemon = {1}
    Ops = {"init", "start", "stop", "destroy", "setup", "cleanup"}
    MaxEdits = 1
    MaxRuns = 4
    MaxLaunches = 2
    MaxCrashes = 1
    None = None
    Proc = {1, 2}
    Callers = {c1, c2}
    Stable = {s1, s2}
    Instance = {i1, i2}
    MaxNodes = 1
    MaxCalls = 2
    MaxStarts = 3
    Nil = Nil
    Network = {"state", "log"}
    MaxWrites = 2
    MaxBegun = 3
    Absent = Absent
INVARIANTS PolicyHonest DestroySafe StoreHonest BackupIsSnapshot
SYMMETRY Interchangeable
CHECK_DEADLOCK FALSE
