\* Three streams of two nodes, with room for one node; two commands on two
\* streams of one node; the topology a stream tells of; two watchers with two
\* slots; a follower.
SPECIFICATION MCSpec
CONSTANTS
    n1 = n1  n2 = n2  c1 = c1  c2 = c2
    Node <- TwoNodes
    CommandId = {c1, c2}
    TargetOf <- FirstTarget
    MaxFleetNodes = 1
    OutboundCap = 1
    Retention = 1
    Ttl = 1
    MaxStreams = 3
    MaxClock = 3
    MaxChanges = 3
    MaxSequence = 3
    MaxSessions = 2
    MaxWire = 2
    Unknown = Unknown
    Watcher = {w1, w2}
    MaxSubscriptions = 2
    MaxFleet = 3
    MaxBuffered = 1
    Nothing = Nothing
    Gap = Gap
    MaxTerminal = 2
    MaxSession = 2
    Texts = {x, y}
    Transient = {busy, lost}
    NoView = NoView
SYMMETRY CommandSymmetry
CHECK_DEADLOCK FALSE
INVARIANTS
    OneSender
    ServingIsCurrent
    NoneStranded
    ConnectedIsServed
    LimitIsNoFailure
    PictureCurrent
    WatchersTold
    FollowsOne
