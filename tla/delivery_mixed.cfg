\* A probe and a session ensure, with a node journal that holds one entry.
SPECIFICATION FairSpec
CONSTANTS
    c1 = c1  c2 = c2  c3 = c3
    k1 = k1  k2 = k2  p1 = p1
    CommandId <- MixedIds
    Key = {k1, k2}
    Project = {p1}
    NoProject = NoProject
    KeyOf <- MixedKeyOf
    KindOf <- MixedKindOf
    ProjectOf <- MixedProjectOf
    MaxCommands = 2
    NodeCapacity = 1
    OutboundCap = 2
    WorkCap = 1
    EphemeralCap = 1
    MaxStreams = 2
INVARIANTS
    SafetyInv
    TrailBounded
PROPERTIES
    Settles
    Delivered
