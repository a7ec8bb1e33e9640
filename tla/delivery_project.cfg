\* Two attempts with one key and a rival mutation of the same project.
SPECIFICATION Spec
SYMMETRY ProjectSymmetry
CONSTANTS
    c1 = c1  c2 = c2  c3 = c3
    k1 = k1  k2 = k2  p1 = p1
    CommandId <- ProjectIds
    Key = {k1, k2}
    Project = {p1}
    NoProject = NoProject
    KeyOf <- ProjectKeyOf
    KindOf <- ProjectKindOf
    ProjectOf <- ProjectProjectOf
    MaxCommands = 3
    NodeCapacity = 2
    OutboundCap = 1
    WorkCap = 1
    EphemeralCap = 1
    MaxStreams = 2
INVARIANTS
    AtMostOnce
    HonestOutcome
    NoConflict
    AcknowledgedAgrees
PROPERTIES
    ProjectQuarantine
    DecisionsStand
    ImplementsContract
