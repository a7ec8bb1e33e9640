\* Two projects that compete for checkouts and worktree roots.
SPECIFICATION Spec
CONSTANTS
    p1 = p1  p2 = p2  link = link
    d1 = d1  d2 = d2  r1 = r1  r2 = r2
    None = None
    Default = Default
    Project = {p1, p2}
    Path = {}
    Dir = {d1, d2}
    Root = {r1, r2}
    DefaultRoot <- Roots
    Config <- RootsConfig
    Legacy <- RootsLegacy
    Order <- RootsOrder
    Targets <- RootsTargets
    Removable = {d1}
    MaxGeneration = 2
    MaxStreams = 2
    MaxMutations = 1
INVARIANTS
    NoFault
    RootsApart
PROPERTIES
    OwnershipSurvives
