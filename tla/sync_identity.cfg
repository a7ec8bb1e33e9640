\* A link that is broken, found invalid, and moved.
SPECIFICATION FairSpec
CONSTANTS
    p1 = p1  p2 = p2  link = link
    d1 = d1  d2 = d2  r1 = r1  r2 = r2
    None = None
    Default = Default
    Project = {p1}
    Path = {link}
    Dir = {d1, d2}
    Root = {r1, r2}
    DefaultRoot <- Roots
    Config <- LinkConfig
    Legacy <- LinkLegacy
    Order <- LinkOrder
    Targets <- LinkTargets
    Removable = {d1}
    MaxGeneration = 1
    MaxStreams = 3
    MaxMutations = 0
PROPERTIES
    IdentityStands
