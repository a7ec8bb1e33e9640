\* A takeover that was stamped before the command it loses.
SPECIFICATION Spec
CONSTANTS
    n1 = n1  n2 = n2  c1 = c1  c2 = c2
    Node <- OneNode
    CommandId = {c1}
    TargetOf <- FirstTarget
    MaxFleetNodes = 1
    OutboundCap = 1
    Retention = 1
    Ttl = 1
    MaxStreams = 2
    MaxClock = 2
INVARIANTS
    OnlyStorageStops
