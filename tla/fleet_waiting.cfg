\* Three streams of one node, or two and a command, which must not wait for
\* each other for ever.
SPECIFICATION WaitingSpec
CONSTANTS
    n1 = n1  n2 = n2  c1 = c1  c2 = c2
    Node <- OneNode
    CommandId = {c1}
    TargetOf <- FirstTarget
    MaxFleetNodes = 1
    OutboundCap = 1
    Retention = 1
    Ttl = 1
    MaxStreams = 3
    MaxClock = 2
PROPERTIES
    TakeoverEnds
