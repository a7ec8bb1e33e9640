SPECIFICATION MCSpec
CONSTANTS
    s1 = s1
    s2 = s2
    k1 = k1
    k2 = k2
    k3 = k3
    p1 = p1
    t0 = t0
    w1 = w1
    o1 = o1
    o2 = o2
    here = here
    there = there
    NoReceipt = NoReceipt
    NoTerminal = NoTerminal
    Command <- MCCommand
    KindOf <- MCKindOf
    WorkspaceOf <- MCWorkspaceOf
    TerminalOf <- MCTerminalOf
    Prompted = {s1}
    Unpinned = {s2}
    Native = {t0}
    MaxCommands = 2
    MaxProgress = 2
    MaxIncarnation = 2
    MaxStreams = 1
    Operator = {o1, o2}
    Computer = {here, there}
    Wish = {1, 2}
    MaxGiven = 3
    MaxSessions = 2
    MaxGeneration = 2
    Torn = Torn
    Nothing = Nothing
INVARIANTS EffectsRemembered HonestLifecycle Apart Reconcilable StartedOnce
CONSTRAINT Related
CHECK_DEADLOCK FALSE
