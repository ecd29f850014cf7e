\* An Always On server that is added, edited, and crashes.
SPECIFICATION FairSpec
CONSTANTS
    s1 = s1   s2 = s2
    c1 = c1   c2 = c2
    w1 = w1   w2 = w2
    x1 = x1   x2 = x2
    Servers = {s1}
    Clients = {}
    Workers = {w1}
    Sessions = {x1, x2}
    Configs <- AlwaysConfigs
    Boot <- BootNone
    Jobs = {}
    Faults = {"crash", "connect", "shutdown"}
PROPERTIES
    AlwaysOnMaintained
    SaveReturns
    CloseReturns
