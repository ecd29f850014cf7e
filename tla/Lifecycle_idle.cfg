\* Idle stop of a Managed server that two callers use.
SPECIFICATION FairSpec
CONSTANTS
    s1 = s1   s2 = s2
    c1 = c1   c2 = c2
    w1 = w1   w2 = w2
    x1 = x1   x2 = x2
    Servers = {s1}
    Clients = {c1, c2}
    Workers = {}
    Sessions = {x1, x2}
    Configs = {}
    Boot <- BootManaged
    Jobs = {"acquire", "task", "stop"}
    Faults = {"connect", "crash"}
PROPERTIES
    ManagedIdleStops
    OperationsReturn
