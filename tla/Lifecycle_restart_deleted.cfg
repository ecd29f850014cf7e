\* A restart that waits while its server is deleted.
SPECIFICATION Spec
CONSTANTS
    s1 = s1   s2 = s2
    c1 = c1   c2 = c2
    w1 = w1   w2 = w2
    x1 = x1   x2 = x2
    Servers = {s1}
    Clients = {c1}
    Workers = {w1}
    Sessions = {x1, x2}
    Configs <- DeleteConfigs
    Boot <- BootManaged
    Jobs = {"restart"}
    Faults = {"shutdown"}
INVARIANTS
    ClosedMeansStopped
