\* Two requests on one task, with crashes and failures.
SPECIFICATION Spec
CONSTANTS
    p1 = p1   p2 = p2
    t1 = t1   t2 = t2
    NoTask = NoTask
    Procs = {p1, p2}
    Tasks = {t1}
    Aware = {TRUE, FALSE}
    MaxFaults = 2
    Faults = {"crash", "exit", "connect", "store", "cancel"}
INVARIANTS
    TaskPinned
    TaskReachable
PROPERTY
    TaskLeaseEnds
