\* A crash in the middle of populating a generation.
SPECIFICATION Spec
CONSTANTS
    s1 = s1
    m1 = m1
    m2 = m2
    a = a
    b = b
    x = x
    y = y
    None = None
    Servers = {s1}
    Members = {m1, m2}
    ServerOf <- OneServer
    Contracts = {a}
    Sem <- Meaning
    Guides = {x}
    BatchSize = 2
    MaxGens = 2
    MaxRev = 1
    MaxMarks = 1
    MaxChanges = 0
    MaxFaults = 1
    Faults = {"crash"}
INVARIANT
    ActiveCoherent
CHECK_DEADLOCK FALSE
