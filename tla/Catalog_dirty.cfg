\* One tool with two contracts: changes, configuration, clears and a corrupt file.
SPECIFICATION Spec
CONSTANTS
    s1 = s1
    m1 = m1
    m2 = m2
    a = a
    b = b
    x = x
    y = y
    None = None
    Servers = {s1}
    Members = {m1}
    ServerOf <- OneServer
    Contracts = {a, b}
    Sem <- Meaning
    Guides = {x}
    BatchSize = 1
    MaxGens = 2
    MaxRev = 3
    MaxMarks = 2
    MaxChanges = 2
    MaxFaults = 1
    Faults = {"drop", "config", "clear", "corrupt"}
INVARIANTS
    OneOfEach
    GuidanceFitsSource
    ReadyMatchesSessions
PROPERTIES
    PromotedFresh
CHECK_DEADLOCK FALSE
SYMMETRY Sym
