\* Two tools in two batches with two answers: crashes and errors.
SPECIFICATION Spec
CONSTANTS
    s1 = s1
    m1 = m1
    m2 = m2
    a = a
    b = b
    x = x
    y = y
    None = None
    Servers = {s1}
    Members = {m1, m2}
    ServerOf <- OneServer
    Contracts = {a}
    Sem <- Meaning
    Guides = {x, y}
    BatchSize = 1
    MaxGens = 2
    MaxRev = 2
    MaxMarks = 1
    MaxChanges = 0
    MaxFaults = 2
    Faults = {"crash", "error"}
INVARIANTS
    AttachedIsAnswered
PROPERTIES
    PublishesWhole
CHECK_DEADLOCK FALSE
SYMMETRY SymGuides
