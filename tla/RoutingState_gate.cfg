\* Mutations of everything routing depends on, with failures and crashes between the steps.
SPECIFICATION Spec
CONSTANTS
    e1 = e1   e2 = e2   n1 = n1   n2 = n2   r1 = r1   v1 = v1
    o1 = o1   a1 = a1   a2 = a2   p1 = p1
    Embeddings = {e1}
    Entries = {n1}
    SecretRefs = {r1}
    Values = {v1}
    Observers = {o1}
    Authors = {a1}
    Rules = {p1}
    MaxRevision = 2
    Faults = {"crash", "disk", "secrets", "database"}
INVARIANTS
    GateFailClosed
    GateOpenIsDurable
PROPERTIES
    RevisionOrdersHashes
