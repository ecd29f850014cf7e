\* A reconciliation that fails after the configuration was saved.
SPECIFICATION Spec
CONSTANTS
    e1 = e1   e2 = e2   n1 = n1   n2 = n2   r1 = r1   v1 = v1
    o1 = o1   a1 = a1   a2 = a2   p1 = p1
    Embeddings = {e1, e2}
    Entries = {n1}
    SecretRefs = {}
    Values = {v1}
    Observers = {}
    Authors = {}
    Rules = {}
    MaxRevision = 3
    Faults = {"database"}
INVARIANTS
    AdmittedIsCurrent
