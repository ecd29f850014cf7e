\* Two callers, edits of the mode, and failures of the one server.
SPECIFICATION Spec
CONSTANTS
    s1 = s1   s2 = s2
    c1 = c1   c2 = c2
    w1 = w1   w2 = w2
    x1 = x1   x2 = x2
    Servers = {s1}
    Clients = {c1, c2}
    Workers = {w1}
    Sessions = {x1, x2}
    Configs <- ModeConfigs
    Boot <- BootManaged
    Jobs = {"acquire", "task", "stop", "restart"}
    Faults = {"connect", "crash", "close", "contract", "persist"}
SYMMETRY SymCX
INVARIANTS
    TypeOK
    LeaseAccounting
    OneRuntime
    NoOrphanRuntime
    MutationExcludesUse
    SessionMatchesEntry
PROPERTIES
    LeaseProtectsRuntime
    EditExcludesUse
