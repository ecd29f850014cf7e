\* Two calls, a tool list that changes, one fault of each kind at most.
SPECIFICATION Spec
CONSTANTS
    c1 = c1   c2 = c2
    a = a     b = b
    None = None
    Calls = {c1, c2}
    Contracts = {a, b}
    Class <- ClassOf
    First = a
    Dynamic = {TRUE, FALSE}
    MaxChanges = 1
    MaxGens = 2
    MaxSessions = 2
    MaxFaults = 1
    Faults = {"exit", "connect", "restart", "cancel", "store"}
INVARIANTS
    RunsCheckedContract
    CallbacksStayHome
    NotStartedIsTrue
PROPERTY
    AnsweredOnce
    ClosingDrains
CHECK_DEADLOCK FALSE
