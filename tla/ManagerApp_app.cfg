\* One saver of manager settings with two events besides; three edits of two
\* servers by two editors with two failures.
SPECIFICATION MCSpec
CONSTANTS
    Settings <- MCSettings
    Savers = {s1}
    Versions = {1, 2}
    MaxGen = 2
    MaxEvents = 2
    Ids = {i1, i2}
    Values = {x, y}
    Absent = Absent
    Editors = {e1, e2}
    MaxEdits = 3
    MaxFaults = 2
INVARIANTS
    StatusTruthful
    TunnelOwned
    EditSurvives
PROPERTIES
    TunnelSettles
CHECK_DEADLOCK FALSE
