\* A stored key that is taken for missing, with one event.
SPECIFICATION MCSpec
CONSTANTS
    Settings <- MCSettings
    Savers = {s1}
    Versions = {1}
    MaxGen = 2
    MaxEvents = 1
    Ids = {i1}
    Values = {x}
    Absent = Absent
    Editors = {e1}
    MaxEdits = 0
    MaxFaults = 0
PROPERTY StoredKeyIsUsed
CHECK_DEADLOCK FALSE
