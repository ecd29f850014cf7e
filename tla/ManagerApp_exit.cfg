\* The program ends while an attempt to start the tunnel is under way.
SPECIFICATION MCSpec
CONSTANTS
    Settings <- MCSettings
    Savers = {s1}
    Versions = {1}
    MaxGen = 2
    MaxEvents = 0
    Ids = {i1}
    Values = {x}
    Absent = Absent
    Editors = {e1}
    MaxEdits = 0
    MaxFaults = 0
INVARIANT NoTunnelOutlivesExit
CHECK_DEADLOCK FALSE
