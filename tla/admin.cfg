SPECIFICATION Spec
CONSTANTS
    h1 = h1
    h2 = h2
    Handlers = {h1, h2}
    Users = {u}
    Tags = {t}
    Global = g
    Policies = {g, p}
    Schedules = {s}
    Devices = {d}
    None = None
    Preset = Preset
    Kept <- MCKept
    MaxRequests = 2
    MaxFaults = 2
INVARIANTS
    
    AssignedUsersExist
    ServedUsersExist
    ServedIsStored
SYMMETRY Symmetry
CHECK_DEADLOCK FALSE
