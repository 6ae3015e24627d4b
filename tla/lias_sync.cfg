SPECIFICATION Spec
CONSTANTS
    p = p
    q = q
    r = r
    m1 = m1
    m2 = m2
    t = t
    u = u
    Generic = Generic
    None = None
    PDIDs = {p, q, r}
    MACs = {m1, m2}
    TagIDs = {t, Generic}
    Users = {u}
    Names = {"pause"}
    Priorities = {1, 2}
    PausePriority = 2
    Fetchers = {1, 2}
    Capacity = 1
    MaxChanges = 2
    MaxRequests = 1
    MaxFaults = 2
    Kept <- MCKept
    Listed <- MCListed
CHECK_DEADLOCK FALSE
INVARIANTS
    
    RedirectsLand
PROPERTIES
    SettingsMoveWhole
    Converges
    MergesAreFollowed
