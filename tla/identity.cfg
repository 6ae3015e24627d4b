SPECIFICATION Spec
CONSTANTS
    p1 = p1
    p2 = p2
    p3 = p3
    p4 = p4
    key = key
    m1 = m1
    m2 = m2
    provider = provider
    admin1 = admin1
    admin2 = admin2
    None = None
    PDIDs = {p1, p2, p3, p4}
    MACs = {m1, m2}
    Private = {}
    IPs = {}
    Hosts = {}
    Credentials = {key}
    Observers = {provider}
    Admins = {admin1, admin2}
    Known <- MCKnown
    Proposed <- MCProposed
    MergedBefore <- MCMergedBefore
    MaxDepth = 3
    MaxObservations = 1
    MaxRequests = 2
    MaxRestarts = 1
INVARIANTS
    DecisionIsMerge
    MergedIsGone
    RedirectsLead
    MACsAreStored
    RevokedStaysRevoked
    OneVerifiedOwner
