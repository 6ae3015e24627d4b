SPECIFICATION Spec
CONSTANTS
    PDIDs = {p1, p2}
    MACs = {m1, m2}
    Private = {m1}
    IPs = {i1}
    Hosts = {h1}
    None = None
    Sources = {"netlink", "pihole"}
    Gateways = {i1}
    Bindable = {m1}
    MaxObservations = 3
    MaxBindings = 1
    MaxRestarts = 1
    p1 = p1
    p2 = p2
    m1 = m1
    m2 = m2
    i1 = i1
    i2 = i2
    h1 = h1
INVARIANTS TypeOK IndexNamesHolder  OnlineNeedsEvidence
SYMMETRY Symmetry
