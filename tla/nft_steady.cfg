SPECIFICATION Spec
CONSTANTS
    phone = phone
    router = router
    mp = mp
    mr = mr
    ip1 = ip1
    ip2 = ip2
    Devices <- MCDevices
    MACs <- MCMACs
    IPs <- MCIPs
    Records <- MCRecords
    Faults = {}
INVARIANTS
    TypeOK
    MirrorsKernel
PROPERTIES
    Converges
