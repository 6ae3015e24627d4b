SPECIFICATION Spec
CONSTANTS
    phone = phone
    router = router
    mp = mp
    mr = mr
    ip1 = ip1
    ip2 = ip2
    Devices <- OneDevice
    MACs <- OneMAC
    IPs <- OneIP
    Records <- OneDeviceRecords
    Faults = {"restarted"}
PROPERTIES
    InfrastructureStaysConnected
