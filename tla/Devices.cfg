SPECIFICATION DiscoverySpec
CONSTANTS
    m1 = m1
    m2 = m2
    i1 = i1
    i2 = i2
    u1 = u1
    r1 = r1
    r2 = r2
    MACs = {m1, m2}
    IPs = {i1, i2}
    Users = {u1}
    ZeroMAC = zero
    Asked = {i2}
    NewId = d1
    NewRule = r3
    Boot <- MCBoot
    Nets <- MCNets
    StaticLists <- MCStatic
    MaxEvents = 2
    MaxHups = 1
INVARIANTS
    DanglingOnlyIfGiven
    ListIsTheAssignment
PROPERTIES
    PairsWereReported
    DiscoveryKeepsOwners
    Converges
CHECK_DEADLOCK FALSE
