CONSTANTS
    d1 = d1
    d2 = d2
    a1 = a1
    a2 = a2
    foreign = foreign
    k = k
    NoKey = NoKey
    r1 = r1
    r2 = r2
    w1 = w1
    Devices = {d1, d2}
    AccessPoints = {a1, foreign}
    Addresses = {1, 2}
    Keys = {}
    Requests = {r1, r2}
    Sweepers = {w1}
    MaxArrivals = 3
    MaxCrashes = 1
    Capacity <- MCCapacity
    Pool <- MCPool
    TenantPoints <- MCTenantPoints
SPECIFICATION FairSpec
PROPERTIES
    SilentLeaseReleased
    RequestsEnd
