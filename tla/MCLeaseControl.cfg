CONSTANTS
    d1 = d1
    d2 = d2
    a1 = a1
    a2 = a2
    foreign = foreign
    k = k
    NoKey = NoKey
    r1 = r1
    r2 = r2
    w1 = w1
    Devices = {d1, d2}
    AccessPoints = {a1, a2, foreign}
    Addresses = {1, 2}
    Keys = {k}
    Requests = {r1, r2}
    Sweepers = {w1}
    MaxArrivals = 4
    MaxCrashes = 0
    Capacity <- MCCapacity
    Pool <- MCPool
    TenantPoints <- MCTenantPoints
SPECIFICATION Spec
SYMMETRY MCSymmetry
INVARIANTS
    TypeOK
    AddressesMatchLeases
    LedgerMatchesStatus
    CapacityRespected
    CurrentLeaseIsNewest
    NoLockout
PROPERTIES
    BeatsOnlyCurrent
    ExclusiveGrants
