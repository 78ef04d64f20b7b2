SPECIFICATION Spec
CONSTANTS
    c1 = c1
    c2 = c2
    Clients <- MCClients
    Families <- MCFamilies
    Configured <- MCFamilies
    Capacity <- MCCapacity
    Pools <- MCPools
    PoolDefault = "default"
    Excludable <- MCExcludable
SYMMETRY ClientSymmetry
INVARIANTS
    TypeOK
    CountIsExact
    NoDoubleAllocation
    NoLeak
    OwnersAreTrue
PROPERTIES
    ExcludedIsNotHandedOut
    ImplementsAddressPool
