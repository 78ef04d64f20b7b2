SPECIFICATION Spec
CONSTANTS
    AddrBits = 3
    ByteSize = 2
    Hash <- MCHash
    LocalNode = "n1"
    NodeIds = {"n2"}
    IdentityIds = {1}
    PolicyIds = {1}
    Interfaces <- MCInterfaces
    Endpoints <- MCEndpoints
    Routes <- MCRoutes
    Tunnels <- MCTunnels
    Services <- MCServices
    Frames <- MCFrames
    Tasks = {t1}
    MaxCalls = 5
    MaxFrames = 3
INVARIANTS
    AnswersAreFound
    RoutesAreKeyed
CHECK_DEADLOCK FALSE
