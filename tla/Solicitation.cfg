SPECIFICATION Spec
CONSTANTS
    s1 = s1
    s2 = s2
    s3 = s3
    Stores <- MCStores
    Rosters <- MCRosters
    Endpoint <- MCEndpoint
    MaxWorkers = 2
    Window = 1
INVARIANTS TypeOK SlotsAccounted VerdictsTrue
PROPERTIES HardTimeout CapacityReturns
