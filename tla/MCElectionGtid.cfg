SPECIFICATION ElectionSpec
CONSTANTS
    Replicas = 3
    Sizes <- NoEdits
    Budget <- MasterCrash
    DataSizes <- OneToThree
    MaxWrites = 1
    MaxFaults = 1
INVARIANTS
    BestGtidElected
