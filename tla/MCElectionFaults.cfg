SPECIFICATION ElectionFairSpec
CONSTANTS
    Replicas = 2
    Sizes <- NoEdits
    Budget <- AnyFault
    DataSizes <- OneToThree
    MaxWrites = 1
    MaxFaults = 1
INVARIANTS
    ElectionTypeOK
    SizeDecides
PROPERTIES
    MasterReelected
    TwoMastersEnd
