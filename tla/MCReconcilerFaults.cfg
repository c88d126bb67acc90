SPECIFICATION Spec
CONSTANTS
    Replicas = 2
    Sizes <- OneToThree
    Budget <- SafetyFaults
INVARIANTS
    TypeOK
    PodHasStorage
    AtMostOneMaster
    MasterKept
PROPERTIES
    InitializedMeansConfigured
