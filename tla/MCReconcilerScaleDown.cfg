SPECIFICATION FairSpec
CONSTANTS
    Replicas = 3
    Sizes <- ZeroToTwo
    Budget <- ScaledDown
PROPERTIES
    MissingPodsCreated
