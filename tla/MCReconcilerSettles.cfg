SPECIFICATION EventFairSpec
CONSTANTS
    Replicas = 3
    Sizes <- NoEdits
    Budget <- LivenessFaults
PROPERTIES
    Settles
