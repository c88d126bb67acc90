SPECIFICATION FairSpec
CONSTANTS
    Replicas = 2
    Sizes <- NoEdits
    Budget <- MasterDeleted
PROPERTIES
    MasterReplaced
