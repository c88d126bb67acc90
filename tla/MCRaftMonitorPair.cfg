SPECIFICATION MonitorSpec
CONSTANTS
    m1 = m1
    m2 = m2
    None = None
    Managers <- TwoManagers
    Members <- TwoManagers
    Dispatch = FALSE
    MaxTerm = 1
    MaxPending = 0
    MaxFailures = 1
    MaxRestarts = 1
SYMMETRY Symmetry
INVARIANTS
    MonitorTypeOK
    
PROPERTIES
    StoredTermMonotone
