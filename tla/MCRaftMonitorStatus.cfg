SPECIFICATION MonitorSpec
CONSTANTS
    m1 = m1
    m2 = m2
    None = None
    Managers <- OneManager
    Members <- TwoManagers
    Dispatch = FALSE
    MaxTerm = 2
    MaxPending = 0
    MaxFailures = 0
    MaxRestarts = 0
PROPERTIES
    StatusNamesLeader
