SPECIFICATION Spec
CONSTANTS
    m1 = m1
    m2 = m2
    None = None
    Managers <- TwoManagers
    Members <- TwoMembers
    Dispatch = TRUE
    MaxTerm = 1
    MaxPending = 0
    MaxFailures = 0
    MaxRestarts = 0
INVARIANTS
    OneLeaderPerTerm
