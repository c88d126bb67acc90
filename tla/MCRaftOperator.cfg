SPECIFICATION MetricsFairSpec
CONSTANTS
    m1 = m1
    m2 = m2
    m3 = m3
    None = None
    Managers <- OneManager
    Members <- ThreeMembers
    Dispatch = FALSE
    MaxTerm = 2
    MaxPending = 0
    MaxFailures = 1
    MaxRestarts = 1
INVARIANTS
    LeadershipBacked
    MetricsBacked
PROPERTIES
    ImplementsLeaderView
