SPECIFICATION Spec
CONSTANTS
    m1 = m1
    m2 = m2
    None = None
    Managers <- TwoManagers
    Members <- TwoMembers
    Dispatch = TRUE
    MaxTerm = 2
    MaxPending = 1
    MaxFailures = 1
    MaxRestarts = 1
INVARIANTS
    TypeOK
    CandidateHoldsOwnVote
    AnnouncedLeadersBacked
    LogInert
PROPERTIES
    TermNeverDecreases
    LeadsTermOnce
    RevoteNeedsHeartbeat
    SolePublisher
SYMMETRY Symmetry
CONSTRAINT OneFault
