SPECIFICATION IntegrationFairSpec
CONSTANTS
    m1 = m1
    m2 = m2
    m3 = m3
    Managers <- OneManager
    Members <- ThreeMembers
    Node = m1
    MaxErrors = 2
    MaxChanges = 3
    MaxRestarts = 2
INVARIANTS
    IntegrationTypeOK
    SuccessLeavesOneMaster
PROPERTIES
    MasterLabelMeansLeader
    FailoverEnds
