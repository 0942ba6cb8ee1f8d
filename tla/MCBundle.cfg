SPECIFICATION Spec
CONSTANTS
    Words <- MCWords
    WordRank <- MCWordRank
    ApiResources <- MCApiResources
    Sources <- MCSources
    Needs <- MCNeeds
    MaxRuns = 3
INVARIANTS
    TypeOK
    DiffShowsWhatIsApplied
    NeededFirst
    DeletesReachTheirObject
PROPERTIES
    ClusterFollowsSource
CHECK_DEADLOCK FALSE
