SPECIFICATION Spec
CONSTANTS
    Words <- MCWords
    WordRank <- MCWordRank
    ApiResources <- MCApiResources
    Sources <- MCSources
    Needs <- MCNeeds
    MaxRuns = 2
INVARIANTS
    DeletesAreServed
CHECK_DEADLOCK FALSE
