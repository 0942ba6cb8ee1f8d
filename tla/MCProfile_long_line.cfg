SPECIFICATION Spec
CONSTANTS
    a = a
    b = b
    oa = oa
    ob = ob
    ns = ns
    h1 = h1
    h2 = h2
    h3 = h3
    bare = bare
    absent = absent
    none = none
    lines = lines
    Ids <- MCIds
    Objects <- MCObjects
    ObjectOf <- MCObjectOf
    NamespaceOf <- MCNamespaceOf
    NoNamespace = none
    Hashes <- MCHashes
    Bare = bare
    Absent = absent
    MaxDrifts = 0
    Texts <- MCTexts
    NoText = NoText
    TextOf <- MCTextOf
    Rank <- MCRank
    Discovered <- MCIds
    MaxFaults = 1
    ForceDiffs = TRUE
    AllowDeletes = TRUE
    AutoCreateNamespaces = TRUE
    VerboseDiffs = TRUE
    NoDiff = FALSE
    CanRuns = {TRUE}
    Unknowns = {"nothing"}
    Versions = {"v1"}
    Inputs <- MCInputs
    Placeholders <- MCPlaceholders
    Render <- MCRender
    Unknown = Unknown
    LinesIn <- MCLinesIn
    NoState = NoState
    NoPlan = NoPlan
    NoId = NoId
    MaxEdits = 1
INVARIANTS
    LeavesNothingStale
