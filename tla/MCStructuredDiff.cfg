SPECIFICATION Spec
CONSTANTS
    Names = {1, 2}
    Files <- MCFiles
    NoFile = NoFile
    MaxLineLength = 3
    MaxScan = 5
INVARIANTS
    NoSpuriousDiff
    LineChangeReported
    CompleteOrFailed
CHECK_DEADLOCK FALSE
