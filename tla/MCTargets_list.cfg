CONSTANTS
    Runs <- TwoRuns
    Names <- MCNames
    Plain <- MCPlain
    Under <- MCUnder
    Configs <- MCConfigs
    Size <- MCSize
    Bad = Bad
    None = None
    IOFaults = FALSE
SPECIFICATION Spec
CHECK_DEADLOCK FALSE
INVARIANT NoneMeansNone
