CONSTANTS
    Runs <- TwoRuns
    Names <- MCNames
    Plain <- MCPlain
    Under <- MCUnder
    Configs <- MCConfigs
    Size <- MCSize
    Bad = Bad
    None = None
    IOFaults = TRUE
SPECIFICATION Spec
CHECK_DEADLOCK FALSE
INVARIANTS TypeOK SaveKept DamageExplained RemovedMeansGone ListExact
PROPERTY RemovalConfined
