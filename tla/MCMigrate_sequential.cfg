CONSTANTS
    r1 = r1
    r2 = r2
    r3 = r3
    Runs <- ThreeRuns
    Cleanup <- TwoRuns
    Orig = Orig
    Foreign = Foreign
    None = None
    Overlap = FALSE
    Faults <- AllFaults
    TakenAnswers <- Rejects
    TokenExpires = FALSE
    MaxAttempts = 3
SPECIFICATION Spec
CHECK_DEADLOCK FALSE
INVARIANTS TypeOK DonorSafe SwapComplete NoWriterBehindDonor SuccessMeansSwapped
PROPERTIES KeepsPromise RenameErrorTruthful
