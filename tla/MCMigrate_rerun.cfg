CONSTANTS
    r1 = r1
    r2 = r2
    r3 = r3
    Runs <- TwoRuns
    Cleanup <- TwoRuns
    Orig = Orig
    Foreign = Foreign
    None = None
    Overlap = FALSE
    Faults <- FailOnly
    TakenAnswers <- Rejects
    TokenExpires = TRUE
    MaxAttempts = 3
SPECIFICATION Spec
CHECK_DEADLOCK FALSE
PROPERTIES CompletedCopyKept
