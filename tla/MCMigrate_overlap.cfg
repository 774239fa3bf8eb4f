CONSTANTS
    r1 = r1
    r2 = r2
    r3 = r3
    Runs <- TwoRuns
    Cleanup <- OneRun
    Orig = Orig
    Foreign = Foreign
    None = None
    Overlap = TRUE
    Faults <- AllFaults
    TakenAnswers <- AnyAnswer
    TokenExpires = FALSE
    MaxAttempts = 2
SPECIFICATION FairSpec
CHECK_DEADLOCK FALSE
INVARIANT DonorSafe
PROPERTY RunsEnd
