CONSTANTS
    A = A
    B = B
    None = None
    Runs <- FourRuns
    Commands <- SetupThenUse
    Paired = FALSE
    Plans <- MCPlans
    PlanAtFirst <- AtFirst
    Offered <- OfferBoth
    Inside <- Exact
    Overlap = FALSE
    MaxFailures = 3
SPECIFICATION FairSpec
CHECK_DEADLOCK FALSE
PROPERTIES SwitchedOver SetUp HandsOver RetryCompletes
