CONSTANTS
    A = A
    B = B
    None = None
    Runs <- TwoRuns
    Commands <- Any
    Paired = TRUE
    Plans <- MCPlans
    PlanAtFirst <- AtFirst
    Offered <- OfferUneven
    Inside <- SmallInHA
    Overlap = TRUE
    MaxFailures = 2
SPECIFICATION Spec
CHECK_DEADLOCK FALSE
INVARIANTS TypeOK OneWriter
