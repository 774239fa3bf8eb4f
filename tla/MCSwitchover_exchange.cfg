CONSTANTS
    A = A
    B = B
    None = None
    Runs <- OneRun
    Commands <- SwitchOnly
    Paired = TRUE
    Plans <- MCPlans
    PlanAtFirst <- AtFirst
    Offered <- OfferBoth
    Inside <- Exact
    Overlap = FALSE
    MaxFailures = 2
SPECIFICATION Spec
CHECK_DEADLOCK FALSE
PROPERTY PlansExchanged
