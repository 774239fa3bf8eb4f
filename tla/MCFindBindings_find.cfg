CONSTANTS
    Plans <- MCPlans
    Instances <- MCInstances
    Apps <- MCApps
    Keys <- MCKeys
    Of <- MCOf
    Services <- MCServices
    MaxChanges = 2
    None = None
SPECIFICATION Spec
CHECK_DEADLOCK FALSE
INVARIANTS TypeOK ReportExact OthersSurvive
PROPERTY Ends
