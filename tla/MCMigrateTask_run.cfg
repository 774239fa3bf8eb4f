CONSTANTS
    Tables <- MCTables
    Views <- MCViews
    SchemaOf <- MCSchemaOf
    SystemSchemas <- MCSystem
    Capacity = 1
    Timeout = 3
    ServerErrors = FALSE
SPECIFICATION FairSpec
INVARIANTS TypeOK SuccessMeansComplete NeverStuck
PROPERTIES IsTransfer TaskEnds
