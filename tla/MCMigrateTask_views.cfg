CONSTANTS
    Tables <- MCTables
    Views <- MCViews
    SchemaOf <- MCSchemaOf
    SystemSchemas <- MCSystem
    Capacity = 1
    Timeout = 3
    ServerErrors = TRUE
SPECIFICATION Spec
INVARIANT SkippedAreInvalid
