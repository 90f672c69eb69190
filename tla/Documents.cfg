SPECIFICATION DocumentsSpec
CONSTANTS
    Files <- GoodFiles
    Texts <- Typed
    Rules <- BreakRules
    MaxEdits = 2
    MaxExports = 2
INVARIANTS
    TranslationsLand
    NothingElseChanges
    RowsCoverUnits
PROPERTY
    OutputOnlyOnSuccess
CHECK_DEADLOCK FALSE
