SPECIFICATION DocumentsSpec
CONSTANTS
    Files <- EmptyTargets
    Texts <- Typed
    Rules <- BreakRules
    MaxEdits = 2
    MaxExports = 2
CHECK_DEADLOCK FALSE
INVARIANT OnlyTargetsChange
