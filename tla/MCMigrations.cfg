\* The migrations, up and down, with failures; the application waits meanwhile.
SPECIFICATION Spec
CONSTANTS
    None = None
    ReadTools = {}
    RunRows <- MCRunRows
    CallRows <- MCCallRows
    MaxNumber = 2
    Live = FALSE
INVARIANTS
    RefusesWhatDoesNotFit
    NextNumberIsFree
PROPERTIES
    MigrationsForgetNothing
CHECK_DEADLOCK FALSE
