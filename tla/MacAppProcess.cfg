\* A grace of four polls, signals that take up to three; the launcher's other
\* files are any of 3 to 6, and descriptors end where the last copy may not fit.
SPECIFICATION Spec
CONSTANTS
    Grace = 4
    KillDelay = 3
    LastNumber = 15
    LastTaken = 6
INVARIANTS
    SignalsReachOnlyTheApp
    AbortEndsApp
    PipesAreHandedOver
