SPECIFICATION Spec
CONSTANTS
    Units = 2
    Bodies <- MCBodies
    Addrs = 2
    HdrBuf = 2
    MaxReconnect = 1
    MaxRedirect = 1
    TitleAfter <- MCTitleAfter
    MaxCopies = 2
INVARIANTS StreamIsWhole TimerGuardsWait CopyIsWhole
PROPERTIES RequestEnds
CHECK_DEADLOCK FALSE
