SPECIFICATION Spec
CONSTANTS
    NBufs = 2
    BufSize = 4
    Align = 2
    Size = 9
    Seeks <- MCSeeks
    MaxSeeks = 3
    MaxPauses = 2
    PauseAnywhere = FALSE
    Fails = TRUE
INVARIANTS DataIsRight NothingUsesFreed
PROPERTIES ReaderGoesOn
