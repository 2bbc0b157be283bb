SPECIFICATION SafeSpec
CONSTANTS
    w1 = w1
    w2 = w2
    Cap = 2
    Start = 1
    Writers <- MCWriters
    Readers <- MCReaders
    Items <- MCItems
    NoItem = NoItem
    MayLap = TRUE
    MaxThreads = 2
    Budget = 3
    CreateFails = FALSE
PROPERTIES ImplementsFifo
