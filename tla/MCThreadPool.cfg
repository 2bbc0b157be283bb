SPECIFICATION Spec
CONSTANTS
    w1 = w1
    w2 = w2
    Cap = 4
    Start = 3
    Writers <- MCWriters
    Readers <- MCReaders
    Items <- MCItems
    NoItem = NoItem
    MayLap = FALSE
    MaxThreads = 2
    Budget = 2
    CreateFails = TRUE
INVARIANTS TaskRefs
PROPERTIES ImplementsFifo EveryTaskRuns
