SPECIFICATION Spec
CONSTANTS
    t1 = t1
    t2 = t2
    t3 = t3
    p1 = p1
    w = w
    Tasks <- MCTasks
    Posters <- MCPosters
    WThread = w
    Stoppers <- MCStoppers
    NoTask = NoTask
    MaxRun = 5
    PostBudget = 4
INVARIANTS NoStrandedTask
PROPERTIES ImplementsFifo LoopGoesOn
