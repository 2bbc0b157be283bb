SPECIFICATION Spec
CONSTANTS
    a = a
    b = b
    Tracks <- Both
    Parallel <- None
    Playbacks <- One
    MaxPauses = 1
INVARIANTS NothingLeftOfFreed WakeIsNotLost
PROPERTIES StopsComeThrough
