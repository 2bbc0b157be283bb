CONSTANTS
    Slots = 32
    Options <- MCOptions
    MaxSplits = 2
SPECIFICATION Spec
INVARIANTS DataIsWhole
PROPERTIES TrackEnds
