CONSTANTS
    Slots = 32
    Options <- OggParts
    MaxSplits = 6
SPECIFICATION Spec
INVARIANT PartsFindRoom
