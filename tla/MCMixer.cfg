SPECIFICATION Spec
CONSTANTS
    Items <- Two
    Out = "out"
    Size = 2
    MaxLength = 5
    EarlyErrors = FALSE
INVARIANTS MixedInStep
PROPERTY MixEnds
