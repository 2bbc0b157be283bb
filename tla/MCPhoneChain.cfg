SPECIFICATION Spec
CONSTANT Options <- MCOptions
INVARIANTS DataIsConserved PoolSuffices FileIsWhole ToldUnlessStopped
PROPERTIES TrackEnds
