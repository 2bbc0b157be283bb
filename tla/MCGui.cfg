SPECIFICATION Spec
CONSTANTS
    Scenes <- MCScenes
    Contents <- MCContents
    MaxEntries = 30
    MaxTracks = 3
    MaxTabs = 4

INVARIANTS ViewIsTrue TabsAgree SavedIsWhole
PROPERTIES ExitCompletes
CHECK_DEADLOCK FALSE
