SPECIFICATION Spec
CONSTANTS
    e1 = e1
    e2 = e2
    e3 = e3
    l1 = l1
    l2 = l2
    Null = Null
    Entries <- MCEntries
    Lists <- MCLists
    InitLists <- MCInitLists
    PlaylistFiles <- MCPlaylistFiles
    Opening <- MCOpening
    RepeatModes = {"none", "all", "track"}
    MaxErrors = 2
    Dangers = {}
    MaxTracks = 2
    Budget = 2
CHECK_DEADLOCK FALSE
INVARIANTS ListsAgree RefsCounted NothingDangles PlaybackGoesOn AllConverted
PROPERTIES ErrorsEnd
