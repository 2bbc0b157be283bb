SPECIFICATION Spec
CONSTANTS
    Systems = {"pulse", "alsa", "oss", "wasapi", "dsound", "coreaudio"}
    t1 = t1
    t2 = t2
    pcm16 = pcm16
    pcm24 = pcm24
    Tracks <- MCTracks
    NoTrack = NoTrack
    Fmt <- MCFmt
    Native = pcm16
    Blocks = 2
    Cap = 1
    MaxSeeks <- MCSeeks
    MaxPauses <- MCPauses
    SeekAnyTime = FALSE
    DeviceFails = TRUE
INVARIANTS OwnerHoldsDevice
PROPERTIES EveryTrackEnds
CHECK_DEADLOCK FALSE
