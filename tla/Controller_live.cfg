SPECIFICATION ReaderSpec
CONSTANTS
    None = None
    MaxCylinders = 1
    CommandCapacity = 2
    EventCapacity = 2
    CapturesPerTrack = 2
    MaxCachedTracks = 2
    MaxConsecutiveErrors = 2
    MaxTrackBits = 200
    Stalling = TRUE
    ClientOps = {"motor", "seek", "read", "write", "drop"}
    ClientTracks <- MCOneTrack
    MotorWishes <- MCMotorOnOff
    WriteRequests <- MCOneWhole
    CaptureLengths = {160}
    Qualities = {"IndexAligned"}
    ErrorKinds = {}
    LostAcks = FALSE
    Media <- MCTab
    MaxGenerations = 3
    MaxWrites = 2
    MaxMediaChanges = 0
    MaxProgress = 0
INVARIANTS MotorWishHeld AllWritesAnswered
PROPERTIES ReaderServed MotorConverges
