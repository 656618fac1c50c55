SPECIFICATION FairSpec
CONSTANTS
    None = None
    MaxCylinders = 1
    CommandCapacity = 1
    EventCapacity = 2
    CapturesPerTrack = 2
    MaxCachedTracks = 2
    MaxConsecutiveErrors = 2
    MaxTrackBits = 200
    Stalling = FALSE
    ClientOps = {"motor", "read", "noclick", "poll", "drop"}
    ClientTracks <- MCOneTrack
    MotorWishes <- MCMotorOn
    WriteRequests <- MCWholeTracks
    CaptureLengths = {160}
    Qualities = {"Unverified"}
    ErrorKinds = {"Protocol", "Disconnected"}
    LostAcks = TRUE
    Media <- MCSwaps
    MaxGenerations = 2
    MaxWrites = 1
    MaxMediaChanges = 1
    MaxProgress = 0
INVARIANTS NoReadingWithoutDisk DisconnectIsLast NoLostWakeup
PROPERTIES WorkingNeverReturns DropTerminates
