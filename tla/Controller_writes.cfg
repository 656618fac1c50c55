SPECIFICATION Spec
CONSTANTS
    None = None
    MaxCylinders = 1
    CommandCapacity = 2
    EventCapacity = 1
    CapturesPerTrack = 2
    MaxCachedTracks = 2
    MaxConsecutiveErrors = 2
    MaxTrackBits = 200
    Stalling = FALSE
    ClientOps = {"motor", "read", "write", "poll"}
    ClientTracks <- MCOneTrack
    MotorWishes <- MCMotorOn
    WriteRequests <- MCWholesAndSector
    CaptureLengths = {160}
    Qualities = {"Unverified"}
    ErrorKinds = {"Protocol"}
    LostAcks = FALSE
    Media <- MCTab
    MaxGenerations = 1
    MaxWrites = 2
    MaxMediaChanges = 1
    MaxProgress = 0
INVARIANTS CacheCoherent WriteEventsInOrder
PROPERTIES WritesServed
