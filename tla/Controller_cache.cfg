SPECIFICATION Spec
CONSTANTS
    None = None
    MaxCylinders = 2
    CommandCapacity = 1
    EventCapacity = 1
    CapturesPerTrack = 2
    MaxCachedTracks = 1
    MaxConsecutiveErrors = 2
    MaxTrackBits = 200
    Stalling = FALSE
    ClientOps = {"motor", "read", "advance"}
    ClientTracks <- MCBeyondLast
    MotorWishes <- MCMotorOn
    WriteRequests <- MCWholeTracks
    CaptureLengths = {32, 160}
    Qualities = {"IndexAligned", "Unverified"}
    ErrorKinds = {}
    LostAcks = FALSE
    Media <- MCFixedDisk
    MaxGenerations = 3
    MaxWrites = 1
    MaxMediaChanges = 0
    MaxProgress = 0
INVARIANTS TypeOK CacheBounded DepthOnDemand FreshFlux
PROPERTIES NoDisplacement
