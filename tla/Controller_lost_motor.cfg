SPECIFICATION Spec
CONSTANTS
    None = None
    MaxCylinders = 1
    CommandCapacity = 1
    EventCapacity = 1
    CapturesPerTrack = 2
    MaxCachedTracks = 2
    MaxConsecutiveErrors = 2
    MaxTrackBits = 200
    Stalling = FALSE
    ClientOps = {"motor", "seek"}
    ClientTracks <- MCTwoSides
    MotorWishes <- MCMotorOn
    WriteRequests <- MCWholeTracks
    CaptureLengths = {160}
    Qualities = {"Unverified"}
    ErrorKinds = {"Protocol"}
    LostAcks = FALSE
    Media <- MCFixedDisk
    MaxGenerations = 0
    MaxWrites = 1
    MaxMediaChanges = 0
    MaxProgress = 0
INVARIANTS MotorWishHeld
