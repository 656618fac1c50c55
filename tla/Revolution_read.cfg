SPECIFICATION Spec
CONSTANTS
    IndexTracks <- MCIndexTracks
    ImmediateTracks <- MCImmediateTracks
    CellTimes = {1940, 2060}
    Starts <- MCStarts
    MinBits = 8
    MaxBits = 500
    Window = 790000
    MaxShifts <- MCMaxShifts
    Patches <- MCPatches
    Nominal = 216
    Warmup = 24
    Sample = 32
    Anchors <- MCAnchors
    SyncWord <- MCSyncWord
    LongCells = 8
    LabelLongs = 1
    DataLongs = 2
    DdSectors = 2
    HdSectors = 3
    HdThreshold = 400
    MinRing = 64
INVARIANTS RevolutionTrue RingReturned JoinHeld VerdictTrue
PROPERTIES StaysLocked
