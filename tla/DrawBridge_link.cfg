SPECIFICATION FairSpec
CONSTANTS
    Cylinders = {1, 84}
    Ops = {"status", "on", "off", "seek", "side", "noclick", "read", "write"}
    Configs <- MCConfigs
    Boards <- MCBoards
    Disks <- MCDisks
    LeftModes = {"idle", "stream", "permitted", "data"}
    Refusals = TRUE
    MaxLate = 0
    MaxChanges = 1
    MaxQueued = 1
    MaxStream = 3
    TargetBytes = 2
    MaxErrors = 2
INVARIANTS InStep RecordsTrue OpenRecovers LeftQuiet
PROPERTIES Returns
