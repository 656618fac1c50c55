SPECIFICATION FairSpec
CONSTANTS
    Drive = "B"
    Cylinders = {0, 1, 84}
    Ops = {"status", "on", "off", "seek", "side", "noclick", "read", "write"}
    Modes = {"Normal", "Compatible"}
    Disks <- MCDisks
    Refusals = TRUE
    Leftovers <- MCLeftovers
    Heads <- MCHeads
    MaxLate = 0
    MaxChanges = 1
    MaxQueued = 1
    MaxStream = 3
    TargetBytes = 2
INVARIANTS InStep RecordsTrue Addressed LeftQuiet
PROPERTIES Returns
