SPECIFICATION Spec
CONSTANTS
    Bus = 1
    Cylinders = {1, 82}
    Ops = {"status", "on", "off", "seek", "side", "noclick", "read", "write"}
    Disks <- MCDisks
    Refusals = TRUE
    Leftovers <- MCLeftovers
    MaxLate = 0
    MaxChanges = 1
    MaxQueued = 3
    StreamBytes = 1
INVARIANTS InStep RecordsTrue PinsFresh LeftQuiet
