SPECIFICATION FairSpec
CONSTANTS
    Bus = 2
    Cylinders = {1}
    Ops = {"status", "read", "write"}
    Disks <- MCWritable
    Refusals = FALSE
    Leftovers = {}
    MaxLate = 1
    MaxChanges = 0
    MaxQueued = 2
    StreamBytes = 1
PROPERTIES Returns
