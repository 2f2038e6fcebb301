\* Repair at boot, and reads and writes, on a store with one side damaged.
CONSTANTS
    NvSize = 2
    Bytes = {0, 1}
    Requests <- InRange
    FdLimit = 5
    IoFaults = FALSE
    ReadBackFaults = FALSE
    Crashes = FALSE
    InitFs <- BootableStores
    NoFile = NoFile
    Blank = Blank
    MaxModemReqs = 3
    ConfSize = 9
SPECIFICATION Spec
PROPERTY BootRepairsPrimary
INVARIANT ReadYourWrites
PROPERTY EveryRequestConfirmed
CHECK_DEADLOCK FALSE
