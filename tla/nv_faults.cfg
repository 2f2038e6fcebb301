\* I/O faults and crashes: types, verified copies, and termination of requests.
CONSTANTS
    NvSize = 2
    Bytes = {0, 1}
    Requests <- FewRequests
    FdLimit = 2
    IoFaults = TRUE
    ReadBackFaults = FALSE
    Crashes = TRUE
    InitFs <- FaultStores
    NoFile = NoFile
    Blank = Blank
    MaxModemReqs = 1
    ConfSize = 9
SPECIFICATION Spec
INVARIANT TypeOK
PROPERTY CopyFromVerifiedSource
PROPERTY RequestsFinish
