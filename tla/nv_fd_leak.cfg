\* NV requests on an intact store, with a small descriptor limit.
CONSTANTS
    NvSize = 2
    Bytes = {0, 1}
    Requests <- FewRequests
    FdLimit = 3
    IoFaults = FALSE
    ReadBackFaults = FALSE
    Crashes = FALSE
    InitFs <- Consistent
    NoFile = NoFile
    Blank = Blank
    MaxModemReqs = 4
    ConfSize = 9
SPECIFICATION Spec
PROPERTY RequestNeverAborted
CHECK_DEADLOCK FALSE
