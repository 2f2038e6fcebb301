\* Crashes during NV writes on an intact store.
CONSTANTS
    NvSize = 2
    Bytes = {0, 1}
    Requests <- FewRequests
    FdLimit = 3
    IoFaults = FALSE
    ReadBackFaults = FALSE
    Crashes = TRUE
    InitFs <- Consistent
    NoFile = NoFile
    Blank = Blank
    MaxModemReqs = 2
    ConfSize = 9
SPECIFICATION Spec
INVARIANT StateMarkerTruthful
