\* A short NV write on a store whose backup MD5 file is torn, then a read.
CONSTANTS
    NvSize = 2
    Bytes = {0, 1}
    Requests <- WholeBlob
    FdLimit = 3
    IoFaults = TRUE
    ReadBackFaults = FALSE
    Crashes = FALSE
    InitFs <- TornBackupMd5
    NoFile = NoFile
    Blank = Blank
    MaxModemReqs = 2
    ConfSize = 9
SPECIFICATION Spec
INVARIANT ServedNotTorn
CHECK_DEADLOCK FALSE
