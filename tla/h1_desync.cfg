\* The h1 codec on the raw DPRAM tty: one read returns short, and the modem's
\* frames are 12 and 16 bytes long.
CONSTANTS
    HdlcHdrSize = 10
    IpcHdrSize = 7
    Lens = {0, 4}
    ReqLens = {0}
    MaxMsgs = 3
    MaxReqs = 1
    MaxShortReads = 1
SPECIFICATION Spec
PROPERTY UncutFramesDelivered
CHECK_DEADLOCK FALSE
