\* The crespo FMT client with failing ioctls, frames with and without a
\* payload, and requests up to the largest one whose length fits a u16.
CONSTANTS
    HdrSize = 7
    Lens = {0, 2}
    ReqLens = {0, 65528}
    MaxMsgs = 3
    MaxReqs = 2
    IoFaults = TRUE
SPECIFICATION Spec
INVARIANT SendFramesIntact
PROPERTY FmtChanRefined
CHECK_DEADLOCK FALSE
