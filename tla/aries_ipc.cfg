\* aries_modem_bootstrap, then the aries FMT and RFS clients on their phonet
\* sockets: failing calls, serial waits of 0 or 3 ticks, an ACK first or
\* second, mailbox words 1 or 2 ticks apart that may be the wrong ones;
\* header-only and payload datagrams, and requests up to the largest FMT
\* request whose length fits the u16 header field.
CONSTANTS
    IpcHdrSize = 7
    RfsHdrSize = 6
    MaxData = 327680
    Lens = {0, 2}
    ReqLens = {0, 65528}
    MaxMsgs = 2
    MaxReqs = 1
    Faults = TRUE
    PsiLen = 2
    Delays = {0, 3}
    WordDelays = {1, 2}
    AckAts = {0, 1}
SPECIFICATION Spec
PROPERTY RecvRefined 
INVARIANT SendDatagramsIntact
CHECK_DEADLOCK FALSE
