SPECIFICATION Spec
CONSTANTS
  HdrSize = 2
  MaxXfer = 3
  Junk = Junk
  Unset = Unset
  NoHdr = NoHdr
  Zero = Zero
  FmtLens <- FmtSomeLens
  MaxReqs = 2
  ShortWrites = FALSE
  GarbageSizes <- SomeSizes
  MaxMsgs = 3
  MaxFmt = 2
  PayloadLens <- SomeLens
  Packetized = TRUE
  SplitSends = FALSE
  ModemResets = FALSE
INVARIANT NoOverflow
PROPERTY ChanRefined
PROPERTY EveryMessageDelivered
PROPERTY FmtChanRefined
INVARIANT ModemGetsRequests
