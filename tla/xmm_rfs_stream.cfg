SPECIFICATION Spec
CONSTANTS
  HdrSize = 2
  MaxXfer = 3
  Junk = Junk
  Unset = Unset
  NoHdr = NoHdr
  Zero = Zero
  FmtLens <- FmtSomeLens
  MaxReqs = 0
  ShortWrites = FALSE
  GarbageSizes <- SomeSizes
  MaxMsgs = 2
  MaxFmt = 0
  PayloadLens <- ShortLens
  Packetized = FALSE
  SplitSends = FALSE
  ModemResets = FALSE
INVARIANT NoOverflow
