SPECIFICATION Spec
CONSTANTS
  HdrSize = 2
  MaxXfer = 3
  Junk = Junk
  Unset = Unset
  NoHdr = NoHdr
  Zero = Zero
  FmtLens <- FmtSomeLens
  MaxReqs = 1
  ShortWrites = TRUE
  GarbageSizes <- SomeSizes
  MaxMsgs = 2
  MaxFmt = 1
  PayloadLens <- ShortLens
  Packetized = TRUE
  SplitSends = TRUE
  ModemResets = TRUE
INVARIANT TypeOK
INVARIANT NoUninitialisedBytes
