SPECIFICATION FairSpec
CONSTANTS
  MaskLen = 2
  PayloadSize = 2
  BufSize = 2
  SocketSize = 3
  Frames <- MCFrames
  MaxFrames = 2
  MaxBytes = 3
  MaxTraffic = 3
  Requests = {"upgrade", "other"}
INVARIANTS ForwardsInOrder RepliesInOrder FramesWellFormed SleepsWithoutDebts
PROPERTIES PartingNoticed
