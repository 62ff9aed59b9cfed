\* What can stay behind when the port comes to rest.
SPECIFICATION Spec
CONSTANTS
  NumChannels = 2
  Conf <- Mixed
  Room = 3
  FrameLen = 2
  CmdLen = 2
  Modes <- Batched
  TtyCap = 1
  MaxFrames = 3
  MaxOpens = 2
  MaxCloses = 0
INVARIANT NothingStranded
CHECK_DEADLOCK FALSE
