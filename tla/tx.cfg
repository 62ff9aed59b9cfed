\* Frames and commands of two channels, a line discipline that may be closed,
\* and a tty that takes what fits and may stop reading.
SPECIFICATION FairSpec
CONSTANTS
  NumChannels = 2
  Conf <- Mixed
  Room = 3
  FrameLen = 2
  CmdLen = 2
  Modes <- Ttys
  TtyCap = 1
  MaxFrames = 3
  MaxOpens = 2
  MaxCloses = 1
INVARIANTS TypeOK WholeLines XcmdHasWaiter  NoLostWakeup
CONSTRAINT Bounds
PROPERTIES FramesKept OpenMeansConfigured DetachCompletes FramesReachTheWire StoppedQueueWakes
CHECK_DEADLOCK FALSE
