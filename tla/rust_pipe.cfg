\* Two threads send, reads and writes may fail, the library may be shut down.
SPECIFICATION FairSpec
CONSTANTS
  Senders = {s1, s2}
  Full = 1
  Failures = TRUE
  MaxSends = 2
PROPERTIES PipeSpec SentIsWritten DropReturns
CHECK_DEADLOCK FALSE
