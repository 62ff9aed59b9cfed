\* A user thread and the callback send, writes may time out after a part of the
\* chunk, and the object may be destroyed.
SPECIFICATION FairSpec
CONSTANTS
  Users = {u1}
  Reader = reader
  Grouping = TRUE
  Big = 2
  Timeouts = TRUE
  MaxSends = 2
INVARIANTS NoSleepOnWork
PROPERTIES PipeSpec SentIsWritten
CHECK_DEADLOCK FALSE
