\* The destructor while write_loop is about to block.
SPECIFICATION FairSpec
CONSTANTS
  Users = {u1}
  Reader = reader
  Grouping = TRUE
  Big = 2
  Timeouts = FALSE
  MaxSends = 1
PROPERTIES DestructorEnds
CHECK_DEADLOCK FALSE
