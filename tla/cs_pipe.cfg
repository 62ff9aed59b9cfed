\* Two threads, batches of two lines, writes that may fail, opened once.
SPECIFICATION FairSpec
CONSTANTS
  Senders = {s1, s2}
  Preempt = TRUE
  BatchMax = 2
  Failures = TRUE
  MaxSends = 2
  MaxOpens = 1
PROPERTIES PipeSpec SignalTakesLine LoopsEnd
CHECK_DEADLOCK FALSE
