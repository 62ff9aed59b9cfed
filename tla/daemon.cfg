\* slcandx with two channels, its script, its queries and its way out, and the
\* device it attaches, brought up and down while the adapter reports.
SPECIFICATION Spec
CONSTANTS
    Argvs <- MCArgvs
    MaxCommands = 5
    Slices = 2
    MaxInput = 2
    MaxSignals = 2
    MaxReports = 2
    MaxUps = 2
INVARIANTS StateFollows CloseOnExit AnswerBelongs
PROPERTIES OneWriter 
CHECK_DEADLOCK FALSE
