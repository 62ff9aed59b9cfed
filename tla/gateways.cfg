\* Two interfaces that are forwarded, and one that is not, under every program.
SPECIFICATION Spec
CONSTANTS
    Sources <- McSources
    Others <- McOthers
    MaxFrames <- McMaxFrames
    QueueMax = 2
    MaxDowns = 1
INVARIANTS InOrder Accounted
PROPERTIES Drains
CHECK_DEADLOCK FALSE
