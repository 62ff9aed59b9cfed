------------------------------ MODULE MCCangw ------------------------------
(* Two interfaces that are forwarded, of which one has more frames than its *)
(* socket's queue holds, and one that is not.                               *)
EXTENDS Cangw

McSources == {"can0", "can1"}
McOthers == {"can3"}
McMaxFrames == [s \in McSources \cup McOthers |-> IF s = "can0" THEN 3 ELSE 1]

=============================================================================
