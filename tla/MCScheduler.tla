---------------------------- MODULE MCScheduler ----------------------------
EXTENDS Scheduler, TLC

CONSTANTS a, b, c

\* Two priorities; b has the lower one.
MCPrios == {0, 1}
MCWeight == 0 :> 2 @@ 1 :> 1
MCPrio == [t \in Tasks |-> IF t = b THEN 1 ELSE 0]

\* One priority: every task competes for the same ready queue.
MCOnePrio == {0}
MCOneWeight == 0 :> 1
MCSamePrio == [t \in Tasks |-> 0]
=============================================================================
