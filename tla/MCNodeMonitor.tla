--------------------------- MODULE MCNodeMonitor ---------------------------
(* Small sets of applications and processes.                               *)
EXTENDS NodeMonitor

\* Application a can be started twice, first in a pid namespace.
MCList == <<"b", "a">>
MCProcs == {1, 2, 3}
MCAppOf == <<"a", "a", "b">>
MCPid == <<11, 12, 13>>
MCNsPid == <<1, 12, 13>>
MCAllowable == [a |-> 3, b |-> 2]

\* Few processes with many FAULTs, all of them with none, and no process for
\* the other workload.
MCScenarios ==
  {[starts |-> {1}, sends |-> 3], [starts |-> {1, 2}, sends |-> 1], [starts |-> {1, 3}, sends |-> 1],
   [starts |-> {1, 2, 3}, sends |-> 0], [starts |-> {3}, sends |-> 3], [starts |-> {}, sends |-> 0]}
=============================================================================
