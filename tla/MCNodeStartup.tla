--------------------------- MODULE MCNodeStartup ---------------------------
(* NodeStartup with two nodes, or three that start calmly                   *)
EXTENDS NodeStartup

CONSTANTS n1, n2, n3, c1, c2, c3

MCNodes == {n1, n2, n3}
MCCalls == {c1, c2, c3}
MCClock == {2, 7}

Two(sync, calls) == [nodes |-> {n1, n2}, calls |-> calls, sync |-> sync, calm |-> FALSE]

(* Two nodes, one of which starts without waiting for the barrier, whatever *)
(* happens; three that start calmly                                         *)
MCSites == {Two({n1}, {c1}), [nodes |-> MCNodes, calls |-> MCCalls, sync |-> MCNodes, calm |-> TRUE]}

MCTwoSync == {Two({n1, n2}, {c1, c2})}

=============================================================================
