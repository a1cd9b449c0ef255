--------------------------- MODULE MCSyncBarrier ---------------------------
(* SyncBarrier on small sets of nodes and calls                             *)
EXTENDS SyncBarrier

CONSTANTS n1, n2, c1, c2

MCNodes == {n1, n2}
MCCalls == {c1, c2}

(* two readings of the clock that straddle a second of NANOS_PER_SEC ticks  *)
MCClock == {2, 7}
MCClockOnce == {7}

=============================================================================
