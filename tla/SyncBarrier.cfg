SPECIFICATION FairSpec
CONSTANTS
  n1 = n1
  n2 = n2
  c1 = c1
  c2 = c2
  Nodes <- MCNodes
  Calls <- MCCalls
  Clock <- MCClockOnce
  MaxWorkloads = 2
  NANOS_PER_SEC = 5
  SYNC_START_OFFSET_NS = 5
INVARIANT NoMissedWakeup
INVARIANT ReplacedMeansCancelled
PROPERTY EveryCallReturns
PROPERTY RefinesRendezvous
