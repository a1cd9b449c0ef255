SPECIFICATION NodeSpec
CONSTANTS
  n1 = n1
  n2 = n2
  n3 = n3
  c1 = c1
  c2 = c2
  c3 = c3
  NoCall = NoCall
  Nodes <- MCNodes
  Calls <- MCCalls
  Clock <- MCClock
  Sites <- MCTwoSync
  MaxWorkloads = 2
  max_retries = 0
  NANOS_PER_SEC = 5
  SYNC_START_OFFSET_NS = 5
INVARIANT ScheduleMatchesBarrier
