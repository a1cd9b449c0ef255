SPECIFICATION FairSpec
CONSTANTS
  t1 = t1
  Tasks <- MCTasks
  Schedule <- MCSchedule
  Own <- MCOwn
  hyperperiod_us = 1
  MaxThreads = 1
  MaxEvents = 3
  MaxPending = 1
  RingSize = 1
CHECK_DEADLOCK FALSE
INVARIANTS
  SettledEventsAreTrue
  NothingLeftBehind
PROPERTIES
  OverrunIsReported
  
  CleanupEnds
