SPECIFICATION FairMissSpec
CONSTANTS
  MaxMisses <- MCMisses
  MaxWorkloads <- MCWorkloads
  DMISS_QUEUE_DEPTH <- MCDepth
CHECK_DEADLOCK FALSE
INVARIANTS
  SentOnceInOrder
  
  NeverBlamedOnOlder
PROPERTIES
  ReporterStops
