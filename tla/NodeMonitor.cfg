SPECIFICATION MonitorSpec
CONSTANTS
  apex_list <- MCList
  Procs <- MCProcs
  AppOf <- MCAppOf
  PidOf <- MCPid
  NsPidOf <- MCNsPid
  allowable_deadline_misses <- MCAllowable
  period = 1
  Scenarios <- MCScenarios
  MaxTime = 6
  MaxMail = 1
  MaxTimers = 2
  Pids = {1, 2}
  Cpus = {0}
  RingSize = 1
  MaxTicks = 7
CHECK_DEADLOCK FALSE
INVARIANTS
  ReportsAreBacked
  AtMostOneMissIsLost
  TimersFollowApps
  
  ExactUntilFirstLoss
PROPERTIES
  WindowsClose
