SPECIFICATION Spec
CONSTANTS
  w1 = w1
  w2 = w2
  Workloads <- MCWorkloads
  Periods <- MCPeriods
  MaxTasks <- MCMaxTasks
  MaxU64 <- MCMaxU64
  LimitUs <- MCLimitUs
INVARIANTS
  RustIsExact
  WrongOnlyByWrapping
