SPECIFICATION AllSpec
CONSTANTS
  Nodes <- MCNodes
  Cpus <- MCCpus
  TaskSpace <- MCTasks
  MaxTasks = 3
  Scale = 100
  CPU_UTILIZATION_THRESHOLD = 90
  CpuOrder <- MCCpuOrder
  max_memory_mb <- MCMemory
  memory_mb = 256
  MaskBits = 32
  InitialSize = 8
  NameLength = 18
  num_cpus <- MCOnline
CHECK_DEADLOCK FALSE
INVARIANT NodeLoadBelowThreshold
