CONSTANTS
  Threads = {main, worker}
  Main = main
  Sinks = {console, file}
  File = file
  StrikeLimit = 1
  QueueCap = 1
  MaxEvents = 3
  MaxRaises = 2
  MaxInterrupts = 2
  MaxCycles = 1
SPECIFICATION FairSpec
INVARIANTS
  QueueIsDrained
  DeliveredInOrder
PROPERTY
  LifecycleEnds
CHECK_DEADLOCK FALSE
