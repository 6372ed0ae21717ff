CONSTANTS
  ReadyTimeout = 3
  WaitTimeout = 5
  PollInterval = 2
  ProgressIntervals = {0, 1}
  Jitter = 0
  MaxFiles = 2
SPECIFICATION Spec
INVARIANT TimedOutMeansNotDownloaded
