SPECIFICATION FairSpec
CONSTANTS
  w1 = w1
  w2 = w2
  scan = scan
  milestone = milestone
  NoJob = NoJob
  Worker <- MCWorker
  Job <- MCJob
  ScheduledFor <- MCScheduledFor
  Deadline <- MCDeadline
  Jitter <- MCJitter
  Milestone = {milestone}
  Lease = 2
  Backoff = 1
  MaxAttempts = 2
  CatchupGrace = 1
  Horizon = 1
  DayLength = 3
  BatchLimit = 1
  RowLocks = TRUE
  PromptHeartbeat = FALSE
  SlowClock = TRUE
  MaxCrashes = 2
  MaxTime = 7
PROPERTIES
  SettlesUnlessStranded
CHECK_DEADLOCK FALSE
