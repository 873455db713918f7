SPECIFICATION FairSpec
CONSTANTS
  w1 = w1
  w2 = w2
  scan = scan
  milestone = milestone
  NoJob = NoJob
  Worker <- MCWorker
  Job <- OneJob
  ScheduledFor <- OneScheduledFor
  Deadline <- OneDeadline
  Jitter <- OneJitter
  Milestone = {}
  Lease = 2
  Backoff = 1
  MaxAttempts = 3
  CatchupGrace = 1
  Horizon = 1
  DayLength = 3
  BatchLimit = 2
  RowLocks = TRUE
  PromptHeartbeat = FALSE
  SlowClock = TRUE
  MaxCrashes = 3
  MaxTime = 9
PROPERTIES
  EveryJobSettles
CHECK_DEADLOCK FALSE
