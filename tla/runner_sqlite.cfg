SPECIFICATION Spec
CONSTANTS
  w1 = w1
  w2 = w2
  scan = scan
  milestone = milestone
  NoJob = NoJob
  Worker <- MCWorker
  Job <- MCJob
  ScheduledFor <- MCScheduledFor
  Deadline <- MCDeadline
  Jitter <- MCJitter
  Milestone = {milestone}
  Lease = 2
  Backoff = 1
  MaxAttempts = 2
  CatchupGrace = 1
  Horizon = 1
  DayLength = 3
  BatchLimit = 2
  RowLocks = FALSE
  PromptHeartbeat = FALSE
  SlowClock = FALSE
  MaxCrashes = 1
  MaxTime = 3
SYMMETRY WorkerSymmetry
INVARIANTS
  OpenJobsMayRetry
  OutcomeOfLatestClaim
PROPERTIES
  TerminalIsFinal
  KeepsPromise
CHECK_DEADLOCK FALSE
