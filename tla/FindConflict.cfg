SPECIFICATION Spec
CONSTANTS
  first = first
  again = again
  blank = blank
  key = key
  Task = {first, again, blank}
  NoTime = NoTime
  NoTask = NoTask
  NoRow = NoRow
  NoKey = NoKey
  EmptyKey = EmptyKey
  KeyOf <- MCKeyOf
  ScheduleAt <- MCScheduleAt
  WellFormed <- MCWellFormed
  CronPeriod <- MCCronPeriod
  MaxRetries <- MCMaxRetries
  Timeout <- MCTimeout
  RetryDelay <- MCRetryDelay
  Cancellation = {}
  Scan = {}
  MayFail = FALSE
  MaxTime = 2
INVARIANT RepetitionIsNoConflict
CHECK_DEADLOCK FALSE
