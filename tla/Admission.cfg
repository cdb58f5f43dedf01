SPECIFICATION Spec
CONSTANTS
  first = first
  again = again
  blank = blank
  key = key
  Task = {first, again, blank}
  NoTime = NoTime
  NoTask = NoTask
  NoRow = NoRow
  NoKey = NoKey
  EmptyKey = EmptyKey
  KeyOf <- MCKeyOf
  ScheduleAt <- MCScheduleAt
  WellFormed <- MCWellFormed
  CronPeriod <- MCCronPeriod
  MaxRetries <- MCMaxRetries
  Timeout <- MCTimeout
  RetryDelay <- MCRetryDelay
  Cancellation = {c1}
  Scan = {s1, s2}
  MayFail = TRUE
  MaxTime = 2
SYMMETRY ClientSymmetry
INVARIANTS
  TypeOK
  KeyNamesOneTask
  RefusalLeavesNoRow
  CancelIsHonest
PROPERTIES
  ImplementsLifecycle
CHECK_DEADLOCK FALSE
