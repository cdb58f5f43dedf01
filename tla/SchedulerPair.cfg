SPECIFICATION Spec
CONSTANTS
  once = once
  cron = cron
  Task = {once, cron}
  NoTime = NoTime
  NoTask = NoTask
  Node = {n1, n2}
  Slot = {s1, s2}
  fast = fast
  Ahead = 0
  Skew <- MCSkew
  ScheduleAt <- MCScheduleAt
  CronPeriod <- MCCronPeriod
  MaxRetries <- MCMaxRetries
  Timeout <- MCTimeout
  RetryDelay <- MCRetryDelay
  Retries = 0
  OnceTimeout = 2
  CronTimeout = 1
  DelayOf = 1
  Limit = 2
  VisibilityDelay = 1
  Crashable = {}
  Outage = 0
  MaxTime = 3
SYMMETRY ScanSymmetry
INVARIANTS
  ExclusiveOwner
  RunLogFaithful
PROPERTIES
  RestIsForGood
