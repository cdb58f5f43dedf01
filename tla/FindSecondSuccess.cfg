SPECIFICATION Spec
CONSTANTS
  once = once
  cron = cron
  Task = {once}
  NoTime = NoTime
  NoTask = NoTask
  Node = {n1, n2}
  Slot = {1}
  fast = n1
  Ahead = 0
  Skew <- MCSkew
  ScheduleAt <- MCScheduleAt
  CronPeriod <- MCCronPeriod
  MaxRetries <- MCMaxRetries
  Timeout <- MCTimeout
  RetryDelay <- MCRetryDelay
  Retries = 1
  OnceTimeout = 2
  CronTimeout = 2
  DelayOf = 1
  Limit = 10
  VisibilityDelay = 1
  Crashable = {}
  Outage = 0
  MaxTime = 6
PROPERTY NoExecutionAfterSuccess
CHECK_DEADLOCK FALSE
