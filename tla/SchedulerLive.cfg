SPECIFICATION FairSpec
CONSTANTS
  once = once
  cron = cron
  Task = {once, cron}
  NoTime = NoTime
  NoTask = NoTask
  Node = {n1, n2}
  Slot = {1}
  fast = n1
  Ahead = 0
  Skew <- MCSkew
  ScheduleAt <- MCScheduleAt
  CronPeriod <- MCCronPeriod
  MaxRetries <- MCMaxRetries
  Timeout <- MCTimeout
  RetryDelay <- MCRetryDelay
  Retries = 1
  OnceTimeout = 2
  CronTimeout = 2
  DelayOf = 1
  Limit = 1
  VisibilityDelay = 0
  Crashable = {n1}
  Outage = 2
  MaxTime = 3
PROPERTIES
  ExpiredAttemptEnds
  DueTaskIsTaken
