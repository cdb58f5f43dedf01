SPECIFICATION Spec
CONSTANTS
  once = once
  cron = cron
  Task = {once}
  NoTime = NoTime
  NoTask = NoTask
  Node = {n1, n2}
  Slot = {1}
  fast = n1
  Ahead = 1
  Skew <- MCSkew
  ScheduleAt <- MCScheduleAt
  CronPeriod <- MCCronPeriod
  MaxRetries <- MCMaxRetries
  Timeout <- MCTimeout
  RetryDelay <- MCRetryDelay
  Retries = 1
  OnceTimeout = 2
  CronTimeout = 2
  DelayOf = 1
  Limit = 1
  VisibilityDelay = 1
  Crashable = {n1, n2}
  Outage = 6
  MaxTime = 5
INVARIANTS
  TypeOK
  ExclusiveOwner
  RetryBudget
  RunLogFaithful
  NeverStranded
PROPERTIES
  OutcomeIsFinal
  EarlyRetryIsStale
  RestIsForGood
  ImplementsLifecycle
