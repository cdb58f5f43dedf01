SPECIFICATION FormsSpec
CONSTANTS
  bare = bare
  typed = typed
  other = other
  key1 = key1
  key2 = key2
  word = word
  Task = {one, two, three, other, bare, typed}
  GeneratedKey = {key1, key2}
  TypedKey = {word}
  MaxDraft = 3
  NoTime = NoTime
  NoTask = NoTask
  NoRow = NoRow
  NoKey = NoKey
  EmptyKey = EmptyKey
  KeyOf <- MCKeyOf
  ScheduleAt <- MCScheduleAt
  WellFormed <- MCWellFormed
  CronPeriod <- MCCronPeriod
  MaxRetries <- MCMaxRetries
  Timeout <- MCTimeout
  RetryDelay <- MCRetryDelay
  Cancellation = {}
  Scan = {}
  MayFail = TRUE
  MaxTime = 1
SYMMETRY ClickSymmetry
INVARIANTS
  FormsTypeOK
  OneSubmission
  DraftMakesOneTask
  SuccessIsOwn
PROPERTIES
  ConflictHeals
  ClosesNoOther
CHECK_DEADLOCK FALSE
