------------------------------ MODULE TaskStore ------------------------------
(***************************************************************************)
(* The rows of the ScheduleTask table and the statements that              *)
(* SchedulesRepository (src/src/schedules/schedules.repository.ts) issues  *)
(* on one row.  A statement with a WHERE clause is a pair of operators:    *)
(* XxxWhere tells whether the row matches and XxxSet is the row written.   *)
(* PostgreSQL evaluates both on the same version of the row, so a module   *)
(* that uses them puts a Where and its Set in one step; an update by id    *)
(* alone has no Where and overwrites the row whatever it holds.            *)
(*                                                                         *)
(* Columns no statement changes after the insert (scheduleAt, cronExpr,    *)
(* maxRetries, timeoutMs, retryDelaySeconds) are constants indexed by the  *)
(* task.  Payloads, results and error texts are left out: no decision of   *)
(* the engine depends on them.                                             *)
(***************************************************************************)
EXTENDS Integers, FiniteSets, Sequences

CONSTANTS
  Task,         \* ids of the tasks the API has accepted
  ScheduleAt,   \* [Task -> time or NoTime]: scheduleAt, null for a cron task
  CronPeriod,   \* [Task -> Nat \ {0}]: distance of a cron task's occurrences
  MaxRetries,   \* [Task -> Nat]: maxRetries
  Timeout,      \* [Task -> Nat \ {0}]: timeoutMs, in units of the clock
  RetryDelay,   \* [Task -> Nat \ {0}]: retryDelaySeconds, in the same units
  NoTime        \* SQL NULL in a DateTime column

ASSUME NoTimeAssumption == NoTime \notin Nat
ASSUME TaskAssumption ==
  /\ ScheduleAt \in [Task -> Nat \cup {NoTime}]
  /\ CronPeriod \in [Task -> Nat \ {0}]
  /\ MaxRetries \in [Task -> Nat]
  /\ Timeout \in [Task -> Nat \ {0}]
  /\ RetryDelay \in [Task -> Nat \ {0}]

Time == Nat \cup {NoTime}

(* PAUSED is declared by the schema; nothing in the code ever writes it. *)
Status == {"PENDING", "RUNNING", "SUCCESS", "FAILED", "RETRYING", "CANCELED",
           "PAUSED"}

TaskRow == [status : Status, nextRunAt : Time, lastRunAt : Time,
            attemptCount : Nat]

TaskRun == [status : {"RUNNING", "SUCCESS", "FAILED"}, attemptNumber : Nat]

(* "column <= at" in SQL: never true of NULL. *)
Reached(column, at) == column # NoTime /\ column <= at

(* Ascending order of a nullable column: PostgreSQL sorts NULL last. *)
NotAfter(a, b) == b = NoTime \/ (a # NoTime /\ a <= b)

-----------------------------------------------------------------------------
(* Schedules.                                                              *)

ScheduleKind(t) == IF ScheduleAt[t] # NoTime THEN "ONCE" ELSE "CRON"

(* CronTime.sendAt(): the first occurrence strictly after the instant n.   *)
CronNext(t, n) == n + CronPeriod[t] - (n % CronPeriod[t])

(* The row create() inserts at instant n for an accepted request.          *)
CreatedRow(t, n) ==
  [status       |-> "PENDING",
   nextRunAt    |-> IF ScheduleKind(t) = "ONCE" THEN ScheduleAt[t]
                                                ELSE CronNext(t, n),
   lastRunAt    |-> NoTime,
   attemptCount |-> 0]

-----------------------------------------------------------------------------
(* Conditional statements.                                                 *)
(*                                                                         *)
(* A definition under the word "Mutant" is used by no action: it is a      *)
(* plausible mistake in the definition that follows it, and shows that the *)
(* properties notice it (README.md lists which).                           *)

(* Mutant: a running task can be canceled too. *)
CancelWhereRunning(r) ==
  r.status \in {"PENDING", "PAUSED", "RETRYING", "RUNNING"}

CancelWhere(r) == r.status \in {"PENDING", "PAUSED", "RETRYING"}
CancelSet(r)   == [r EXCEPT !.status = "CANCELED"]

(* Mutant: tasks that wait for a retry are forgotten. *)
DueWherePending(t, r, at) ==
  r.status = "PENDING" /\ (Reached(ScheduleAt[t], at) \/ Reached(r.nextRunAt, at))

(* Mutant: a waiting task is listed by its scheduleAt, as it is claimed. *)
DueWhereScheduled(t, r, at) ==
  /\ r.status \in {"PENDING", "RETRYING"}
  /\ Reached(ScheduleAt[t], at) \/ Reached(r.nextRunAt, at)

DueWhere(t, r, at) ==
  \/ /\ r.status = "PENDING"
     /\ Reached(ScheduleAt[t], at) \/ Reached(r.nextRunAt, at)
  \/ /\ r.status = "RETRYING"
     /\ Reached(r.nextRunAt, at)

(* Mutant: the status read by findDueTasks is trusted. *)
ClaimWhereAnyStatus(t, r, at) ==
  Reached(r.nextRunAt, at) \/ Reached(ScheduleAt[t], at)

ClaimWhere(t, r, at) ==
  /\ r.status \in {"PENDING", "RETRYING"}
  /\ Reached(r.nextRunAt, at) \/ Reached(ScheduleAt[t], at)

(* Mutant: lastRunAt, the start of the lease, is not written. *)
ClaimSetNoLease(r, at) ==
  [r EXCEPT !.status = "RUNNING", !.attemptCount = r.attemptCount + 1]

ClaimSet(r, at) ==
  [r EXCEPT !.status = "RUNNING", !.lastRunAt = at,
            !.attemptCount = r.attemptCount + 1]

(* Mutant: only what can be retried is recovered. *)
StuckWhereRetryable(t, r, at) ==
  /\ r.status = "RUNNING"
  /\ r.attemptCount <= MaxRetries[t]
  /\ r.lastRunAt # NoTime
  /\ r.lastRunAt + Timeout[t] <= at

StuckWhere(t, r, at) ==
  /\ r.status = "RUNNING"
  /\ r.lastRunAt # NoTime
  /\ r.lastRunAt + Timeout[t] <= at

-----------------------------------------------------------------------------
(* Updates by id.                                                          *)

(* Mutant: a retry starts the count of attempts again. *)
RetryingSetReset(r, at) ==
  [r EXCEPT !.status = "RETRYING", !.nextRunAt = at, !.attemptCount = 0]

RetryingSet(r, at) == [r EXCEPT !.status = "RETRYING", !.nextRunAt = at]

(* Mutant: a status the schema does not declare. *)
SuccessSetUndeclared(r) == [r EXCEPT !.status = "COMPLETED"]

SuccessSet(r)      == [r EXCEPT !.status = "SUCCESS"]
FailedSet(r)       == [r EXCEPT !.status = "FAILED", !.nextRunAt = NoTime]

(* Mutant: a new occurrence inherits the attempts of the last one. *)
RescheduleSetKeep(r, at) ==
  [r EXCEPT !.status = "PENDING", !.nextRunAt = at]

(* Mutant: a task whose occurrence is over has no next instant. *)
RescheduleSetNever(r, at) ==
  [r EXCEPT !.status = "PENDING", !.nextRunAt = NoTime, !.attemptCount = 0]

RescheduleSet(r, at) ==
  [r EXCEPT !.status = "PENDING", !.nextRunAt = at, !.attemptCount = 0]

(* What a runner writes after its executor succeeded. *)
SucceededRow(t, r, n) ==
  IF ScheduleKind(t) = "CRON" THEN RescheduleSet(r, CronNext(t, n))
                              ELSE SuccessSet(r)

(* Mutant: one retry too many. *)
FailedRowOneMore(t, r, attempt, n) ==
  IF attempt <= MaxRetries[t] + 1
  THEN RetryingSet(r, n + RetryDelay[t])
  ELSE IF ScheduleKind(t) = "CRON" THEN RescheduleSet(r, CronNext(t, n))
                                   ELSE FailedSet(r)

(* What a runner, or the recovery of a stuck task, writes after a failed   *)
(* attempt.  attempt is the attemptCount the writer has READ EARLIER.      *)
FailedRow(t, r, attempt, n) ==
  IF attempt <= MaxRetries[t]
  THEN RetryingSet(r, n + RetryDelay[t])
  ELSE IF ScheduleKind(t) = "CRON" THEN RescheduleSet(r, CronNext(t, n))
                                   ELSE FailedSet(r)
=============================================================================
