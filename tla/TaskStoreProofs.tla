-------------------------- MODULE TaskStoreProofs --------------------------
(***************************************************************************)
(* What the statements on a row write, for the proofs about the modules    *)
(* that use them.                                                          *)
(***************************************************************************)
EXTENDS TaskStore, TLAPS

(* The occurrence of a cron task after n is an instant. *)
LEMMA CronNextType ==
  ASSUME NEW t \in Task, NEW n \in Nat
  PROVE  CronNext(t, n) \in Nat
<1>1. CronPeriod[t] \in Nat /\ CronPeriod[t] > 0  BY TaskAssumption
<1>2. n % CronPeriod[t] \in 0 .. CronPeriod[t]    BY <1>1
<1> QED  BY <1>1, <1>2 DEF CronNext

LEMMA RowTypes ==
  ASSUME NEW t \in Task, NEW r \in TaskRow, NEW n \in Nat, NEW attempt \in Nat
  PROVE  /\ CancelSet(r) \in TaskRow
         /\ ClaimSet(r, n) \in TaskRow
         /\ SucceededRow(t, r, n) \in TaskRow
         /\ FailedRow(t, r, attempt, n) \in TaskRow
<1>1. CronNext(t, n) \in Nat  BY CronNextType
<1>2. RetryDelay[t] \in Nat   BY TaskAssumption
<1>3. CancelSet(r) \in TaskRow  BY DEF CancelSet, TaskRow, Status
<1>4. ClaimSet(r, n) \in TaskRow
  <2>1. ASSUME NEW m \in Nat
        PROVE  [r EXCEPT !.status = "RUNNING", !.lastRunAt = n,
                         !.attemptCount = m] \in TaskRow
    BY DEF TaskRow, Status, Time
  <2>2. r.attemptCount + 1 \in Nat  BY DEF TaskRow
  <2> QED  BY <2>1, <2>2 DEF ClaimSet
<1>5. ASSUME NEW m \in Nat
      PROVE  RetryingSet(r, m) \in TaskRow /\ RescheduleSet(r, m) \in TaskRow
  BY DEF RetryingSet, RescheduleSet, TaskRow, Status, Time
<1>6. SuccessSet(r) \in TaskRow /\ FailedSet(r) \in TaskRow
  BY DEF SuccessSet, FailedSet, TaskRow, Status, Time
<1>7. n + RetryDelay[t] \in Nat  BY <1>2
<1> QED  BY <1>1, <1>3, <1>4, <1>5, <1>6, <1>7 DEF SucceededRow, FailedRow

(* The row of an accepted request. *)
LEMMA CreatedRowType ==
  ASSUME NEW t \in Task, NEW n \in Nat
  PROVE  CreatedRow(t, n) \in TaskRow
<1>1. CronNext(t, n) \in Time  BY CronNextType DEF Time
<1>2. ScheduleAt[t] \in Time   BY TaskAssumption DEF Time
<1> QED  BY <1>1, <1>2 DEF CreatedRow, TaskRow, Status, Time

(* What a statement does to the two columns of module Lifecycle. *)
LEMMA RowEffects ==
  ASSUME NEW t \in Task, NEW r \in TaskRow, NEW n \in Nat
  PROVE  /\ CancelSet(r).status = "CANCELED"
         /\ CancelSet(r).attemptCount = r.attemptCount
         /\ ClaimSet(r, n).status = "RUNNING"
         /\ ClaimSet(r, n).attemptCount = r.attemptCount + 1
         /\ IF ScheduleKind(t) = "CRON"
            THEN /\ SucceededRow(t, r, n).status = "PENDING"
                 /\ SucceededRow(t, r, n).attemptCount = 0
            ELSE /\ SucceededRow(t, r, n).status = "SUCCESS"
                 /\ SucceededRow(t, r, n).attemptCount = r.attemptCount
         /\ LET w == FailedRow(t, r, r.attemptCount, n) IN
            IF r.attemptCount <= MaxRetries[t]
            THEN w.status = "RETRYING" /\ w.attemptCount = r.attemptCount
            ELSE IF ScheduleKind(t) = "CRON"
            THEN w.status = "PENDING" /\ w.attemptCount = 0
            ELSE w.status = "FAILED" /\ w.attemptCount = r.attemptCount
<1>1. ASSUME NEW m
      PROVE  LET q == [r EXCEPT !.status = "RUNNING", !.lastRunAt = n,
                                !.attemptCount = m]
             IN  q.status = "RUNNING" /\ q.attemptCount = m
  BY DEF TaskRow
<1>2. ClaimSet(r, n).status = "RUNNING" /\ ClaimSet(r, n).attemptCount = r.attemptCount + 1
  BY <1>1 DEF ClaimSet
<1>3. CancelSet(r).status = "CANCELED" /\ CancelSet(r).attemptCount = r.attemptCount
  BY DEF CancelSet, TaskRow
<1>4. IF ScheduleKind(t) = "CRON"
      THEN /\ SucceededRow(t, r, n).status = "PENDING"
           /\ SucceededRow(t, r, n).attemptCount = 0
      ELSE /\ SucceededRow(t, r, n).status = "SUCCESS"
           /\ SucceededRow(t, r, n).attemptCount = r.attemptCount
  BY DEF SucceededRow, RescheduleSet, SuccessSet, TaskRow
<1>5. LET w == FailedRow(t, r, r.attemptCount, n) IN
      IF r.attemptCount <= MaxRetries[t]
      THEN w.status = "RETRYING" /\ w.attemptCount = r.attemptCount
      ELSE IF ScheduleKind(t) = "CRON"
      THEN w.status = "PENDING" /\ w.attemptCount = 0
      ELSE w.status = "FAILED" /\ w.attemptCount = r.attemptCount
  BY DEF FailedRow, RetryingSet, RescheduleSet, FailedSet, TaskRow
<1> QED  BY <1>2, <1>3, <1>4, <1>5
=============================================================================
