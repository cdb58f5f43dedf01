--------------------------- MODULE LifecycleProofs ---------------------------
(***************************************************************************)
(* More theorems about Scheduler: the bound on attempts, and that the      *)
(* engine implements Lifecycle.                                            *)
(***************************************************************************)
EXTENDS SchedulerProofs

-----------------------------------------------------------------------------
(* What an owner keeps.                                                    *)

(* The row of an uncontested task stays as it is while its owner works. *)
LEMMA OwnedRowStays ==
  ASSUME TypeOK, ExclusiveOwner, [Next]_vars, NEW t \in Task \ contested',
         NEW s \in Scan, Owns(s, t), Owns(s, t)'
  PROVE  task'[t] = task[t]
<1>1. t \in Task \ contested /\ contested \subseteq contested'
  BY ContestedGrows
<1>2. task[t].status = "RUNNING"  BY <1>1 DEF ExclusiveOwner
<1>3. ~Cancel(t) /\ \A r \in Scan : ~ClaimWhere(t, task[t], Clock(r))
  BY <1>2 DEF ClaimWhere, Cancel, CancelWhere
<1>4. SUFFICES ASSUME task'[t] # task[t] PROVE FALSE  OBVIOUS
<1>5. PICK r \in Scan :
        /\ job[r].id = t
        /\ SettleStuckTask(r) \/ SettleSuccess(r) \/ SettleFailure(r)
  BY <1>1, <1>3, <1>4, RowWriters
<1> QED  BY <1>1, <1>5, SettlementReleases

Untouched(s) == pc'[s] = pc[s] /\ job'[s] = job[s] /\ work'[s] = work[s]

(* The steps of scan s itself. *)
StepOf(s) == StartScan(s) \/ Advance(s) \/ StatementFails(s)
             \/ ExecutorReturns(s) \/ ExecutorThrows(s)

(* The locals of a scan are its own: nothing but its steps and the end of  *)
(* its process changes them.                                               *)
LEMMA OnlyItself ==
  ASSUME TypeOK, [Next]_vars, NEW s \in Scan
  PROVE  Untouched(s) \/ StepOf(s) \/ \E n \in Node : Halt(n)
<1>0. ControlOK  BY DEF TypeOK, ControlOK
<1>1. ASSUME NEW r \in Scan, r # s, NEW rest,
             NextDue(r, rest) \/ NextStuck(r, rest)
      PROVE  Untouched(s)
  BY <1>0, <1>1 DEF NextDue, NextStuck, Untouched, ControlOK
<1>2. ASSUME NEW r \in Scan, r # s, NEW label, NEW j, GoTo(r, label, j)
      PROVE  Untouched(s)
  BY <1>0, <1>2 DEF GoTo, Untouched, ControlOK
<1>3. ASSUME NEW r \in Scan, r # s, Throw(r) PROVE Untouched(s)
  BY <1>1, <1>2, <1>3 DEF Throw
<1>4. ASSUME NEW r \in Scan, r # s, StartScan(r) PROVE Untouched(s)
  BY <1>0, <1>4 DEF StartScan, Untouched, ControlOK
<1>5. ASSUME NEW r \in Scan, r # s, StepOf(r), ~TimerKillsNode(r)
      PROVE  Untouched(s)
  <2>1. CASE Recover(r) \/ FindDueTasks(r)
    BY <1>1, <1>2, <1>3, <1>5, <2>1
    DEF Recover, FindStuckTasks, CloseStuckRun, SettleStuckTask, FindDueTasks,
        AnswerLost
  <2>2. CASE Prepare(r)
    BY <1>1, <1>2, <1>3, <1>5, <2>2
    DEF Prepare, ClaimDueTask, FindTask, CreateRunLog, AnswerLost
  <2>3. CASE Timer(r) \/ ExecutorReturns(r) \/ ExecutorThrows(r)
    BY <1>2, <1>5, <2>3
    DEF Timer, DelayDone, TimerFires, ExecutorReturns, ExecutorThrows
  <2>4. CASE Conclude(r) \/ StatementFails(r)
    BY <1>1, <1>2, <1>3, <1>5, <2>4
    DEF Conclude, MarkRunSuccess, SettleSuccess, MarkRunFailed, SettleFailure,
        AnswerLost, StatementFails
  <2> QED  BY <1>4, <1>5, <2>1, <2>2, <2>3, <2>4 DEF StepOf, Advance
<1>6. ASSUME NEW r \in Scan, TimerKillsNode(r) PROVE \E n \in Node : Halt(n)
  BY <1>6 DEF TimerKillsNode, NodeOf, Scan
<1>7. ASSUME NEW n \in Node, Crash(n) \/ Restart(n)
      PROVE  Untouched(s) \/ \E m \in Node : Halt(m)
  BY <1>7 DEF Crash, Restart, Untouched
<1>8. CASE \/ Tick \/ (\E e \in leaked : LeakedEnds(e))
           \/ (\E t \in Task : Cancel(t)) \/ UNCHANGED vars
  BY <1>8 DEF Tick, LeakedEnds, Cancel, vars, Untouched
<1>9. \/ \E r \in Scan : StepOf(r)
      \/ \E n \in Node : Crash(n) \/ Restart(n)
      \/ Tick \/ (\E e \in leaked : LeakedEnds(e))
      \/ (\E t \in Task : Cancel(t)) \/ UNCHANGED vars
  BY DEF Next, StepOf
<1> QED  BY <1>5, <1>6, <1>7, <1>8, <1>9

(* The steps of an owner that remains one. *)
OwnStep(s) ==
  \/ FindTask(s) \/ CreateRunLog(s) \/ DelayDone(s) \/ ExecutorReturns(s)
  \/ ExecutorThrows(s) \/ TimerFires(s) \/ MarkRunSuccess(s)
  \/ MarkRunFailed(s) \/ SettleSuccess(s) \/ StatementFails(s)

Stays(s) == pc'[s] = pc[s] /\ job'[s] = job[s]

(* What an owner does next, if it is not stopped. *)
LEMMA OwnerSteps ==
  ASSUME TypeOK, [Next]_vars, NEW s \in Scan, NEW t \in Task, Owns(s, t)
  PROVE  \/ Stays(s) \/ OwnStep(s) \/ SettleFailure(s)
         \/ \E n \in Node : Halt(n)
<1>1. pc[s] \in OwnerPC  BY DEF Owns
<1>2. \/ ~StepOf(s) \/ TimerKillsNode(s) \/ OwnStep(s) \/ SettleFailure(s)
  BY <1>1
  DEF StepOf, Advance, Recover, Prepare, Timer, Conclude, OwnStep, OwnerPC,
      StartScan, FindStuckTasks, CloseStuckRun, SettleStuckTask, FindDueTasks,
      ClaimDueTask
<1>3. TimerKillsNode(s) => \E n \in Node : Halt(n)
  BY DEF TimerKillsNode, NodeOf, Scan
<1> QED  BY <1>2, <1>3, OnlyItself DEF Untouched, Stays

(* Nobody but the owner itself moves it on. *)
LEMMA OwnerMoves ==
  ASSUME TypeOK, [Next]_vars, NEW s \in Scan, NEW t \in Task,
         Owns(s, t), Owns(s, t)'
  PROVE  Stays(s) \/ OwnStep(s)
<1>0. ControlOK  BY DEF TypeOK, ControlOK
<1>1. ASSUME NEW n \in Node, Halt(n) PROVE Stays(s)
  BY <1>1 DEF Halt, Owns, OwnerPC, Stays
<1>2. ~SettleFailure(s)  BY <1>0, NextOwns DEF SettleFailure
<1> QED  BY <1>1, <1>2, OwnerSteps

(* An exception that leaves its scan an owner leads to the catch. *)
LEMMA ThrowToCatch ==
  ASSUME ControlOK, NEW s \in Scan, NEW t \in Task, Throw(s), Owns(s, t)'
  PROVE  pc[s] \in {"succRun", "succTask"} /\ GoTo(s, "failRun", job[s])
<1>1. pc[s] \in OwnerPC  BY ThrowOwns DEF Owns
<1>2. \A rest : ~NextDue(s, rest) /\ ~NextStuck(s, rest)  BY NextOwns
<1> QED  BY <1>1, <1>2 DEF Throw, OwnerPC

(* s keeps the locals it works with. *)
Keeps(s) == job'[s] = job[s] /\ (pc[s] = "read" => pc'[s] = "read")

(* Only findById and createRunLog change the locals of an owner. *)
LEMMA OwnerKeeps ==
  ASSUME TypeOK, [Next]_vars, NEW s \in Scan, NEW t \in Task,
         Owns(s, t), Owns(s, t)'
  PROVE  Keeps(s) \/ FindTask(s) \/ CreateRunLog(s)
<1>0. ControlOK  BY DEF TypeOK, ControlOK
<1>1. ASSUME NEW label, GoTo(s, label, job[s]), pc[s] # "read" PROVE Keeps(s)
  BY <1>0, <1>1 DEF GoTo, Keeps, ControlOK
<1>2. CASE Throw(s)  BY <1>0, <1>1, <1>2, ThrowToCatch
<1>3. CASE \/ DelayDone(s) \/ ExecutorReturns(s) \/ ExecutorThrows(s)
           \/ TimerFires(s)
  BY <1>1, <1>3 DEF DelayDone, ExecutorReturns, ExecutorThrows, TimerFires
<1>4. CASE MarkRunSuccess(s) \/ MarkRunFailed(s)
  BY <1>1, <1>2, <1>4 DEF MarkRunSuccess, MarkRunFailed, AnswerLost
<1>5. CASE SettleSuccess(s) \/ StatementFails(s)
  BY <1>0, <1>2, <1>5, NextOwns DEF SettleSuccess, StatementFails, AnswerLost
<1>6. CASE Stays(s)  BY <1>6 DEF Stays, Keeps
<1> QED  BY <1>3, <1>4, <1>5, <1>6, OwnerMoves DEF OwnStep

-----------------------------------------------------------------------------
(* The bound on attempts.                                                  *)

RowBudget(t, r) ==
  /\ r.attemptCount <= MaxRetries[t] + 1
  /\ r.status = "PENDING" => r.attemptCount = 0
  /\ r.status = "RETRYING" => r.attemptCount <= MaxRetries[t]

(* Every statement that is given the row's own count keeps the bound. *)
LEMMA WritesInBudget ==
  ASSUME NEW t \in Task, NEW r \in TaskRow, NEW n \in Nat, RowBudget(t, r)
  PROVE  /\ CancelWhere(r) => RowBudget(t, CancelSet(r))
         /\ ClaimWhere(t, r, n) => RowBudget(t, ClaimSet(r, n))
         /\ RowBudget(t, SucceededRow(t, r, n))
         /\ RowBudget(t, FailedRow(t, r, r.attemptCount, n))
<1>0. /\ MaxRetries[t] \in Nat /\ r.attemptCount \in Nat
      /\ r.attemptCount <= MaxRetries[t] + 1
  BY TaskAssumption DEF TaskRow, RowBudget
<1>1. RowBudget(t, CancelSet(r)) /\ RowBudget(t, SuccessSet(r))
      /\ RowBudget(t, FailedSet(r))
  BY <1>0 DEF RowBudget, CancelSet, SuccessSet, FailedSet, TaskRow
<1>2. ASSUME NEW m \in Nat PROVE RowBudget(t, RescheduleSet(r, m))
  BY <1>0 DEF RowBudget, RescheduleSet, TaskRow
<1>3. ASSUME NEW m \in Nat, r.attemptCount <= MaxRetries[t]
      PROVE  RowBudget(t, RetryingSet(r, m))
  BY <1>0, <1>3 DEF RowBudget, RetryingSet, TaskRow
<1>4. CronNext(t, n) \in Nat /\ n + RetryDelay[t] \in Nat
  BY CronNextType, TaskAssumption
<1>5. ASSUME ClaimWhere(t, r, n) PROVE RowBudget(t, ClaimSet(r, n))
  <2>1. r.attemptCount <= MaxRetries[t]
    BY <1>0, <1>5 DEF ClaimWhere, RowBudget
  <2>2. ASSUME NEW m \in Nat, m <= MaxRetries[t] + 1
        PROVE  RowBudget(t, [r EXCEPT !.status = "RUNNING", !.lastRunAt = n,
                                      !.attemptCount = m])
    BY <1>0, <2>2 DEF RowBudget, TaskRow
  <2>3. r.attemptCount + 1 \in Nat /\ r.attemptCount + 1 <= MaxRetries[t] + 1
    BY <1>0, <2>1
  <2> QED  BY <2>2, <2>3 DEF ClaimSet
<1> QED  BY <1>0, <1>1, <1>2, <1>3, <1>4, <1>5 DEF SucceededRow, FailedRow

(* What the statements would do to a row if each of them checked it: every *)
(* settlement is of the attempt the row is in.                             *)
RowActs(t) ==
  \/ CancelWhere(task[t]) /\ task'[t] = CancelSet(task[t])
  \/ \E s \in Scan :
       \/ /\ ClaimWhere(t, task[t], Clock(s))
          /\ task'[t] = ClaimSet(task[t], Clock(s))
       \/ /\ task[t].status = "RUNNING"
          /\ \/ task'[t] = SucceededRow(t, task[t], Clock(s))
             \/ task'[t] = FailedRow(t, task[t], task[t].attemptCount, Clock(s))

LEMMA UncontestedWrites ==
  ASSUME TypeOK, ExclusiveOwner, RetryBudget, [Next]_vars,
         NEW t \in Task \ contested', task'[t] # task[t]
  PROVE  RowActs(t)
<1>1. t \in Task \ contested /\ contested \subseteq contested'
  BY ContestedGrows
<1>2. CASE Cancel(t)  BY <1>2 DEF Cancel, TypeOK, RowActs
<1>3. ASSUME NEW s \in Scan, job[s].id = t, ClaimDueTask(s),
             ClaimWhere(t, task[t], Clock(s))
      PROVE  task'[t] = ClaimSet(task[t], Clock(s))
  BY <1>3 DEF ClaimDueTask, TypeOK
<1>4. ASSUME NEW s \in Scan, job[s].id = t,
             SettleStuckTask(s) \/ SettleSuccess(s) \/ SettleFailure(s)
      PROVE  /\ task[t].status = "RUNNING"
             /\ \/ task'[t] = SucceededRow(t, task[t], Clock(s))
                \/ task'[t] = FailedRow(t, task[t], task[t].attemptCount, Clock(s))
  <2>1. task[t].status = "RUNNING"  BY <1>1, <1>4, SettlementReleases
  <2>2. CASE SettleStuckTask(s)
    <3>1. Abandoned(t, job[s].attempt)  BY <1>4, <2>2 DEF SettleStuckTask
    <3> QED
      BY <1>4, <2>1, <2>2, <3>1 DEF SettleStuckTask, Abandoned, TypeOK
  <2>3. CASE SettleSuccess(s)  BY <1>4, <2>1, <2>3 DEF SettleSuccess, TypeOK
  <2>4. CASE SettleFailure(s)
    <3>1. Owns(s, t) /\ pc[s] # "read"
      BY <1>4, <2>4 DEF SettleFailure, Owns, OwnerPC
    <3>2. job[s].attempt = task[t].attemptCount
      BY <1>1, <3>1 DEF RetryBudget
    <3> QED  BY <1>4, <2>1, <2>4, <3>2 DEF SettleFailure, TypeOK
  <2> QED  BY <1>4, <2>2, <2>3, <2>4
<1> QED  BY <1>2, <1>3, <1>4, RowWriters DEF RowActs

LEMMA BudgetNext ==
  TypeOK /\ ExclusiveOwner /\ RetryBudget /\ [Next]_vars => RetryBudget'
<1> SUFFICES ASSUME TypeOK, ExclusiveOwner, RetryBudget, [Next]_vars,
                    NEW t \in Task \ contested'
             PROVE  /\ RowBudget(t, task'[t])
                    /\ \A s \in Scan : Owns(s, t)' /\ pc'[s] # "read" =>
                          job'[s].attempt = task'[t].attemptCount
  BY DEF RetryBudget, RowBudget
<1>1. t \in Task \ contested  BY ContestedGrows
<1>2. RowBudget(t, task'[t])
  <2>1. RowBudget(t, task[t])  BY <1>1 DEF RetryBudget, RowBudget
  <2>2. task[t] \in TaskRow  BY DEF TypeOK
  <2>3. CASE task'[t] = task[t]  BY <2>1, <2>3
  <2>4. CASE task'[t] # task[t]
    BY <2>1, <2>2, <2>4, UncontestedWrites, WritesInBudget, ClockType DEF RowActs
  <2> QED  BY <2>3, <2>4
<1>3. ASSUME NEW s \in Scan, Owns(s, t)', pc'[s] # "read"
      PROVE  job'[s].attempt = task'[t].attemptCount
  <2>0. ControlOK  BY DEF TypeOK, ControlOK
  <2>1. ASSUME ClaimDueTask(s), ~Owns(s, t) PROVE FALSE
    <3>1. GoTo(s, "read", job[s]) \/ Throw(s) \/ NextDue(s, work[s].due)
      BY <2>1 DEF ClaimDueTask, AnswerLost
    <3>2. CASE GoTo(s, "read", job[s])
      BY <1>3, <2>0, <3>2 DEF GoTo, ControlOK
    <3> QED  BY <1>3, <2>0, <2>1, <3>1, <3>2, ThrowOwns, NextOwns
  <2>2. Owns(s, t)  BY <1>3, <2>1, NoNewOwner
  <2>3. task'[t] = task[t]  BY <1>3, <2>2, OwnedRowStays
  <2>4. CASE Keeps(s)
    BY <1>1, <1>3, <2>2, <2>3, <2>4 DEF RetryBudget, Keeps
  <2>5. CASE FindTask(s)
    <3> DEFINE j == [job[s] EXCEPT !.attempt = task[job[s].id].attemptCount,
                                   !.runs = Len(runs[job[s].id])]
    <3>1. j.attempt = task[t].attemptCount
      BY <2>0, <2>2 DEF Owns, ControlOK, Job
    <3>2. job'[s] = j  BY <2>0, <2>5 DEF FindTask, GoTo, ControlOK
    <3> QED  BY <2>3, <3>1, <3>2
  <2>6. CASE CreateRunLog(s)
    <3>1. pc[s] # "read"  BY <2>6 DEF CreateRunLog
    <3>2. job[s].attempt = task[t].attemptCount
      BY <1>1, <2>2, <3>1 DEF RetryBudget
    <3>3. CASE Throw(s)
      <4>1. NextDue(s, work[s].due)  BY <2>6, <3>3 DEF CreateRunLog, Throw, RecoveryPC
      <4> QED  BY <1>3, <2>0, <4>1, NextOwns
    <3>4. ASSUME NEW m, GoTo(s, "wait", [job[s] EXCEPT !.run = m, !.timer = now])
          PROVE  job'[s].attempt = job[s].attempt
      BY <2>0, <3>4 DEF GoTo, ControlOK, Job
    <3> QED  BY <2>3, <2>6, <3>2, <3>3, <3>4 DEF CreateRunLog, AnswerLost
  <2> QED  BY <1>3, <2>2, <2>4, <2>5, <2>6, OwnerKeeps
<1> QED  BY <1>2, <1>3

(* maxRetries + 1 attempts per occurrence and no more, and the count a     *)
(* runner has read is still the row's when it decides on a retry: for any  *)
(* number of nodes, as long as the task is not contested.                  *)
THEOREM Budgeted == Spec => []RetryBudget
<1>1. Init => RetryBudget
  <2>1. \A t \in Task : MaxRetries[t] \in Nat  BY TaskAssumption
  <2> QED  BY <2>1 DEF Init, RetryBudget, CreatedRow, Owns, OwnerPC
<1> QED  BY <1>1, BudgetNext, TypeCorrect, Exclusive, PTL DEF Spec

ActsAsIfChecked ==
  [][\A t \in Task \ contested' : task'[t] # task[t] => RowActs(t)]_vars

(* The engine settles by copies read earlier and by updates that check     *)
(* nothing.  What it does to an uncontested row is nevertheless what       *)
(* updates would do that check for RUNNING and go by the row's own count   *)
(* of attempts: it is canceled, claimed, or settled in its current one.    *)
THEOREM WritesAsIfChecked == Spec => ActsAsIfChecked
<1>1. TypeOK /\ ExclusiveOwner /\ RetryBudget /\ [Next]_vars =>
        [\A t \in Task \ contested' : task'[t] # task[t] => RowActs(t)]_vars
  BY UncontestedWrites
<1> QED
  BY <1>1, TypeCorrect, Exclusive, Budgeted, PTL DEF Spec, ActsAsIfChecked

-----------------------------------------------------------------------------
(* The engine implements the life cycle.                                   *)

(* Every step writes at most one row, and contests no other task.          *)
OneRow(t) ==
  /\ task' = [task EXCEPT ![t] = task'[t]]
  /\ contested' \in {contested, contested \cup {t}}

LEMMA OneRowSteps ==
  ASSUME TypeOK, [Next]_vars
  PROVE  UNCHANGED <<task, contested>> \/ \E t \in Task : OneRow(t)
<1>1. ASSUME NEW t \in Task, NEW row, task' = [task EXCEPT ![t] = row],
             contested' \in {contested, contested \cup {t}}
      PROVE  OneRow(t)
  BY <1>1 DEF OneRow, TypeOK
<1>2. \A s \in Scan : pc[s] \in {"claim", "stuckTask", "succTask", "failTask"} =>
                        job[s].id \in Task
  BY DEF TypeOK, Working, OwnerPC, RecoveryPC
<1>3. ASSUME NEW s \in Scan, ClaimDueTask(s)
      PROVE  UNCHANGED <<task, contested>> \/ OneRow(job[s].id)
  BY <1>1, <1>2, <1>3 DEF ClaimDueTask
<1>4. ASSUME NEW s \in Scan,
             SettleStuckTask(s) \/ SettleSuccess(s) \/ SettleFailure(s)
      PROVE  job[s].id \in Task /\ OneRow(job[s].id)
  <2>1. job[s].id \in Task
    BY <1>2, <1>4 DEF SettleStuckTask, SettleSuccess, SettleFailure
  <2>2. CASE SettleStuckTask(s)
    BY <1>1, <2>1, <2>2 DEF SettleStuckTask
  <2>3. CASE SettleSuccess(s)
    BY <1>1, <2>1, <2>3 DEF SettleSuccess
  <2>4. CASE SettleFailure(s)
    BY <1>1, <2>1, <2>4 DEF SettleFailure
  <2> QED  BY <1>4, <2>1, <2>2, <2>3, <2>4
<1>5. ASSUME NEW t \in Task, Cancel(t) PROVE OneRow(t)
  BY <1>1, <1>5 DEF Cancel
<1>6. ASSUME NEW s \in Scan, ClaimDueTask(s) PROVE job[s].id \in Task
  BY <1>2, <1>6 DEF ClaimDueTask
<1> QED
  BY <1>3, <1>4, <1>5, <1>6
  DEF Next, Advance, Recover, Prepare, Timer, Conclude, Tick, StartScan,
      StatementFails, FindStuckTasks, CloseStuckRun, FindDueTasks, FindTask,
      CreateRunLog, DelayDone, ExecutorReturns, ExecutorThrows, TimerFires,
      TimerKillsNode, LeakedEnds, MarkRunSuccess, MarkRunFailed, Halt, Crash,
      Restart, vars

(* No statement pauses a task. *)
Unpaused == \A t \in Task : task[t].status # "PAUSED"

LEMMA UnpausedNext == TypeOK /\ Unpaused /\ [Next]_vars => Unpaused'
<1> SUFFICES ASSUME TypeOK, Unpaused, [Next]_vars, NEW t \in Task,
                    task'[t] # task[t]
             PROVE  task'[t].status # "PAUSED"
  BY DEF Unpaused
<1>1. task[t] \in TaskRow  BY DEF TypeOK
<1>2. CASE Cancel(t)
  BY <1>1, <1>2 DEF Cancel, CancelSet, TypeOK, TaskRow
<1>3. ASSUME NEW s \in Scan, job[s].id = t, ClaimDueTask(s),
             ClaimWhere(t, task[t], Clock(s))
      PROVE  task'[t].status # "PAUSED"
  <2>1. task'[t] = ClaimSet(task[t], Clock(s))  BY <1>3 DEF ClaimDueTask, TypeOK
  <2>2. ASSUME NEW m PROVE [task[t] EXCEPT !.status = "RUNNING",
                                           !.lastRunAt = Clock(s),
                                           !.attemptCount = m].status = "RUNNING"
    BY <1>1 DEF TaskRow
  <2> QED  BY <2>1, <2>2 DEF ClaimSet
<1>4. ASSUME NEW n, NEW a
      PROVE  /\ SucceededRow(t, task[t], n).status # "PAUSED"
             /\ FailedRow(t, task[t], a, n).status # "PAUSED"
  BY <1>1 DEF SucceededRow, FailedRow, RetryingSet, RescheduleSet, FailedSet,
              SuccessSet, TaskRow
<1>5. ASSUME NEW s \in Scan, job[s].id = t,
             SettleStuckTask(s) \/ SettleSuccess(s) \/ SettleFailure(s)
      PROVE  task'[t].status # "PAUSED"
  <2>1. \/ task'[t] = SucceededRow(t, task[t], Clock(s))
        \/ task'[t] = FailedRow(t, task[t], job[s].attempt, Clock(s))
    BY <1>5 DEF SettleStuckTask, SettleSuccess, SettleFailure, TypeOK
  <2> QED  BY <1>4, <2>1
<1> QED  BY <1>2, <1>3, <1>5, RowWriters

(* The variables of Lifecycle. *)
StatusOf == [t \in Task |-> task[t].status]
AttemptsOf == [t \in Task |-> task[t].attemptCount]

(* A row written with status st and count n, as Lifecycle sees it. *)
LEMMA RowBecomes ==
  ASSUME TypeOK, NEW t \in Task, OneRow(t)
  PROVE  /\ StatusOf' = [StatusOf EXCEPT ![t] = task'[t].status]
         /\ AttemptsOf' = [AttemptsOf EXCEPT ![t] = task'[t].attemptCount]
         /\ StatusOf[t] = task[t].status
         /\ AttemptsOf[t] = task[t].attemptCount
<1>1. \A u \in Task : task'[u] = IF u = t THEN task'[t] ELSE task[u]
  BY DEF OneRow, TypeOK
<1> QED  BY <1>1 DEF StatusOf, AttemptsOf

LEMMA LifecycleStep ==
  ASSUME TypeOK, ExclusiveOwner, RetryBudget, Unpaused, [Next]_vars
  PROVE  [L!Next]_(L!vars)
<1>1. CASE UNCHANGED <<task, contested>>  BY <1>1 DEF L!vars
<1>2. ASSUME NEW t \in Task, OneRow(t), t \in contested'
      PROVE  L!Contest(t)
  <2>1. contested' = contested \cup {t}  BY <1>2 DEF OneRow
  <2>2. \A u \in Task : task'[u] = IF u = t THEN task'[t] ELSE task[u]
    BY <1>2 DEF OneRow, TypeOK
  <2> QED  BY <2>1, <2>2 DEF L!Contest
<1>3. ASSUME NEW t \in Task, OneRow(t), t \notin contested',
             task'[t] # task[t]
      PROVE  L!Claim(t) \/ L!Succeed(t) \/ L!Fail(t) \/ L!Cancel(t)
  <2>0. contested' = contested /\ t \notin contested  BY <1>3 DEF OneRow
  <2> DEFINE r == task[t]
  <2>1. r \in TaskRow  BY DEF TypeOK
  <2>B. ASSUME NEW st, NEW n, task'[t].status = st, task'[t].attemptCount = n
        PROVE  /\ StatusOf' = [StatusOf EXCEPT ![t] = st]
               /\ AttemptsOf' = [AttemptsOf EXCEPT ![t] = n]
               /\ UNCHANGED contested
    BY <1>3, <2>0, <2>B, RowBecomes
  <2>R. StatusOf[t] = r.status /\ AttemptsOf[t] = r.attemptCount
    BY <1>3, RowBecomes
  <2>2. CASE CancelWhere(r) /\ task'[t] = CancelSet(r)
    <3>1. r.status \in {"PENDING", "RETRYING"}
      BY <2>2 DEF Unpaused, CancelWhere
    <3>2. task'[t].status = "CANCELED" /\ task'[t].attemptCount = r.attemptCount
      BY <2>1, <2>2, RowEffects
    <3> QED
      BY <2>B, <2>R, <3>1, <3>2 DEF L!Cancel, L!Becomes, StatusOf, AttemptsOf
  <2>3. ASSUME NEW n \in Nat, ClaimWhere(t, r, n), task'[t] = ClaimSet(r, n)
        PROVE  L!Claim(t)
    <3>1. r.status \in {"PENDING", "RETRYING"}  BY <2>3 DEF ClaimWhere
    <3>2. task'[t].status = "RUNNING" /\ task'[t].attemptCount = r.attemptCount + 1
      BY <2>1, <2>3, RowEffects
    <3> QED
      BY <2>B, <2>R, <3>1, <3>2 DEF L!Claim, L!Becomes, StatusOf, AttemptsOf
  <2>4. ASSUME NEW n \in Nat, r.status = "RUNNING",
               task'[t] = SucceededRow(t, r, n)
        PROVE  L!Succeed(t)
    <3>1. IF ScheduleKind(t) = "CRON"
          THEN task'[t].status = "PENDING" /\ task'[t].attemptCount = 0
          ELSE task'[t].status = "SUCCESS" /\ task'[t].attemptCount = r.attemptCount
      BY <2>1, <2>4, RowEffects
    <3> QED
      BY <2>4, <2>B, <2>R, <3>1 DEF L!Succeed, L!Becomes, StatusOf, AttemptsOf
  <2>5. ASSUME NEW n \in Nat, r.status = "RUNNING",
               task'[t] = FailedRow(t, r, r.attemptCount, n)
        PROVE  L!Fail(t)
    <3> DEFINE w == FailedRow(t, r, r.attemptCount, n)
    <3>1. IF r.attemptCount <= MaxRetries[t]
          THEN w.status = "RETRYING" /\ w.attemptCount = r.attemptCount
          ELSE IF ScheduleKind(t) = "CRON"
          THEN w.status = "PENDING" /\ w.attemptCount = 0
          ELSE w.status = "FAILED" /\ w.attemptCount = r.attemptCount
      BY <2>1, RowEffects
    <3>w. task'[t] = w  BY <2>5
    <3> HIDE DEF w
    <3>2. StatusOf[t] = "RUNNING" /\ AttemptsOf[t] = r.attemptCount
      BY <2>5, <2>R
    <3>3. CASE r.attemptCount <= MaxRetries[t]
      BY <2>B, <3>w, <3>1, <3>2, <3>3 DEF L!Fail, L!Becomes, StatusOf, AttemptsOf
    <3>4. CASE ~(r.attemptCount <= MaxRetries[t]) /\ ScheduleKind(t) = "CRON"
      BY <2>B, <3>w, <3>1, <3>2, <3>4 DEF L!Fail, L!Becomes, StatusOf, AttemptsOf
    <3>5. CASE ~(r.attemptCount <= MaxRetries[t]) /\ ScheduleKind(t) # "CRON"
      BY <2>B, <3>w, <3>1, <3>2, <3>5 DEF L!Fail, L!Becomes, StatusOf, AttemptsOf
    <3> QED  BY <3>3, <3>4, <3>5
  <2> QED  BY <1>3, <2>2, <2>3, <2>4, <2>5, UncontestedWrites, ClockType DEF RowActs
<1>4. ASSUME NEW t \in Task, OneRow(t), t \notin contested',
             task'[t] = task[t]
      PROVE  UNCHANGED <<task, contested>>
  BY <1>4 DEF OneRow, TypeOK
<1> QED  BY <1>1, <1>2, <1>3, <1>4, OneRowSteps DEF L!Next

(* Whatever the scans of any number of nodes do, each uncontested task is  *)
(* claimed, settled, retried within its budget or canceled, one at a time. *)
THEOREM EngineImplementsLifecycle == Spec => ImplementsLifecycle
<1>1. Init => L!Init
  BY DEF Init, L!Init, CreatedRow
<1>2. Init => Unpaused
  BY DEF Init, Unpaused, CreatedRow
<1>3. TypeOK /\ ExclusiveOwner /\ RetryBudget /\ Unpaused /\ [Next]_vars =>
        [L!Next]_(L!vars)
  BY LifecycleStep
<1> QED
  BY <1>1, <1>2, <1>3, UnpausedNext, TypeCorrect, Exclusive, Budgeted, PTL
  DEF Spec, ImplementsLifecycle, L!Spec

-----------------------------------------------------------------------------
(* Rest.                                                                   *)

(* s holds a copy of t that it may still recover. *)
Recovers(s, t) ==
  \/ pc[s] \in RecoveryPC /\ job[s].id = t
  \/ \E e \in work[s].stuck : e.id = t

LEMMA NextsDiffer ==
  ASSUME ControlOK, NEW s \in Scan, NEW rest, NextDue(s, rest)
  PROVE  ~NextStuck(s, rest)
<1>1. pc'[s] \in {"idle", "claim"}  BY DEF NextDue, ControlOK
<1>2. ASSUME NextStuck(s, rest)
      PROVE  pc'[s] \in {"findDue", "stuckTask", "stuckRun"}
  BY <1>2 DEF NextStuck, ControlOK
<1> QED  BY <1>1, <1>2

(* Going on with some of the stuck tasks a scan has read adds none. *)
LEMMA NextRecovers ==
  ASSUME ControlOK, NEW s \in Scan, NEW rest, NEW r \in Scan, NEW t \in Task,
         NextDue(s, rest) \/ NextStuck(s, rest), Recovers(r, t)'
  PROVE  \/ Recovers(r, t)
         \/ r = s /\ NextStuck(s, rest) /\ \E e \in rest : e.id = t
<1>1. CASE r # s
  BY <1>1 DEF Recovers, NextDue, NextStuck, ControlOK
<1>2. CASE r = s /\ NextDue(s, rest)
  <2>1. pc'[s] \in {"idle", "claim"}  BY <1>2 DEF NextDue, ControlOK
  <2>2. work'[s].stuck \in {{}, work[s].stuck}
    BY <1>2 DEF NextDue, ControlOK, Work, NoWork
  <2> QED  BY <1>2, <2>1, <2>2 DEF Recovers, RecoveryPC
<1>3. CASE r = s /\ NextStuck(s, rest)
  <2>1. CASE /\ rest = {}
             /\ pc' = [pc EXCEPT ![s] = "findDue"]
             /\ work' = [work EXCEPT ![s].stuck = {}]
    BY <1>3, <2>1 DEF Recovers, RecoveryPC, ControlOK, Work
  <2>2. ASSUME NEW e \in rest, NEW run,
               work' = [work EXCEPT ![s].stuck = rest \ {e}],
               job' = [job EXCEPT ![s] = [NoJob EXCEPT !.id = e.id,
                                            !.attempt = e.attempt, !.run = run]]
        PROVE  \E f \in rest : f.id = t
    <3>1. job'[s].id = e.id  BY <2>2 DEF ControlOK, NoJob
    <3>2. work'[s].stuck = rest \ {e}  BY <2>2 DEF ControlOK, Work
    <3> QED  BY <1>3, <2>2, <3>1, <3>2 DEF Recovers
  <2> QED  BY <1>3, <2>1, <2>2 DEF NextStuck
<1> QED  BY <1>1, <1>2, <1>3

(* The for loop of recoverStuckTasks goes on. *)
LEMMA LoopRecovers ==
  ASSUME ControlOK, NEW s \in Scan, NextStuck(s, work[s].stuck),
         NEW r \in Scan, NEW t \in Task, Recovers(r, t)'
  PROVE  Recovers(r, t)
<1>1. \/ Recovers(r, t)
      \/ r = s /\ \E e \in work[s].stuck : e.id = t
  BY NextRecovers
<1> QED  BY <1>1 DEF Recovers

LEMMA GoToRecovers ==
  ASSUME ControlOK, NEW s \in Scan, NEW label, NEW j, GoTo(s, label, j),
         label \in RecoveryPC => pc[s] \in RecoveryPC /\ j = job[s],
         NEW r \in Scan, NEW t \in Task, Recovers(r, t)'
  PROVE  Recovers(r, t)
BY DEF Recovers, GoTo, ControlOK

LEMMA ThrowRecovers ==
  ASSUME ControlOK, NEW s \in Scan, Throw(s),
         NEW r \in Scan, NEW t \in Task, Recovers(r, t)'
  PROVE  Recovers(r, t)
<1>1. ASSUME NEW label \in {"findDue", "failRun"}, NEW j, GoTo(s, label, j)
      PROVE  Recovers(r, t)
  BY <1>1, GoToRecovers DEF RecoveryPC
<1>2. CASE NextStuck(s, work[s].stuck)
  BY <1>2, LoopRecovers
<1>3. ASSUME NEW rest, NextDue(s, rest) PROVE Recovers(r, t)
  <2>1. ~NextStuck(s, rest)  BY <1>3, NextsDiffer
  <2> QED  BY <1>3, <2>1, NextRecovers
<1> QED  BY <1>1, <1>2, <1>3 DEF Throw

(* Only findStuckTasks starts a recovery, and only of a stuck task. *)
LEMMA NoNewRecovery ==
  ASSUME TypeOK, [Next]_vars, NEW r \in Scan, NEW t \in Task, Recovers(r, t)'
  PROVE  Recovers(r, t) \/ task[t].status = "RUNNING"
<1>0. ControlOK  BY DEF TypeOK, ControlOK
<1>1. ASSUME NEW s \in Scan, FindStuckTasks(s)
      PROVE  Recovers(r, t) \/ task[t].status = "RUNNING"
  <2> DEFINE found == {[id |-> u, attempt |-> task[u].attemptCount,
                        open |-> LatestOpen(u)] :
                       u \in {v \in Task : StuckWhere(v, task[v], work[s].at)}}
  <2>1. \A e \in found : task[e.id].status = "RUNNING"  BY DEF StuckWhere
  <2>2. NextStuck(s, found)  BY <1>1 DEF FindStuckTasks
  <2> HIDE DEF found
  <2> QED  BY <1>0, <2>1, <2>2, NextRecovers
<1>2. ASSUME NEW s \in Scan, NEW rest, NextDue(s, rest) PROVE Recovers(r, t)
  <2>1. ~NextStuck(s, rest)  BY <1>0, <1>2, NextsDiffer
  <2> QED  BY <1>0, <1>2, <2>1, NextRecovers
<1>3. ASSUME NEW s \in Scan, NEW label \in PC \ RecoveryPC, NEW j,
             GoTo(s, label, j)
      PROVE  Recovers(r, t)
  BY <1>0, <1>3, GoToRecovers
<1>4. {"read", "log", "wait", "exec", "succRun", "succTask", "failRun",
       "failTask"} \subseteq PC \ RecoveryPC
  BY DEF PC, Working, OwnerPC, RecoveryPC
<1>5. ASSUME NEW s \in Scan, CloseStuckRun(s) PROVE Recovers(r, t)
  <2>1. pc[s] \in RecoveryPC  BY <1>5 DEF CloseStuckRun, RecoveryPC
  <2> QED
    BY <1>0, <1>5, <2>1, GoToRecovers, ThrowRecovers DEF CloseStuckRun, AnswerLost
<1>6. ASSUME NEW s \in Scan, SettleStuckTask(s) PROVE Recovers(r, t)
  BY <1>0, <1>6, LoopRecovers DEF SettleStuckTask
<1>7. ASSUME NEW s \in Scan, FindDueTasks(s) \/ SettleFailure(s)
      PROVE  Recovers(r, t)
  BY <1>2, <1>7 DEF FindDueTasks, SettleFailure
<1>8. ASSUME NEW s \in Scan, ClaimDueTask(s) PROVE Recovers(r, t)
  BY <1>0, <1>2, <1>3, <1>4, <1>8, ThrowRecovers DEF ClaimDueTask, AnswerLost
<1>9. ASSUME NEW s \in Scan, FindTask(s) \/ CreateRunLog(s)
      PROVE  Recovers(r, t)
  BY <1>0, <1>3, <1>4, <1>9, ThrowRecovers DEF FindTask, CreateRunLog, AnswerLost
<1>10. ASSUME NEW s \in Scan, \/ DelayDone(s) \/ ExecutorReturns(s)
                              \/ ExecutorThrows(s) \/ TimerFires(s)
       PROVE  Recovers(r, t)
  BY <1>3, <1>4, <1>10
  DEF DelayDone, ExecutorReturns, ExecutorThrows, TimerFires
<1>11. ASSUME NEW s \in Scan, MarkRunSuccess(s) \/ MarkRunFailed(s)
       PROVE  Recovers(r, t)
  BY <1>0, <1>3, <1>4, <1>11, ThrowRecovers
  DEF MarkRunSuccess, MarkRunFailed, AnswerLost
<1>12. ASSUME NEW s \in Scan, SettleSuccess(s) \/ StatementFails(s)
       PROVE  Recovers(r, t)
  BY <1>0, <1>2, <1>12, ThrowRecovers
  DEF SettleSuccess, StatementFails, AnswerLost
<1>13. ASSUME NEW s \in Scan, StartScan(s) PROVE Recovers(r, t)
  <2>1. work'[r].stuck = work[r].stuck
    BY <1>0, <1>13 DEF StartScan, ControlOK, Work
  <2>2. r # s => pc'[r] = pc[r]  BY <1>0, <1>13 DEF StartScan, ControlOK
  <2>3. pc'[s] = "findStuck" /\ job'[r] = job[r]
    BY <1>0, <1>13 DEF StartScan, ControlOK
  <2> QED  BY <2>1, <2>2, <2>3 DEF Recovers, RecoveryPC
<1>14. ASSUME NEW n, Halt(n) PROVE Recovers(r, t)
  BY <1>14 DEF Halt, Recovers, RecoveryPC, NoWork
<1>15. ASSUME UNCHANGED <<pc, work, job>> PROVE Recovers(r, t)
  BY <1>15 DEF Recovers
<1>16. ASSUME NEW s \in Scan, TimerKillsNode(s) PROVE Recovers(r, t)
  BY <1>14, <1>16 DEF TimerKillsNode
<1>17. ASSUME NEW n \in Node, Crash(n) \/ Restart(n) PROVE Recovers(r, t)
  BY <1>14, <1>15, <1>17 DEF Crash, Restart
<1>18. ASSUME NEW e \in leaked, LeakedEnds(e) PROVE Recovers(r, t)
  BY <1>15, <1>18 DEF LeakedEnds
<1>19. ASSUME NEW u \in Task, Cancel(u) PROVE Recovers(r, t)
  BY <1>15, <1>19 DEF Cancel
<1>20. CASE Tick \/ UNCHANGED vars  BY <1>15, <1>20 DEF Tick, vars
<1> QED
  BY <1>1, <1>5, <1>6, <1>7, <1>8, <1>9, <1>10, <1>11, <1>12, <1>13, <1>16,
     <1>17, <1>18, <1>19, <1>20
  DEF Next, Advance, Recover, Prepare, Timer, Conclude

(* A finished or canceled task that nobody works on, or has read as stuck, *)
(* is left alone for ever, contested or not.                               *)
THEOREM RestsForGood == Spec => RestIsForGood
<1>1. ASSUME TypeOK, [Next]_vars, NEW t \in Task, AtRest(t)
      PROVE  AtRest(t)' /\ task'[t] = task[t]
  <2>1. ~Cancel(t) /\ \A s \in Scan : ~ClaimWhere(t, task[t], Clock(s))
    BY <1>1 DEF AtRest, Terminal, Cancel, CancelWhere, ClaimWhere
  <2>2. \A s \in Scan : ~Owns(s, t) /\ ~Recovers(s, t)
    BY <1>1 DEF AtRest, Unowned, InRecovery, Recovers
  <2>3. task'[t] = task[t]
    <3>1. SUFFICES ASSUME task'[t] # task[t] PROVE FALSE  OBVIOUS
    <3>2. PICK s \in Scan :
            /\ job[s].id = t
            /\ SettleStuckTask(s) \/ SettleSuccess(s) \/ SettleFailure(s)
      BY <1>1, <2>1, <3>1, RowWriters
    <3>3. Owns(s, t) \/ Recovers(s, t)
      BY <3>2 DEF SettleStuckTask, SettleSuccess, SettleFailure, Owns, OwnerPC,
                  Recovers, RecoveryPC
    <3> QED  BY <2>2, <3>3
  <2>4. \A s \in Scan : ~Owns(s, t)'  BY <1>1, <2>1, <2>2, NoNewOwner
  <2>5. \A s \in Scan : ~Recovers(s, t)'
    BY <1>1, <2>2, NoNewRecovery DEF AtRest, Terminal
  <2> QED
    BY <1>1, <2>3, <2>4, <2>5
    DEF AtRest, Terminal, Unowned, InRecovery, Recovers
<1>2. TypeOK /\ [Next]_vars =>
        [\A t \in Task : AtRest(t) => AtRest(t)' /\ task'[t] = task[t]]_vars
  BY <1>1
<1> QED  BY <1>2, TypeCorrect, PTL DEF Spec, RestIsForGood
-----------------------------------------------------------------------------
(* The retry delay.                                                        *)

(* s has t in its list of due tasks. *)
Lists(s, t) == \/ pc[s] = "claim" /\ job[s].id = t
               \/ \E e \in work[s].due : e.id = t

(* What a step does to the list of a scan: it lets go of some of it, of    *)
(* all, or stands before it.                                               *)
ListKept(s) == /\ work'[s].at = work[s].at
               /\ \A t \in Task : Lists(s, t)' => Lists(s, t)
               /\ pc'[s] = "idle" => pc[s] = "idle" /\ work'[s] = work[s]
ListGone(s) == pc'[s] = "idle" /\ work'[s] = NoWork

LEMMA GoToLists ==
  ASSUME ControlOK, NEW s \in Scan, NEW label, NEW j, GoTo(s, label, j),
         label \notin {"claim", "idle"}, NEW r \in Scan
  PROVE  ListKept(r)
BY DEF GoTo, ControlOK, ListKept, Lists

LEMMA NextStuckLists ==
  ASSUME ControlOK, NEW s \in Scan, NEW rest, NextStuck(s, rest), NEW r \in Scan
  PROVE  ListKept(r)
<1>0. PICK q : work' = [work EXCEPT ![s].stuck = q]  BY DEF NextStuck
<1>1. /\ work'[r].at = work[r].at /\ work'[r].due = work[r].due
      /\ r # s => work'[r] = work[r]
  BY <1>0 DEF ControlOK, Work
<1>2. IF r = s THEN pc'[r] \notin {"claim", "idle"}
               ELSE pc'[r] = pc[r] /\ job'[r] = job[r]
  BY DEF NextStuck, ControlOK
<1> QED  BY <1>1, <1>2 DEF ListKept, Lists

LEMMA NextDueLists ==
  ASSUME ControlOK, NEW s \in Scan, NEW rest \in SUBSET DueEntry,
         NextDue(s, rest), NEW r \in Scan
  PROVE  IF r # s THEN ListKept(r)
         ELSE \/ ListGone(r)
              \/ /\ work'[r].at = work[r].at /\ pc'[r] = "claim"
                 /\ \A t \in Task : Lists(r, t)' => \E e \in rest : e.id = t
<1>1. CASE r # s
  <2>1. pc'[r] = pc[r] /\ job'[r] = job[r] /\ work'[r] = work[r]
    BY <1>1 DEF NextDue, ControlOK
  <2> QED  BY <1>1, <2>1 DEF ListKept, Lists
<1>2. CASE r = s /\ rest = {}  BY <1>2 DEF NextDue, ControlOK, ListGone
<1>3. ASSUME r = s, NEW e \in rest,
             pc' = [pc EXCEPT ![s] = "claim"],
             work' = [work EXCEPT ![s].due = rest \ {e}],
             job' = [job EXCEPT ![s] = [NoJob EXCEPT !.id = e.id]]
      PROVE  /\ work'[r].at = work[r].at /\ pc'[r] = "claim"
             /\ \A t \in Task : Lists(r, t)' => \E f \in rest : f.id = t
  <2>1. job'[r].id = e.id
    <3>1. job'[s] = [NoJob EXCEPT !.id = e.id]  BY <1>3 DEF ControlOK
    <3> QED  BY <1>3, <3>1 DEF NoJob
  <2>2. /\ work'[r].at = work[r].at /\ pc'[r] = "claim"
        /\ work'[r].due = rest \ {e}
    BY <1>3 DEF ControlOK, Work
  <2> QED  BY <2>1, <2>2 DEF Lists
<1> QED  BY <1>1, <1>2, <1>3 DEF NextDue

LEMMA ThrowLists ==
  ASSUME ControlOK, NEW s \in Scan, Throw(s), NEW r \in Scan
  PROVE  ListKept(r) \/ ListGone(r)
<1>1. work[s].due \in SUBSET DueEntry /\ {} \in SUBSET DueEntry
  BY DEF ControlOK, Work
<1>2. CASE NextDue(s, work[s].due) \/ NextDue(s, {})
  BY <1>1, <1>2, NextDueLists DEF ListKept, Lists
<1> QED  BY <1>2, GoToLists, NextStuckLists DEF Throw

(* A list is filled by findDueTasks, and only shrinks after that. *)
LEMMA ListSteps ==
  ASSUME TypeOK, [Next]_vars, NEW s \in Scan
  PROVE  \/ ListKept(s)
         \/ ListGone(s)
         \/ /\ pc[s] = "idle" /\ pc'[s] = "findStuck"
            /\ work'[s] = [work[s] EXCEPT !.at = Clock(s)]
         \/ /\ work'[s].at = work[s].at /\ pc'[s] = "claim"
            /\ task' = task /\ contested' = contested
            /\ \A t \in Task : Lists(s, t)' => DueWhere(t, task[t], work[s].at)
<1> DEFINE Held == ListKept(s) \/ ListGone(s)
<1>0. ControlOK  BY DEF TypeOK, ControlOK
<1>1. \A r \in Scan : work[r].due \in SUBSET DueEntry  BY DEF TypeOK, Work
<1>2. ASSUME NEW r \in Scan, NextDue(r, work[r].due) PROVE Held
  BY <1>0, <1>1, <1>2, NextDueLists DEF ListKept, Lists
<1>3. ASSUME NEW r \in Scan, FindStuckTasks(r) \/ SettleStuckTask(r) PROVE Held
  BY <1>0, <1>3, NextStuckLists DEF FindStuckTasks, SettleStuckTask
<1>4. ASSUME NEW r \in Scan, CloseStuckRun(r) \/ ClaimDueTask(r) PROVE Held
  BY <1>0, <1>2, <1>4, GoToLists, ThrowLists
  DEF CloseStuckRun, ClaimDueTask, AnswerLost
<1>5. ASSUME NEW r \in Scan, FindTask(r) \/ CreateRunLog(r) PROVE Held
  BY <1>0, <1>5, GoToLists, ThrowLists DEF FindTask, CreateRunLog, AnswerLost
<1>6. ASSUME NEW r \in Scan, \/ DelayDone(r) \/ ExecutorReturns(r)
                             \/ ExecutorThrows(r) \/ TimerFires(r)
      PROVE  Held
  BY <1>0, <1>6, GoToLists
  DEF DelayDone, ExecutorReturns, ExecutorThrows, TimerFires
<1>7. ASSUME NEW r \in Scan, MarkRunSuccess(r) \/ MarkRunFailed(r) PROVE Held
  BY <1>0, <1>7, GoToLists, ThrowLists DEF MarkRunSuccess, MarkRunFailed, AnswerLost
<1>8. ASSUME NEW r \in Scan,
             SettleSuccess(r) \/ SettleFailure(r) \/ StatementFails(r)
      PROVE  Held
  BY <1>0, <1>2, <1>8, ThrowLists
  DEF SettleSuccess, SettleFailure, StatementFails, AnswerLost
<1>9. ASSUME NEW n, Halt(n) PROVE Held
  BY <1>9 DEF Halt, ListKept, ListGone, Lists
<1>10. ASSUME UNCHANGED <<pc, work, job>> PROVE Held
  BY <1>10 DEF ListKept, Lists
<1>11. CASE \/ Tick \/ \E t \in Task : Cancel(t)
            \/ \E e \in leaked : LeakedEnds(e)
            \/ \E n \in Node : Crash(n) \/ Restart(n)
            \/ \E r \in Scan : TimerKillsNode(r)
            \/ UNCHANGED vars
  BY <1>9, <1>10, <1>11
  DEF Tick, Cancel, LeakedEnds, Crash, Restart, TimerKillsNode, vars
<1>12. ASSUME NEW r \in Scan, StartScan(r)
       PROVE  \/ Held
              \/ /\ pc[s] = "idle" /\ pc'[s] = "findStuck"
                 /\ work'[s] = [work[s] EXCEPT !.at = Clock(s)]
  <2>1. CASE r = s  BY <1>0, <1>12, <2>1 DEF StartScan, ControlOK
  <2>2. CASE r # s
    BY <1>0, <1>12, <2>2 DEF StartScan, ControlOK, ListKept, Lists
  <2> QED  BY <2>1, <2>2
<1>13. ASSUME NEW r \in Scan, FindDueTasks(r)
       PROVE  \/ Held
              \/ /\ work'[s].at = work[s].at /\ pc'[s] = "claim"
                 /\ task' = task /\ contested' = contested
                 /\ \A t \in Task : Lists(s, t)' => DueWhere(t, task[t], work[s].at)
  <2>1. PICK batch \in SUBSET {t \in Task : DueWhere(t, task[t], work[r].at)} :
          NextDue(r, {[id |-> t, nextRunAt |-> task[t].nextRunAt] : t \in batch})
    BY <1>13 DEF FindDueTasks
  <2> DEFINE rest == {[id |-> t, nextRunAt |-> task[t].nextRunAt] : t \in batch}
  <2>2. rest \in SUBSET DueEntry  BY DEF DueEntry, TypeOK, TaskRow
  <2>3. \A e \in rest : DueWhere(e.id, task[e.id], work[r].at)  OBVIOUS
  <2>4. NextDue(r, rest)  BY <2>1
  <2> HIDE DEF rest
  <2>5. task' = task /\ contested' = contested  BY <1>13 DEF FindDueTasks
  <2> QED  BY <1>0, <2>2, <2>3, <2>4, <2>5, NextDueLists
<1> HIDE DEF Held
<1>14. Held => ListKept(s) \/ ListGone(s)  BY DEF Held
<1> QED
  BY <1>3, <1>4, <1>5, <1>6, <1>7, <1>8, <1>11, <1>12, <1>13, <1>14
  DEF Next, Advance, Recover, Prepare, Timer, Conclude

(* A list was read at an instant that has passed, and a task on it that    *)
(* has run is either due at that instant or was claimed after it.          *)
ListOK(s, t) ==
  Lists(s, t) /\ task[t].status \in {"RUNNING", "RETRYING"} =>
    \/ ListedBeforeAttempt(s, t)
    \/ task[t].status = "RETRYING" /\ Reached(task[t].nextRunAt, work[s].at)
ListInv ==
  \A s \in Scan : /\ work[s].at <= Clock(s)
                  /\ pc[s] = "idle" => work[s].due = {}
                  /\ \A t \in Task \ contested : ListOK(s, t)

LEMMA SettledKeepLease ==
  ASSUME NEW t \in Task, NEW r \in TaskRow, NEW n, NEW attempt
  PROVE  /\ SucceededRow(t, r, n).lastRunAt = r.lastRunAt
         /\ FailedRow(t, r, attempt, n).lastRunAt = r.lastRunAt
BY DEF SucceededRow, FailedRow, RetryingSet, RescheduleSet, FailedSet,
       SuccessSet, TaskRow

(* A task that stays listed. *)
LEMMA ListedOK ==
  ASSUME TypeOK, ExclusiveOwner, ListInv, [Next]_vars,
         NEW t \in Task \ contested', NEW s \in Scan,
         ListKept(s), Lists(s, t)'
  PROVE  ListOK(s, t)'
<1>1. t \in Task \ contested /\ contested \subseteq contested'
  BY ContestedGrows
<1>2. /\ Lists(s, t) /\ work'[s].at = work[s].at /\ ListOK(s, t)
      /\ work[s].at \in Nat /\ work[s].at <= Clock(s)
  BY <1>1 DEF ListKept, ListInv, TypeOK, Work
<1>3. CASE task'[t] = task[t]
  BY <1>2, <1>3 DEF ListOK, ListedBeforeAttempt
<1>4. CASE Cancel(t)
  <2>1. task'[t].status = "CANCELED"
    BY <1>4 DEF Cancel, CancelSet, TypeOK, TaskRow
  <2> QED  BY <2>1 DEF ListOK
<1>5. ASSUME NEW r \in Scan, job[r].id = t, ClaimDueTask(r),
             ClaimWhere(t, task[t], Clock(r))
      PROVE  ListOK(s, t)'
  <2>1. task'[t] = ClaimSet(task[t], Clock(r)) /\ task[t] \in TaskRow
    BY <1>5 DEF ClaimDueTask, TypeOK
  <2>2. ASSUME NEW m, NEW n
        PROVE [task[t] EXCEPT !.status = "RUNNING", !.lastRunAt = n,
                              !.attemptCount = m].lastRunAt = n
    BY <2>1 DEF TaskRow
  <2>3. task'[t].lastRunAt = Clock(r)  BY <2>1, <2>2 DEF ClaimSet
  <2>4. /\ NodeOf(r) \in Node /\ NodeOf(s) \in Node
        /\ Skew[NodeOf(r)] \in Nat /\ Skew[NodeOf(s)] \in Nat /\ now \in Nat
    BY EngineAssumption DEF NodeOf, Scan, TypeOK
  <2>5. work[s].at - Skew[NodeOf(s)] <= Clock(r) - Skew[NodeOf(r)]
    BY <1>2, <2>4 DEF Clock
  <2> QED  BY <1>2, <2>3, <2>4, <2>5 DEF ListOK, ListedBeforeAttempt
<1>6. ASSUME NEW r \in Scan, job[r].id = t,
             SettleStuckTask(r) \/ SettleSuccess(r) \/ SettleFailure(r)
      PROVE  ListOK(s, t)'
  <2>1. ListedBeforeAttempt(s, t)
    <3>1. task[t].status = "RUNNING"  BY <1>1, <1>6, SettlementReleases
    <3> QED  BY <1>2, <3>1 DEF ListOK
  <2>2. \/ task'[t] = SucceededRow(t, task[t], Clock(r))
        \/ task'[t] = FailedRow(t, task[t], job[r].attempt, Clock(r))
    BY <1>6 DEF SettleStuckTask, SettleSuccess, SettleFailure, TypeOK
  <2>3. task[t] \in TaskRow  BY DEF TypeOK
  <2>4. task'[t].lastRunAt = task[t].lastRunAt
    BY <2>2, <2>3, SettledKeepLease
  <2> QED  BY <1>2, <2>1, <2>4 DEF ListOK, ListedBeforeAttempt
<1> QED  BY <1>3, <1>4, <1>5, <1>6, RowWriters

LEMMA ClockGrows ==
  ASSUME TypeOK, [Next]_vars, NEW s \in Scan
  PROVE  /\ now \in Nat /\ Skew[NodeOf(s)] \in Nat
         /\ Clock(s) \in Nat /\ Clock(s)' \in Nat /\ Clock(s) <= Clock(s)'
<1>1. Skew[NodeOf(s)] \in Nat  BY EngineAssumption DEF NodeOf, Scan
<1>2. now' = now \/ Tick
  BY DEF Next, Advance, Recover, Prepare, Timer, Conclude,
         StartScan, StatementFails, FindStuckTasks, CloseStuckRun,
         FindDueTasks, FindTask, CreateRunLog, DelayDone, ExecutorReturns,
         ExecutorThrows, TimerFires, TimerKillsNode, LeakedEnds,
         MarkRunSuccess, MarkRunFailed, Halt, Crash, Restart, vars,
         SettleStuckTask, SettleSuccess, SettleFailure, Cancel, ClaimDueTask
<1>3. now \in Nat /\ now' \in Nat /\ now <= now'
  BY <1>2 DEF TypeOK, Tick
<1> QED  BY <1>1, <1>3 DEF Clock

LEMMA ListNext ==
  TypeOK /\ ExclusiveOwner /\ ListInv /\ [Next]_vars => ListInv'
<1> SUFFICES ASSUME TypeOK, ExclusiveOwner, ListInv, [Next]_vars, NEW s \in Scan
             PROVE  /\ work'[s].at <= Clock(s)'
                    /\ pc'[s] = "idle" => work'[s].due = {}
                    /\ \A t \in Task \ contested' : ListOK(s, t)'
  BY DEF ListInv
<1>0. /\ work[s].at <= Clock(s) /\ work[s] \in Work
      /\ pc[s] = "idle" => work[s].due = {}
  BY DEF ListInv, TypeOK
<1>1. /\ Clock(s) \in Nat /\ Clock(s)' \in Nat /\ Clock(s) <= Clock(s)'
  BY ClockGrows
<1>2. CASE ListKept(s)
  <2>1. \A t \in Task \ contested' : Lists(s, t)' => ListOK(s, t)'
    BY <1>2, ListedOK
  <2>2. \A t \in Task \ contested' : ListOK(s, t)'  BY <2>1 DEF ListOK
  <2>3. work[s].at \in Nat /\ work'[s].at = work[s].at
    BY <1>0, <1>2 DEF Work, ListKept
  <2> QED  BY <1>0, <1>1, <1>2, <2>2, <2>3 DEF ListKept
<1>3. CASE ListGone(s)
  <2>1. work'[s].at = 0 /\ work'[s].due = {} /\ pc'[s] # "claim"
    BY <1>3 DEF ListGone, NoWork
  <2> QED  BY <1>1, <2>1 DEF ListOK, Lists
<1>4. CASE /\ pc[s] = "idle" /\ pc'[s] = "findStuck"
           /\ work'[s] = [work[s] EXCEPT !.at = Clock(s)]
  <2>1. work'[s].at = Clock(s) /\ work'[s].due = {}  BY <1>0, <1>4 DEF Work
  <2> QED  BY <1>1, <1>4, <2>1 DEF ListOK, Lists
<1>5. CASE /\ work'[s].at = work[s].at /\ pc'[s] = "claim"
           /\ task' = task /\ contested' = contested
           /\ \A t \in Task : Lists(s, t)' => DueWhere(t, task[t], work[s].at)
  <2>1. work[s].at \in Nat  BY <1>0 DEF Work
  <2>2. \A t \in Task : ListOK(s, t)'  BY <1>5 DEF ListOK, DueWhere
  <2> QED  BY <1>0, <1>1, <1>5, <2>1, <2>2
<1> QED  BY <1>2, <1>3, <1>4, <1>5, ListSteps

LEMMA ListsKept == Spec => []ListInv
<1>1. Init => ListInv
  <2>1. ASSUME Init, NEW s \in Scan PROVE Clock(s) \in Nat
    BY <2>1, TypeInit, ClockType
  <2> QED  BY <2>1 DEF Init, ListInv, NoWork, ListOK, Lists
<1> QED  BY <1>1, ListNext, TypeCorrect, Exclusive, PTL DEF Spec

(* A retry delay is cut short only by a scan that had read its list before *)
(* the attempt that failed, whatever the clocks of the nodes differ by.    *)
THEOREM EarlyRetriesStale == Spec => EarlyRetryIsStale
<1>1. ASSUME TypeOK, ListInv, NEW t \in Task \ contested, NEW s \in Scan,
             EarlyClaim(s, t)
      PROVE  ListedBeforeAttempt(s, t)
  <2>1. ListOK(s, t) /\ Lists(s, t) /\ work[s].at <= Clock(s)
    BY <1>1 DEF ListInv, EarlyClaim, Lists
  <2>2. ~Reached(task[t].nextRunAt, work[s].at)
    <3>1. work[s].at \in Nat /\ Clock(s) \in Nat
      BY <1>1, ClockType DEF TypeOK, Work
    <3>2. task[t].nextRunAt \in Nat \cup {NoTime}
      BY <1>1 DEF TypeOK, TaskRow, Time
    <3> QED  BY <1>1, <2>1, <3>1, <3>2 DEF Reached, EarlyClaim
  <2> QED  BY <1>1, <2>1, <2>2 DEF ListOK, EarlyClaim
<1>2. TypeOK /\ ListInv /\ [Next]_vars =>
        [\A t \in Task \ contested, s \in Scan :
            EarlyClaim(s, t) => ListedBeforeAttempt(s, t)]_vars
  BY <1>1
<1> QED  BY <1>2, ListsKept, TypeCorrect, PTL DEF Spec, EarlyRetryIsStale
=============================================================================
