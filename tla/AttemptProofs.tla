--------------------------- MODULE AttemptProofs ---------------------------
(***************************************************************************)
(* Theorems about the attempts of Scheduler: the run logs tell them in     *)
(* order, their timers fire too late, and the conditions under which the   *)
(* lease of a claim is as good as a lock, so that no task is ever          *)
(* contested and none is executed twice.                                   *)
(***************************************************************************)
EXTENDS LifecycleProofs, FiniteSetTheorems

-----------------------------------------------------------------------------
(* The run logs: the inductive invariant says for each point of an attempt *)
(* which log may be open.                                                  *)

Numbered(t) == \A i \in DOMAIN runs[t] : runs[t][i].attemptNumber = i

(* What the owner s knows of the logs of t. *)
OwnerLogs(s, t) ==
  /\ pc[s] \in {"read", "log", "succTask", "failTask"} => OpenRuns(t) = {}
  /\ pc[s] = "log" => job[s].runs = Len(runs[t])
  /\ pc[s] \in {"wait", "exec", "succRun", "failRun"} =>
        OpenRuns(t) \subseteq {job[s].run}

LogInv ==
  \A t \in Task \ contested :
     /\ Numbered(t)
     /\ \A i, j \in OpenRuns(t) : i = j
     /\ OpenRuns(t) # {} => task[t].status = "RUNNING"
     /\ \A s \in Scan : Owns(s, t) => OwnerLogs(s, t)

-----------------------------------------------------------------------------
(* Who writes the logs, and how.                                           *)

Closes(s) == CloseStuckRun(s) \/ MarkRunSuccess(s) \/ MarkRunFailed(s)

LEMMA LogWriters ==
  ASSUME TypeOK, [Next]_vars, NEW t \in Task, runs'[t] # runs[t]
  PROVE  \E s \in Scan : job[s].id = t /\ (Closes(s) \/ CreateRunLog(s))
<1>1. ASSUME NEW s \in Scan, CreateRunLog(s) PROVE job[s].id = t
  BY <1>1 DEF CreateRunLog, TypeOK
<1>2. ASSUME NEW s \in Scan, NEW st,
             runs' = [runs EXCEPT ![job[s].id][job[s].run].status = st]
      PROVE  job[s].id = t
  BY <1>2 DEF TypeOK
<1>3. ASSUME NEW s \in Scan, Closes(s) PROVE job[s].id = t
  BY <1>2, <1>3 DEF Closes, CloseStuckRun, MarkRunSuccess, MarkRunFailed
<1>4. runs' # runs  OBVIOUS
<1> QED
  BY <1>1, <1>3, <1>4
  DEF Closes, Next, Advance, Recover, Prepare, Timer, Conclude, Tick, StartScan,
      StatementFails, FindStuckTasks, FindDueTasks, FindTask, DelayDone,
      ExecutorReturns, ExecutorThrows, TimerFires, TimerKillsNode, LeakedEnds,
      SettleStuckTask, SettleSuccess, SettleFailure, ClaimDueTask, Cancel,
      Halt, Crash, Restart, vars

(* Closing a log closes it and leaves the others and the numbers alone. *)
LEMMA ClosedLog ==
  ASSUME TypeOK, NEW s \in Scan, Closes(s), NEW t \in Task, job[s].id = t
  PROVE  /\ Len(runs'[t]) = Len(runs[t])
         /\ Numbered(t) => Numbered(t)'
         /\ OpenRuns(t)' = OpenRuns(t) \ {job[s].run}
<1> DEFINE i == job[s].run
<1>1. PICK st \in {"SUCCESS", "FAILED"} :
        runs' = [runs EXCEPT ![t][i].status = st]
  BY DEF Closes, CloseStuckRun, MarkRunSuccess, MarkRunFailed
<1>2. runs'[t] = [runs[t] EXCEPT ![i].status = st]  BY <1>1 DEF TypeOK
<1>3. runs[t] \in Seq(TaskRun)  BY DEF TypeOK
<1>4. DOMAIN runs'[t] = DOMAIN runs[t]  BY <1>2
<1>5. \A k \in DOMAIN runs[t] :
        /\ runs'[t][k].attemptNumber = runs[t][k].attemptNumber
        /\ k # i => runs'[t][k].status = runs[t][k].status
        /\ k = i => runs'[t][k].status = st
  BY <1>2, <1>3 DEF TaskRun
<1>6. runs'[t] \in Seq(TaskRun)
  <2>1. i \in Nat /\ st \in RunStatus  BY DEF TypeOK, Job, RunStatus
  <2> QED  BY <1>2, <1>3, <2>1, MarkedSeqType
<1>7. Len(runs'[t]) = Len(runs[t])  BY <1>3, <1>4, <1>6
<1>8. OpenRuns(t)' = OpenRuns(t) \ {i}  BY <1>4, <1>5 DEF OpenRuns
<1>9. Numbered(t) => Numbered(t)'  BY <1>4, <1>5 DEF Numbered
<1> QED  BY <1>7, <1>8, <1>9

(* createRunLog opens a log of its own, with the number the scan computed. *)
LEMMA OpenedLog ==
  ASSUME TypeOK, NEW s \in Scan, CreateRunLog(s), NEW t \in Task, job[s].id = t,
         OpenRuns(t) = {}, job[s].runs = Len(runs[t]), Numbered(t)
  PROVE  /\ Numbered(t)'
         /\ OpenRuns(t)' = {Len(runs[t]) + 1}
<1> DEFINE q == [status |-> "RUNNING", attemptNumber |-> job[s].runs + 1]
           n == Len(runs[t])
<1>1. runs[t] \in Seq(TaskRun) /\ n \in Nat  BY DEF TypeOK
<1>2. runs'[t] = Append(runs[t], q)  BY DEF CreateRunLog, TypeOK
<1>3. /\ DOMAIN runs[t] = 1 .. n
      /\ DOMAIN runs'[t] = 1 .. n + 1
      /\ \A k \in 1 .. n : runs'[t][k] = runs[t][k]
      /\ runs'[t][n + 1] = q
  BY <1>1, <1>2
<1>4. q.status = "RUNNING" /\ q.attemptNumber = n + 1  OBVIOUS
<1>5. Numbered(t)'  BY <1>1, <1>3, <1>4 DEF Numbered
<1>6. OpenRuns(t)' = {n + 1}  BY <1>1, <1>3, <1>4 DEF OpenRuns
<1> QED  BY <1>5, <1>6

-----------------------------------------------------------------------------
(* The three ways a step can treat the logs of an uncontested task.        *)

LEMMA LogCases ==
  ASSUME TypeOK, ExclusiveOwner, LogInv, [Next]_vars, NEW t \in Task \ contested'
  PROVE  \/ runs'[t] = runs[t]
         \/ \E s \in Scan : /\ Closes(s) /\ job[s].id = t
                            /\ task'[t] = task[t]
                            /\ Len(runs'[t]) = Len(runs[t])
                            /\ Numbered(t)'
                            /\ OpenRuns(t)' = OpenRuns(t) \ {job[s].run}
         \/ \E s \in Scan : /\ CreateRunLog(s) /\ job[s].id = t
                            /\ Owns(s, t) /\ task'[t] = task[t]
                            /\ Numbered(t)'
                            /\ OpenRuns(t)' = {Len(runs[t]) + 1}
<1>1. t \in Task \ contested  BY ContestedGrows
<1>2. ASSUME NEW s \in Scan, Closes(s), job[s].id = t
      PROVE  task'[t] = task[t]
  BY <1>2 DEF Closes, CloseStuckRun, MarkRunSuccess, MarkRunFailed
<1>3. ASSUME NEW s \in Scan, CreateRunLog(s), job[s].id = t
      PROVE  /\ Owns(s, t) /\ task'[t] = task[t]
             /\ OpenRuns(t) = {} /\ job[s].runs = Len(runs[t]) /\ Numbered(t)
  <2>1. Owns(s, t) /\ pc[s] = "log" /\ task'[t] = task[t]
    BY <1>3 DEF CreateRunLog, Owns, OwnerPC
  <2>2. OwnerLogs(s, t) /\ Numbered(t)  BY <1>1, <2>1 DEF LogInv
  <2> QED  BY <2>1, <2>2 DEF OwnerLogs
<1>4. Numbered(t)  BY <1>1 DEF LogInv
<1>5. ASSUME NEW s \in Scan, Closes(s), job[s].id = t
      PROVE  /\ Len(runs'[t]) = Len(runs[t])
             /\ Numbered(t)'
             /\ OpenRuns(t)' = OpenRuns(t) \ {job[s].run}
  BY <1>1, <1>4, <1>5, ClosedLog
<1>6. ASSUME NEW s \in Scan, CreateRunLog(s), job[s].id = t
      PROVE  Numbered(t)' /\ OpenRuns(t)' = {Len(runs[t]) + 1}
  BY <1>1, <1>3, <1>6, OpenedLog
<1> QED  BY <1>2, <1>3, <1>5, <1>6, LogWriters

(* A settlement of an uncontested task leaves no log open. *)
LEMMA SettledLogs ==
  ASSUME TypeOK, ExclusiveOwner, LogInv, [Next]_vars, NEW t \in Task \ contested',
         task'[t] # task[t]
  PROVE  OpenRuns(t) = {} /\ runs'[t] = runs[t]
<1>1. t \in Task \ contested  BY ContestedGrows
<1>2. CASE Cancel(t)
  BY <1>1, <1>2 DEF Cancel, CancelWhere, LogInv
<1>3. ASSUME NEW s \in Scan, job[s].id = t, ClaimDueTask(s),
             ClaimWhere(t, task[t], Clock(s))
      PROVE  OpenRuns(t) = {} /\ runs'[t] = runs[t]
  BY <1>1, <1>3 DEF ClaimDueTask, ClaimWhere, LogInv
<1>4. ASSUME NEW s \in Scan, job[s].id = t, SettleStuckTask(s)
      PROVE  OpenRuns(t) = {} /\ runs'[t] = runs[t]
  BY <1>4 DEF SettleStuckTask, Abandoned
<1>5. ASSUME NEW s \in Scan, job[s].id = t, SettleSuccess(s) \/ SettleFailure(s)
      PROVE  OpenRuns(t) = {} /\ runs'[t] = runs[t]
  <2>1. /\ Owns(s, t) /\ pc[s] \in {"succTask", "failTask"}
        /\ runs'[t] = runs[t]
    BY <1>5 DEF SettleSuccess, SettleFailure, Owns, OwnerPC
  <2> QED  BY <1>1, <2>1 DEF LogInv, OwnerLogs
<1> QED  BY <1>2, <1>3, <1>4, <1>5, RowWriters

-----------------------------------------------------------------------------
(* The owner's knowledge is kept.                                          *)

LEMMA NewOwnerLogs ==
  ASSUME TypeOK, LogInv, [Next]_vars, NEW t \in Task \ contested', NEW s \in Scan,
         ClaimDueTask(s), job[s].id = t, ClaimWhere(t, task[t], Clock(s)),
         Owns(s, t)'
  PROVE  OwnerLogs(s, t)'
<1>0. ControlOK /\ t \in Task \ contested
  BY ContestedGrows DEF TypeOK, ControlOK
<1>1. pc[s] = "claim" /\ ~Owns(s, t)
  BY DEF ClaimDueTask, Owns, OwnerPC
<1>2. GoTo(s, "read", job[s])
  BY <1>0, <1>1, ThrowOwns DEF ClaimDueTask, AnswerLost
<1>3. pc'[s] = "read" /\ runs' = runs
  BY <1>0, <1>2 DEF GoTo, ControlOK, ClaimDueTask
<1>4. OpenRuns(t) = {}  BY <1>0 DEF LogInv, ClaimWhere
<1> QED  BY <1>3, <1>4 DEF OwnerLogs, OpenRuns

LEMMA StayingOwnerLogs ==
  ASSUME TypeOK, ExclusiveOwner, LogInv, [Next]_vars, NEW t \in Task \ contested',
         NEW s \in Scan, Owns(s, t), Owns(s, t)', Stays(s)
  PROVE  OwnerLogs(s, t)'
<1>1. t \in Task \ contested  BY ContestedGrows
<1>2. OwnerLogs(s, t)  BY <1>1 DEF LogInv
<1>3. CASE runs'[t] = runs[t]
  BY <1>2, <1>3 DEF OwnerLogs, OpenRuns, Stays
<1>4. ASSUME NEW r \in Scan, Len(runs'[t]) = Len(runs[t]),
             OpenRuns(t)' = OpenRuns(t) \ {job[r].run}
      PROVE  OwnerLogs(s, t)'
  BY <1>2, <1>4 DEF OwnerLogs, Stays
<1>5. ASSUME NEW r \in Scan, CreateRunLog(r), Owns(r, t) PROVE FALSE
  <2>1. r = s  BY <1>1, <1>5 DEF ExclusiveOwner
  <2>2. ControlOK /\ pc[s] = "log"
    BY <1>5, <2>1 DEF CreateRunLog, TypeOK, ControlOK
  <2>3. CASE Throw(s)
    BY <2>2, <2>3, ThrowToCatch
  <2>4. ASSUME NEW j, GoTo(s, "wait", j) PROVE FALSE
    BY <2>2, <2>4 DEF GoTo, Stays, ControlOK
  <2> QED  BY <1>5, <2>1, <2>3, <2>4 DEF CreateRunLog, AnswerLost
<1> QED  BY <1>3, <1>4, <1>5, LogCases

LEMMA MovingOwnerLogs ==
  ASSUME TypeOK, ExclusiveOwner, LogInv, [Next]_vars, NEW t \in Task \ contested',
         NEW s \in Scan, Owns(s, t), Owns(s, t)', OwnStep(s)
  PROVE  OwnerLogs(s, t)'
<1>0. /\ ControlOK /\ t \in Task \ contested /\ pc[s] \in OwnerPC
      /\ job[s].id = t
  BY ContestedGrows DEF TypeOK, ControlOK, Owns
<1>1. OwnerLogs(s, t)  BY <1>0 DEF LogInv
<1>2. ASSUME NEW label, NEW j, GoTo(s, label, j)
      PROVE  pc'[s] = label /\ job'[s] = j
  BY <1>0, <1>2 DEF GoTo, ControlOK
<1>3. ASSUME runs' = runs, GoTo(s, "failRun", job[s]),
             pc[s] \in {"exec", "succRun", "succTask"}
      PROVE  OwnerLogs(s, t)'
  BY <1>1, <1>2, <1>3 DEF OwnerLogs, OpenRuns
<1>4. CASE FindTask(s)
  <2> DEFINE j == [job[s] EXCEPT !.attempt = task[job[s].id].attemptCount,
                                 !.runs = Len(runs[job[s].id])]
  <2>1. j.runs = Len(runs[t])  BY <1>0 DEF ControlOK, Job
  <2>2. GoTo(s, "log", j) /\ pc[s] = "read" /\ runs' = runs
    BY <1>4 DEF FindTask
  <2> HIDE DEF j
  <2>3. pc'[s] = "log" /\ job'[s].runs = Len(runs[t])  BY <1>2, <2>1, <2>2
  <2> QED  BY <1>1, <2>2, <2>3 DEF OwnerLogs, OpenRuns
<1>5. CASE CreateRunLog(s)
  <2> DEFINE n == Len(runs[t]) + 1
             j == [job[s] EXCEPT !.run = n, !.timer = now]
  <2>1. pc[s] = "log"  BY <1>5 DEF CreateRunLog
  <2>2. OpenRuns(t)' = {n}
    <3>1. OpenRuns(t) = {} /\ job[s].runs = Len(runs[t])
      BY <1>1, <2>1 DEF OwnerLogs
    <3>2. Numbered(t)  BY <1>0 DEF LogInv
    <3> QED  BY <1>0, <1>5, <3>1, <3>2, OpenedLog
  <2>3. ~Throw(s)  BY <1>0, <2>1, ThrowToCatch
  <2>4. ASSUME NEW m PROVE [job[s] EXCEPT !.run = m, !.timer = now].run = m
    BY <1>0 DEF ControlOK, Job
  <2>5. j.run = n  BY <2>4
  <2>6. GoTo(s, "wait", j)
    BY <1>0, <1>5, <2>3 DEF CreateRunLog, AnswerLost
  <2> HIDE DEF j
  <2>7. pc'[s] = "wait" /\ job'[s].run = n  BY <1>2, <2>5, <2>6
  <2> QED  BY <2>2, <2>7 DEF OwnerLogs
<1>6. CASE DelayDone(s) \/ ExecutorReturns(s)
  BY <1>1, <1>2, <1>6 DEF DelayDone, ExecutorReturns, OwnerLogs, OpenRuns
<1>7. CASE ExecutorThrows(s) \/ TimerFires(s)
  BY <1>3, <1>7 DEF ExecutorThrows, TimerFires
<1>8. CASE MarkRunSuccess(s) \/ MarkRunFailed(s)
  <2>1. pc[s] \in {"succRun", "failRun"}
    BY <1>8 DEF MarkRunSuccess, MarkRunFailed
  <2>2. OpenRuns(t)' = {}
    <3>1. Closes(s)  BY <1>8 DEF Closes
    <3>2. OpenRuns(t)' = OpenRuns(t) \ {job[s].run}  BY <1>0, <3>1, ClosedLog
    <3>3. OpenRuns(t) \subseteq {job[s].run}  BY <1>1, <2>1 DEF OwnerLogs
    <3> QED  BY <3>2, <3>3
  <2>3. \/ GoTo(s, "succTask", job[s]) \/ GoTo(s, "failTask", job[s])
        \/ GoTo(s, "failRun", job[s])
    BY <1>0, <1>8, ThrowToCatch DEF MarkRunSuccess, MarkRunFailed, AnswerLost
  <2>4. pc'[s] \in {"succTask", "failTask", "failRun"}  BY <1>2, <2>3
  <2> QED  BY <2>2, <2>4 DEF OwnerLogs
<1>9. CASE SettleSuccess(s)
  <2>1. ~NextDue(s, work[s].due)  BY <1>0, NextOwns
  <2> QED  BY <1>0, <1>9, <2>1 DEF SettleSuccess
<1>10. CASE StatementFails(s)
  BY <1>0, <1>3, <1>10, ThrowToCatch DEF StatementFails
<1> QED  BY <1>4, <1>5, <1>6, <1>7, <1>8, <1>9, <1>10 DEF OwnStep

-----------------------------------------------------------------------------
LEMMA LogInvNext ==
  TypeOK /\ ExclusiveOwner /\ LogInv /\ [Next]_vars => LogInv'
<1> SUFFICES ASSUME TypeOK, ExclusiveOwner, LogInv, [Next]_vars,
                    NEW t \in Task \ contested'
             PROVE  /\ Numbered(t)'
                    /\ \A i, j \in OpenRuns(t)' : i = j
                    /\ OpenRuns(t)' # {} => task'[t].status = "RUNNING"
                    /\ \A s \in Scan : Owns(s, t)' => OwnerLogs(s, t)'
  BY DEF LogInv
<1>1. t \in Task \ contested  BY ContestedGrows
<1>2. /\ Numbered(t)
      /\ \A i, j \in OpenRuns(t) : i = j
      /\ OpenRuns(t) # {} => task[t].status = "RUNNING"
  BY <1>1 DEF LogInv
<1>3. /\ Numbered(t)'
      /\ \A i, j \in OpenRuns(t)' : i = j
      /\ OpenRuns(t)' # {} => task'[t].status = "RUNNING"
  <2>1. CASE task'[t] # task[t]
    <3>1. OpenRuns(t) = {} /\ runs'[t] = runs[t]  BY <2>1, SettledLogs
    <3> QED  BY <1>2, <3>1 DEF Numbered, OpenRuns
  <2>2. CASE runs'[t] = runs[t] /\ task'[t] = task[t]
    BY <1>2, <2>2 DEF Numbered, OpenRuns
  <2>3. ASSUME NEW s \in Scan, task'[t] = task[t], Numbered(t)',
               OpenRuns(t)' = OpenRuns(t) \ {job[s].run}
        PROVE  /\ \A i, j \in OpenRuns(t)' : i = j
               /\ OpenRuns(t)' # {} => task'[t].status = "RUNNING"
    BY <1>2, <2>3
  <2>4. ASSUME NEW s \in Scan, Owns(s, t), task'[t] = task[t],
               OpenRuns(t)' = {Len(runs[t]) + 1}
        PROVE  /\ \A i, j \in OpenRuns(t)' : i = j
               /\ OpenRuns(t)' # {} => task'[t].status = "RUNNING"
    BY <1>1, <2>4 DEF ExclusiveOwner
  <2> QED  BY <2>1, <2>2, <2>3, <2>4, LogCases
<1>4. ASSUME NEW s \in Scan, Owns(s, t)' PROVE OwnerLogs(s, t)'
  BY <1>4, NoNewOwner, OwnerMoves, NewOwnerLogs, StayingOwnerLogs,
     MovingOwnerLogs
<1> QED  BY <1>3, <1>4

LEMMA LogsKept == Spec => []LogInv
<1>1. Init => LogInv
  BY DEF Init, LogInv, Numbered, OpenRuns, Owns, OwnerPC
<1> QED  BY <1>1, LogInvNext, TypeCorrect, Exclusive, PTL DEF Spec

-----------------------------------------------------------------------------
(* The run logs and the count of attempts.                                 *)

(* What an owner that remains one has done. *)
LEMMA OwnerPath ==
  ASSUME TypeOK, [Next]_vars, NEW s \in Scan, NEW t \in Task,
         Owns(s, t), Owns(s, t)', OwnStep(s)
  PROVE  \/ pc[s] = "read" /\ pc'[s] = "log" /\ FindTask(s)
         \/ /\ pc[s] = "log" /\ pc'[s] = "wait" /\ job'[s].timer = now
            /\ CreateRunLog(s)
         \/ /\ {pc[s], pc'[s]} \cap {"read", "log"} = {}
            /\ job'[s] = job[s]
<1>0. ControlOK  BY DEF TypeOK, ControlOK
<1>1. ASSUME NEW label, NEW j, GoTo(s, label, j)
      PROVE  pc'[s] = label /\ job'[s] = j
  BY <1>0, <1>1 DEF GoTo, ControlOK
<1>2. CASE Throw(s)
  <2>1. pc[s] \in {"succRun", "succTask"} /\ GoTo(s, "failRun", job[s])
    BY <1>0, <1>2, ThrowToCatch
  <2> QED  BY <1>1, <2>1
<1>3. CASE FindTask(s)  BY <1>1, <1>3 DEF FindTask
<1>4. CASE CreateRunLog(s) /\ ~Throw(s)
  <2>1. ASSUME NEW m, NEW j, j = [job[s] EXCEPT !.run = m, !.timer = now]
        PROVE  j.timer = now
    BY <1>0, <2>1 DEF ControlOK, Job
  <2>2. \E m : GoTo(s, "wait", [job[s] EXCEPT !.run = m, !.timer = now])
    BY <1>4 DEF CreateRunLog, AnswerLost
  <2>3. pc'[s] = "wait" /\ job'[s].timer = now  BY <1>1, <2>1, <2>2
  <2> QED  BY <1>4, <2>3 DEF CreateRunLog
<1>5. CASE DelayDone(s) \/ ExecutorReturns(s)
  BY <1>1, <1>5 DEF DelayDone, ExecutorReturns
<1>6. CASE ExecutorThrows(s) \/ TimerFires(s)
  BY <1>1, <1>6 DEF ExecutorThrows, TimerFires
<1>7. CASE (MarkRunSuccess(s) \/ MarkRunFailed(s)) /\ ~Throw(s)
  BY <1>1, <1>7 DEF MarkRunSuccess, MarkRunFailed, AnswerLost
<1>8. CASE (SettleSuccess(s) \/ StatementFails(s)) /\ ~Throw(s)
  BY <1>0, <1>8, NextOwns DEF SettleSuccess, StatementFails, AnswerLost
<1> QED  BY <1>2, <1>3, <1>4, <1>5, <1>6, <1>7, <1>8 DEF OwnStep

(* A statement never lowers the count of attempts of a ONCE task, and a    *)
(* claim raises it.                                                        *)
LEMMA CountGrows ==
  ASSUME TypeOK, ExclusiveOwner, RetryBudget, [Next]_vars,
         NEW t \in Task \ contested', ScheduleKind(t) = "ONCE"
  PROVE  /\ task[t].attemptCount \in Nat /\ task'[t].attemptCount \in Nat
         /\ task[t].attemptCount <= task'[t].attemptCount
<1>1. task[t] \in TaskRow /\ task[t].attemptCount \in Nat
  BY DEF TypeOK, TaskRow
<1>2. CASE task'[t] = task[t]  BY <1>1, <1>2
<1>3. CASE task'[t] # task[t]
  <2>1. RowActs(t)  BY <1>3, UncontestedWrites
  <2>2. task'[t].attemptCount \in {task[t].attemptCount, task[t].attemptCount + 1}
    BY <1>1, <2>1, ClockType, RowEffects DEF RowActs
  <2> QED  BY <1>1, <2>2
<1> QED  BY <1>2, <1>3

(* createRunLog adds a log; nothing else changes how many there are. *)
LEMMA LogsGrow ==
  ASSUME TypeOK, [Next]_vars, NEW t \in Task
  PROVE  /\ Len(runs[t]) \in Nat
         /\ \/ Len(runs'[t]) = Len(runs[t])
            \/ \E s \in Scan : /\ CreateRunLog(s) /\ job[s].id = t
                               /\ Len(runs'[t]) = Len(runs[t]) + 1
<1>1. runs[t] \in Seq(TaskRun) /\ Len(runs[t]) \in Nat  BY DEF TypeOK
<1>2. ASSUME NEW s \in Scan, job[s].id = t, CreateRunLog(s)
      PROVE  Len(runs'[t]) = Len(runs[t]) + 1
  <2>1. PICK q : runs'[t] = Append(runs[t], q)
    BY <1>2 DEF CreateRunLog, TypeOK
  <2> QED  BY <1>1, <2>1
<1>3. CASE runs'[t] = runs[t]  BY <1>1, <1>3
<1>4. CASE runs'[t] # runs[t]
  BY <1>1, <1>2, <1>4, LogWriters, ClosedLog
<1> QED  BY <1>3, <1>4

(* An attempt of a ONCE task is counted before its log is written. *)
CountInv ==
  \A t \in Task \ contested : ScheduleKind(t) = "ONCE" =>
     /\ Len(runs[t]) <= task[t].attemptCount
     /\ \A s \in Scan : Owns(s, t) /\ pc[s] \in {"read", "log"} =>
           Len(runs[t]) < task[t].attemptCount

LEMMA CountNext ==
  TypeOK /\ ExclusiveOwner /\ RetryBudget /\ CountInv /\ [Next]_vars => CountInv'
<1> SUFFICES ASSUME TypeOK, ExclusiveOwner, RetryBudget, CountInv, [Next]_vars,
                    NEW t \in Task \ contested', ScheduleKind(t) = "ONCE"
             PROVE  /\ Len(runs'[t]) <= task'[t].attemptCount
                    /\ \A s \in Scan : Owns(s, t)' /\ pc'[s] \in {"read", "log"} =>
                          Len(runs'[t]) < task'[t].attemptCount
  BY DEF CountInv, ScheduleKind
<1>0. t \in Task \ contested /\ ControlOK
  BY ContestedGrows DEF TypeOK, ControlOK
<1>1. /\ task[t].attemptCount \in Nat /\ task'[t].attemptCount \in Nat
      /\ task[t].attemptCount <= task'[t].attemptCount
      /\ Len(runs[t]) \in Nat
  BY CountGrows, LogsGrow
<1>2. /\ Len(runs[t]) <= task[t].attemptCount
      /\ \A s \in Scan : Owns(s, t) /\ pc[s] \in {"read", "log"} =>
            Len(runs[t]) < task[t].attemptCount
  BY <1>0 DEF CountInv
<1>3. CASE Len(runs'[t]) = Len(runs[t])
  <2>1. ASSUME NEW s \in Scan, Owns(s, t)', pc'[s] \in {"read", "log"}
        PROVE  Len(runs[t]) < task'[t].attemptCount
    <3>1. CASE Owns(s, t) /\ pc[s] \in {"read", "log"}  BY <1>1, <1>2, <3>1
    <3>2. CASE Owns(s, t) /\ pc[s] \notin {"read", "log"}
      BY <2>1, <3>2, OwnerMoves, OwnerPath DEF Stays
    <3>3. CASE /\ ClaimDueTask(s) /\ job[s].id = t
               /\ ClaimWhere(t, task[t], Clock(s))
      <4>1. task'[t] = ClaimSet(task[t], Clock(s)) /\ task[t] \in TaskRow
        BY <3>3 DEF ClaimDueTask, TypeOK
      <4>2. task'[t].attemptCount = task[t].attemptCount + 1
        BY <4>1, ClockType, RowEffects
      <4> QED  BY <1>1, <1>2, <4>2
    <3> QED  BY <2>1, <3>1, <3>2, <3>3, NoNewOwner
  <2> QED  BY <1>1, <1>2, <1>3, <2>1
<1>4. ASSUME NEW r \in Scan, CreateRunLog(r), job[r].id = t,
             Len(runs'[t]) = Len(runs[t]) + 1
      PROVE  /\ Len(runs'[t]) <= task'[t].attemptCount
             /\ \A s \in Scan : ~(Owns(s, t)' /\ pc'[s] \in {"read", "log"})
  <2>1. pc[r] = "log" /\ Owns(r, t)  BY <1>4 DEF CreateRunLog, Owns, OwnerPC
  <2>2. Len(runs'[t]) <= task'[t].attemptCount  BY <1>1, <1>2, <1>4, <2>1
  <2>3. ASSUME NEW s \in Scan, Owns(s, t)' PROVE pc'[s] \notin {"read", "log"}
    <3>1. Owns(s, t)
      BY <1>4, <2>3, NoNewOwner, <1>0, <2>1 DEF ClaimWhere, ExclusiveOwner
    <3>2. s = r  BY <1>0, <2>1, <3>1 DEF ExclusiveOwner
    <3>3. OwnStep(s)  BY <1>4, <3>2 DEF OwnStep
    <3> QED  BY <2>1, <2>3, <3>1, <3>2, <3>3, OwnerPath
  <2> QED  BY <2>2, <2>3
<1> QED  BY <1>3, <1>4, LogsGrow

LEMMA CountsKept == Spec => []CountInv
<1>1. Init => CountInv
  <2> SUFFICES ASSUME Init, NEW t \in Task
               PROVE  /\ Len(runs[t]) <= task[t].attemptCount
                      /\ \A s \in Scan : ~Owns(s, t)
    BY DEF CountInv
  <2>1. runs[t] = << >> /\ task[t].attemptCount = 0
    BY DEF Init, CreatedRow
  <2> QED  BY <2>1 DEF Init, Owns, OwnerPC
<1> QED  BY <1>1, CountNext, TypeCorrect, Exclusive, Budgeted, PTL DEF Spec

(* The run logs of an uncontested task are numbered by rank, at most one   *)
(* is open, and only while the task is RUNNING; those of a ONCE task are   *)
(* no more than its row counts attempts: for any number of nodes and       *)
(* attempts, wherever a node crashes or a statement fails.                 *)
THEOREM LogsFaithful == Spec => []RunLogFaithful
<1>1. LogInv /\ CountInv => RunLogFaithful
  BY DEF LogInv, CountInv, Numbered, RunLogFaithful
<1> QED  BY <1>1, LogsKept, CountsKept, PTL

LogsBounded ==
  \A t \in Task \ contested : ScheduleKind(t) = "ONCE" =>
     Len(runs[t]) <= MaxRetries[t] + 1

(* A ONCE task is given to its executor maxRetries + 1 times at most,      *)
(* however many claims are lost to crashes: an execution needs a log of    *)
(* its own, a log needs a counted attempt, and the count is bounded.       *)
THEOREM ExecutionsBounded == Spec => []LogsBounded
<1>1. TypeOK /\ CountInv /\ RetryBudget => LogsBounded
  <2> SUFFICES ASSUME TypeOK, CountInv, RetryBudget, NEW t \in Task \ contested,
                      ScheduleKind(t) = "ONCE"
               PROVE  Len(runs[t]) <= MaxRetries[t] + 1
    BY DEF LogsBounded
  <2>1. /\ Len(runs[t]) <= task[t].attemptCount
        /\ task[t].attemptCount <= MaxRetries[t] + 1
    BY DEF CountInv, RetryBudget
  <2>2. /\ Len(runs[t]) \in Nat /\ task[t].attemptCount \in Nat
        /\ MaxRetries[t] \in Nat
    BY TaskAssumption DEF TypeOK, TaskRow
  <2> QED  BY <2>1, <2>2
<1> QED  BY <1>1, TypeCorrect, CountsKept, Budgeted, PTL
-----------------------------------------------------------------------------
(* The timer of an attempt and the lease of its claim.                     *)

(* The lease starts with the claim, the timer after the insert of the log. *)
LeaseStarted(s, t) ==
  /\ task[t].lastRunAt \in Nat
  /\ pc[s] \in {"read", "log"} => task[t].lastRunAt <= Clock(s)
  /\ pc[s] \notin {"read", "log"} =>
        task[t].lastRunAt <= job[s].timer + Skew[NodeOf(s)]

LeaseInv ==
  \A t \in Task \ contested, s \in Scan : Owns(s, t) => LeaseStarted(s, t)

LEMMA LeaseNext ==
  TypeOK /\ ExclusiveOwner /\ LeaseInv /\ [Next]_vars => LeaseInv'
<1> SUFFICES ASSUME TypeOK, ExclusiveOwner, LeaseInv, [Next]_vars,
                    NEW t \in Task \ contested', NEW s \in Scan, Owns(s, t)'
             PROVE  LeaseStarted(s, t)'
  BY DEF LeaseInv
<1>0. /\ ControlOK /\ t \in Task \ contested
      /\ now \in Nat /\ Skew[NodeOf(s)] \in Nat
      /\ Clock(s) \in Nat /\ Clock(s)' \in Nat /\ Clock(s) <= Clock(s)'
  BY ContestedGrows, ClockGrows DEF TypeOK, ControlOK
<1>1. CASE /\ ~Owns(s, t) /\ ClaimDueTask(s) /\ job[s].id = t
           /\ ClaimWhere(t, task[t], Clock(s))
  <2>1. GoTo(s, "read", job[s])
    BY <1>0, <1>1, ThrowOwns DEF ClaimDueTask, AnswerLost
  <2>2. pc'[s] = "read" /\ now' = now
    BY <1>0, <1>1, <2>1 DEF GoTo, ControlOK, ClaimDueTask
  <2>3. task'[t] = ClaimSet(task[t], Clock(s)) /\ task[t] \in TaskRow
    BY <1>1 DEF ClaimDueTask, TypeOK
  <2>4. ASSUME NEW m
        PROVE  [task[t] EXCEPT !.status = "RUNNING", !.lastRunAt = Clock(s),
                               !.attemptCount = m].lastRunAt = Clock(s)
    BY <2>3 DEF TaskRow
  <2>5. task'[t].lastRunAt = Clock(s)  BY <2>3, <2>4 DEF ClaimSet
  <2> QED  BY <1>0, <2>2, <2>5 DEF LeaseStarted
<1>2. CASE Owns(s, t)
  <2>1. task'[t] = task[t]  BY <1>2, OwnedRowStays
  <2>2. LeaseStarted(s, t)  BY <1>0, <1>2 DEF LeaseInv
  <2>3. CASE Stays(s)
    BY <1>0, <2>1, <2>2, <2>3 DEF LeaseStarted, Stays
  <2>4. CASE pc[s] = "read" /\ pc'[s] = "log"
    BY <1>0, <2>1, <2>2, <2>4 DEF LeaseStarted
  <2>5. CASE pc[s] = "log" /\ pc'[s] = "wait" /\ job'[s].timer = now
    BY <1>0, <2>1, <2>2, <2>5 DEF LeaseStarted, Clock
  <2>6. CASE /\ {pc[s], pc'[s]} \cap {"read", "log"} = {}
             /\ job'[s] = job[s]
    BY <2>1, <2>2, <2>6 DEF LeaseStarted
  <2> QED  BY <1>2, <2>3, <2>4, <2>5, <2>6, OwnerMoves, OwnerPath
<1> QED  BY <1>1, <1>2, NoNewOwner

LEMMA LeasesKept == Spec => []LeaseInv
<1>1. Init => LeaseInv
  BY DEF Init, LeaseInv, Owns, OwnerPC
<1> QED  BY <1>1, LeaseNext, TypeCorrect, Exclusive, PTL DEF Spec

(* The timer of an attempt has run out, in either of its two forms. *)
TimesOut(s, t) == job[s].id = t /\ (TimerFires(s) \/ TimerKillsNode(s))

(* When the timer of an attempt runs out, the lease of its claim is over.  *)
LEMMA TimerAfterLease ==
  ASSUME TypeOK, ExclusiveOwner, LeaseInv, NEW s \in Scan,
         NEW t \in Task \ contested, TimesOut(s, t)
  PROVE  Owns(s, t) /\ StuckWhere(t, task[t], Clock(s))
<1>1. /\ pc[s] \in {"exec", "wait"} /\ Owns(s, t)
      /\ now >= job[s].timer + Timeout[t]
  BY DEF TimesOut, TimerFires, TimerKillsNode, Owns, OwnerPC
<1>2. /\ task[t].lastRunAt \in Nat
      /\ task[t].lastRunAt <= job[s].timer + Skew[NodeOf(s)]
  BY <1>1 DEF LeaseInv, LeaseStarted
<1>3. task[t].status = "RUNNING"  BY <1>1 DEF ExclusiveOwner
<1>4. /\ now \in Nat /\ job[s].timer \in Nat
      /\ Timeout[t] \in Nat /\ Skew[NodeOf(s)] \in Nat
  BY TaskAssumption, EngineAssumption DEF TypeOK, Job, NodeOf, Scan
<1>5. task[t].lastRunAt + Timeout[t] <= Clock(s)
  BY <1>1, <1>2, <1>4 DEF Clock
<1> QED  BY <1>1, <1>2, <1>3, <1>5, NoTimeAssumption DEF StuckWhere

TimeoutIsLate ==
  [][\A s \in Scan, t \in Task \ contested :
        TimesOut(s, t) => StuckWhere(t, task[t], Clock(s))]_vars

(* The timeout of an attempt never comes before the task may be recovered, *)
(* by the clock of the very node that works on it: the lease starts with   *)
(* the claim and is as long as the timeout, whose timer starts later.      *)
THEOREM TimeoutsComeLate == Spec => TimeoutIsLate
<1>1. TypeOK /\ ExclusiveOwner /\ LeaseInv /\ [Next]_vars =>
        [\A s \in Scan, t \in Task \ contested :
            TimesOut(s, t) => StuckWhere(t, task[t], Clock(s))]_vars
  BY TimerAfterLease
<1> QED
  BY <1>1, LeasesKept, TypeCorrect, Exclusive, PTL DEF Spec, TimeoutIsLate
-----------------------------------------------------------------------------
(* The steps of a recovery.                                                *)

RecoveryStays(r) ==
  /\ work'[r].stuck = work[r].stuck
  /\ \/ pc'[r] = pc[r] /\ job'[r] = job[r]
     \/ pc[r] \notin RecoveryPC /\ pc'[r] \notin RecoveryPC
RecoveryOver(r) == pc'[r] \notin RecoveryPC /\ work'[r].stuck = {}

(* s turns from one stuck task to the next. *)
TurnsToNext(s) == pc[s] \in RecoveryPC /\ NextStuck(s, work[s].stuck)

LEMMA RecoverySteps ==
  ASSUME TypeOK, [Next]_vars, NEW s \in Scan
  PROVE  \/ RecoveryStays(s) \/ RecoveryOver(s) \/ FindStuckTasks(s)
         \/ CloseStuckRun(s) /\ GoTo(s, "stuckTask", job[s])
         \/ TurnsToNext(s) /\ ( \/ CloseStuckRun(s) \/ SettleStuckTask(s)
                               \/ StatementFails(s))
<1>0. ControlOK  BY DEF TypeOK, ControlOK
<1>1. ASSUME pc[s] \notin RecoveryPC, NEW rest, NextDue(s, rest)
      PROVE  RecoveryStays(s) \/ RecoveryOver(s)
  <2>1. pc'[s] \in {"idle", "claim"}  BY <1>0, <1>1 DEF NextDue, ControlOK
  <2>2. work'[s].stuck \in {{}, work[s].stuck}
    BY <1>0, <1>1 DEF NextDue, ControlOK, Work, NoWork
  <2> QED  BY <1>1, <2>1, <2>2 DEF RecoveryStays, RecoveryOver, RecoveryPC
<1>2. ASSUME pc[s] \notin RecoveryPC, NEW label, label \notin RecoveryPC,
             NEW j, GoTo(s, label, j)
      PROVE  RecoveryStays(s)
  BY <1>0, <1>2 DEF GoTo, RecoveryStays, ControlOK
<1>3. {"findDue", "read", "log", "wait", "exec", "succRun", "succTask",
       "failRun", "failTask", "claim", "findStuck", "idle"} \cap RecoveryPC = {}
  BY DEF RecoveryPC
<1>4. CASE Throw(s) /\ pc[s] \notin RecoveryPC
  BY <1>1, <1>2, <1>3, <1>4 DEF Throw
<1>5. ASSUME Throw(s), pc[s] \in RecoveryPC PROVE TurnsToNext(s)
  BY <1>5 DEF Throw, RecoveryPC, TurnsToNext
<1>6. CASE StartScan(s)
  BY <1>0, <1>6 DEF StartScan, RecoveryStays, RecoveryPC, ControlOK, Work
<1>7. CASE CloseStuckRun(s)
  BY <1>5, <1>7 DEF CloseStuckRun, AnswerLost, RecoveryPC
<1>8. CASE SettleStuckTask(s)
  BY <1>8 DEF SettleStuckTask, TurnsToNext, RecoveryPC
<1>9. CASE FindDueTasks(s)
  BY <1>1, <1>3, <1>9 DEF FindDueTasks
<1>10. CASE Prepare(s)
  BY <1>1, <1>2, <1>3, <1>4, <1>10
  DEF Prepare, ClaimDueTask, FindTask, CreateRunLog, AnswerLost
<1>11. CASE DelayDone(s) \/ TimerFires(s) \/ ExecutorReturns(s) \/ ExecutorThrows(s)
  BY <1>2, <1>3, <1>11
  DEF DelayDone, TimerFires, ExecutorReturns, ExecutorThrows
<1>12. CASE Conclude(s)
  BY <1>1, <1>2, <1>3, <1>4, <1>12
  DEF Conclude, MarkRunSuccess, SettleSuccess, MarkRunFailed, SettleFailure,
      AnswerLost
<1>13. CASE StatementFails(s)
  BY <1>4, <1>5, <1>13 DEF StatementFails
<1>14. ASSUME NEW n \in Node, Halt(n) PROVE RecoveryStays(s) \/ RecoveryOver(s)
  <2>1. CASE NodeOf(s) = n
    <3>1. pc'[s] = "idle" /\ work'[s].stuck = {}
      BY <1>14, <2>1 DEF Halt, NoWork
    <3> QED  BY <1>3, <3>1 DEF RecoveryOver
  <2>2. CASE NodeOf(s) # n
    BY <1>14, <2>2 DEF Halt, RecoveryStays
  <2> QED  BY <2>1, <2>2
<1>15. CASE Untouched(s)  BY <1>15 DEF Untouched, RecoveryStays
<1>16. TimerKillsNode(s) => \E n \in Node : Halt(n)
  BY DEF TimerKillsNode, NodeOf, Scan
<1> QED
  BY <1>6, <1>7, <1>8, <1>9, <1>10, <1>11, <1>12, <1>13, <1>14, <1>15, <1>16,
     OnlyItself
  DEF StepOf, Advance, Recover, Timer

(* A task becomes contested in two ways. *)
LEMMA ContestedBy ==
  ASSUME TypeOK, [Next]_vars, contested' # contested
  PROVE  \E s \in Scan :
            \/ SettleStuckTask(s) /\ ~Abandoned(job[s].id, job[s].attempt)
            \/ SettleSuccess(s) /\ AnswerLost(s)
BY DEF Next, Advance, Recover, Prepare, Timer, Conclude, Tick, StartScan,
       StatementFails, FindStuckTasks, CloseStuckRun, FindDueTasks, FindTask,
       CreateRunLog, DelayDone, ExecutorReturns, ExecutorThrows, TimerFires,
       TimerKillsNode, LeakedEnds, MarkRunSuccess, MarkRunFailed, Halt, Crash,
       Restart, vars, SettleStuckTask, SettleSuccess, SettleFailure, Cancel,
       ClaimDueTask
-----------------------------------------------------------------------------
(* The conditions under which a recovery is sound.                         *)

(* Who reads a task as stuck finds no scan at work on it. *)
ReadingsSound ==
  \A s \in Scan, t \in Task :
     pc[s] = "findStuck" /\ StuckWhere(t, task[t], work[s].at) => Unowned(t)

(* No two scans hold one task as stuck at once. *)
RecoveriesApart ==
  \A t \in Task : \A r, s \in Scan : Recovers(r, t) /\ Recovers(s, t) => r = s

(* A settlement of a success that is reported failed was not executed. *)
SuccessHeard ==
  \A s \in Scan : pc[s] = "succTask" /\ pc'[s] = "failRun" => task' = task

(* The copy of t that a recovery holds, with the logs it is to close, is   *)
(* what the tables hold, and nobody works on t.                            *)
Fresh(t, attempt, open) ==
  /\ task[t].status = "RUNNING"
  /\ task[t].attemptCount = attempt
  /\ OpenRuns(t) = open
  /\ Unowned(t)

RecoverySound(s) ==
  /\ \A e \in work[s].stuck : Fresh(e.id, e.attempt, e.open)
  /\ \A e, f \in work[s].stuck : e.id = f.id => e = f
  /\ pc[s] \in RecoveryPC =>
       /\ Fresh(job[s].id, job[s].attempt,
                IF pc[s] = "stuckRun" THEN {job[s].run} ELSE {})
       /\ \A e \in work[s].stuck : e.id # job[s].id

RecoveryInv == contested = {} /\ \A s \in Scan : RecoverySound(s)

(* What a scan holds stays fresh while other scans, and itself at other    *)
(* tasks, go on.                                                           *)
LEMMA StaysFresh ==
  ASSUME TypeOK, RecoveriesApart, [Next]_vars, NEW s \in Scan, NEW t \in Task,
         NEW attempt, NEW open, Recovers(s, t), Fresh(t, attempt, open),
         job[s].id = t => ~CloseStuckRun(s) /\ ~SettleStuckTask(s)
  PROVE  Fresh(t, attempt, open)'
<1>1. \A r \in Scan : ~Owns(r, t) /\ ~ClaimWhere(t, task[t], Clock(r))
  BY DEF Fresh, Unowned, ClaimWhere
<1>2. ASSUME NEW r \in Scan, job[r].id = t
      PROVE  /\ ~CloseStuckRun(r) /\ ~SettleStuckTask(r)
             /\ ~SettleSuccess(r) /\ ~SettleFailure(r)
             /\ ~MarkRunSuccess(r) /\ ~MarkRunFailed(r) /\ ~CreateRunLog(r)
  <2>1. pc[r] \notin OwnerPC  BY <1>1, <1>2 DEF Owns
  <2>2. pc[r] \in RecoveryPC => r = s
    BY <1>2 DEF RecoveriesApart, Recovers
  <2> QED
    BY <1>2, <2>1, <2>2
    DEF OwnerPC, RecoveryPC, CloseStuckRun, SettleStuckTask, SettleSuccess,
        SettleFailure, MarkRunSuccess, MarkRunFailed, CreateRunLog
<1>3. ~Cancel(t)  BY DEF Fresh, Cancel, CancelWhere
<1>4. task'[t] = task[t]  BY <1>1, <1>2, <1>3, RowWriters
<1>5. runs'[t] = runs[t]  BY <1>2, LogWriters DEF Closes
<1>6. \A r \in Scan : ~Owns(r, t)'  BY <1>1, NoNewOwner
<1> QED  BY <1>4, <1>5, <1>6 DEF Fresh, OpenRuns, Unowned

(* The for loop of recoverStuckTasks takes up a fresh task. *)
LEMMA NextStuckSound ==
  ASSUME ControlOK, NEW s \in Scan, NEW rest \in SUBSET StuckEntry,
         NextStuck(s, rest),
         \A e \in rest : Fresh(e.id, e.attempt, e.open)',
         \A e, f \in rest : e.id = f.id => e = f,
         \A e \in rest : 0 \notin e.open /\ \A i, j \in e.open : i = j
  PROVE  RecoverySound(s)'
<1>1. CASE pc' = [pc EXCEPT ![s] = "findDue"] /\ rest = {}
           /\ work' = [work EXCEPT ![s].stuck = {}]
  BY <1>1 DEF RecoverySound, RecoveryPC, ControlOK, Work
<1>2. ASSUME NEW e \in rest, NEW run \in IF e.open = {} THEN {0} ELSE e.open,
             pc' = [pc EXCEPT ![s] = IF run = 0 THEN "stuckTask" ELSE "stuckRun"],
             work' = [work EXCEPT ![s].stuck = rest \ {e}],
             job' = [job EXCEPT ![s] = [NoJob EXCEPT !.id = e.id,
                                          !.attempt = e.attempt, !.run = run]]
      PROVE  RecoverySound(s)'
  <2>1. job'[s].id = e.id /\ job'[s].attempt = e.attempt /\ job'[s].run = run
    <3>1. job'[s] = [NoJob EXCEPT !.id = e.id, !.attempt = e.attempt, !.run = run]
      BY <1>2 DEF ControlOK
    <3> QED  BY <3>1 DEF NoJob
  <2>2. work'[s].stuck = rest \ {e}  BY <1>2 DEF ControlOK, Work
  <2>3. pc'[s] = IF run = 0 THEN "stuckTask" ELSE "stuckRun"
    BY <1>2 DEF ControlOK
  <2>4. e.open = IF pc'[s] = "stuckRun" THEN {run} ELSE {}
    <3>1. CASE e.open = {}
      <4>1. run = 0  BY <1>2, <3>1
      <4> QED  BY <2>3, <3>1, <4>1
    <3>2. CASE e.open # {}
      <4>1. run \in e.open  BY <1>2, <3>2
      <4>2. run # 0 /\ e.open = {run}  BY <4>1
      <4> QED  BY <2>3, <4>2
    <3> QED  BY <3>1, <3>2
  <2>5. Fresh(e.id, e.attempt, e.open)'  OBVIOUS
  <2>6. Fresh(job[s].id, job[s].attempt,
              IF pc[s] = "stuckRun" THEN {job[s].run} ELSE {})'
    BY <2>1, <2>4, <2>5
  <2>7. \A f \in work'[s].stuck : f.id # job'[s].id
    BY <2>1, <2>2
  <2> QED  BY <2>2, <2>6, <2>7 DEF RecoverySound
<1> QED  BY <1>1, <1>2 DEF NextStuck
(* findStuckTasks reads the tables as they are. *)
LEMMA ReadingFresh ==
  ASSUME TypeOK, LogInv, LogInv', contested = {}, contested' = {},
         ReadingsSound, [Next]_vars, NEW s \in Scan, FindStuckTasks(s)
  PROVE  RecoverySound(s)'
<1> DEFINE found == {[id |-> t, attempt |-> task[t].attemptCount,
                      open |-> LatestOpen(t)] :
                     t \in {u \in Task : StuckWhere(u, task[u], work[s].at)}}
<1>0. ControlOK  BY DEF TypeOK, ControlOK
<1>1. /\ pc[s] = "findStuck" /\ NextStuck(s, found)
      /\ task' = task /\ runs' = runs
  BY DEF FindStuckTasks
<1>2. ASSUME NEW t \in Task, StuckWhere(t, task[t], work[s].at)
      PROVE  Fresh(t, task[t].attemptCount, LatestOpen(t))'
  <2>1. Unowned(t)'
    <3>1. Unowned(t)  BY <1>1, <1>2 DEF ReadingsSound
    <3>2. \A r \in Scan : ~ClaimWhere(t, task[t], Clock(r))
      BY <1>2 DEF ClaimWhere, StuckWhere
    <3> QED  BY <3>1, <3>2, NoNewOwner DEF Unowned
  <2>2. LatestOpen(t) = OpenRuns(t)
    <3>1. \A i, j \in OpenRuns(t) : i = j  BY DEF LogInv
    <3>2. ASSUME NEW i \in OpenRuns(t) PROVE runs[t][i].attemptNumber \in Nat
      <4>1. runs[t] \in Seq(TaskRun) /\ i \in DOMAIN runs[t]
        BY DEF TypeOK, OpenRuns
      <4>2. runs[t][i] \in TaskRun  BY <4>1
      <4> QED  BY <4>2 DEF TaskRun
    <3>3. ASSUME NEW i \in OpenRuns(t), NEW j \in OpenRuns(t)
          PROVE  runs[t][j].attemptNumber <= runs[t][i].attemptNumber
      <4>1. i = j /\ runs[t][i].attemptNumber \in Nat  BY <3>1, <3>2
      <4> QED  BY <4>1
    <3> QED  BY <3>3 DEF LatestOpen
  <2>3. LatestOpen(t)' = LatestOpen(t) /\ OpenRuns(t)' = OpenRuns(t)
    BY <1>1 DEF LatestOpen, OpenRuns
  <2>4. task[t].status = "RUNNING"  BY <1>2 DEF StuckWhere
  <2> QED  BY <1>1, <2>1, <2>2, <2>3, <2>4 DEF Fresh
<1>3. \A e \in found : Fresh(e.id, e.attempt, e.open)'
  <2>1. SUFFICES ASSUME NEW t \in Task, StuckWhere(t, task[t], work[s].at)
                 PROVE  Fresh(t, task[t].attemptCount, LatestOpen(t))'
    BY <1>1 DEF LatestOpen, OpenRuns, Fresh, Unowned, Owns
  <2> QED  BY <1>2, <2>1
<1>4. \A e, f \in found : e.id = f.id => e = f  OBVIOUS
<1>5. \A e \in found : 0 \notin e.open /\ \A i, j \in e.open : i = j
  BY DEF LatestOpen, OpenRuns, LogInv, TypeOK
<1>6. found \in SUBSET StuckEntry
  BY LatestOpenType DEF StuckEntry, TypeOK, TaskRow
<1> HIDE DEF found
<1> QED  BY <1>0, <1>1, <1>3, <1>4, <1>5, <1>6, NextStuckSound

LEMMA RecoveryNext ==
  ASSUME TypeOK, LogInv, LogInv', RecoveryInv, contested' = {},
         ReadingsSound, RecoveriesApart, [Next]_vars, NEW s \in Scan
  PROVE  RecoverySound(s)'
<1>0. ControlOK /\ RecoverySound(s) /\ contested = {}
  BY DEF TypeOK, ControlOK, RecoveryInv
<1>1. work[s].stuck \in SUBSET StuckEntry
  BY DEF TypeOK, Work
<1>2. ASSUME NEW e \in work[s].stuck,
             job[s].id = e.id => ~CloseStuckRun(s) /\ ~SettleStuckTask(s)
      PROVE  Fresh(e.id, e.attempt, e.open)'
  <2>1. e.id \in Task /\ Recovers(s, e.id) /\ Fresh(e.id, e.attempt, e.open)
    BY <1>0, <1>1, <1>2 DEF RecoverySound, StuckEntry, Recovers
  <2> QED  BY <1>2, <2>1, StaysFresh
<1>3. pc[s] \in RecoveryPC => \A e \in work[s].stuck : e.id # job[s].id
  BY <1>0 DEF RecoverySound
<1>4. CloseStuckRun(s) \/ SettleStuckTask(s) => pc[s] \in RecoveryPC
  BY DEF CloseStuckRun, SettleStuckTask, RecoveryPC
<1>5. \A e \in work[s].stuck : Fresh(e.id, e.attempt, e.open)'
  BY <1>2, <1>3, <1>4
<1>6. CASE TurnsToNext(s)
  <2>1. \A e, f \in work[s].stuck : e.id = f.id => e = f
    BY <1>0 DEF RecoverySound
  <2>2. \A e \in work[s].stuck : 0 \notin e.open /\ \A i, j \in e.open : i = j
    <3>1. ASSUME NEW e \in work[s].stuck PROVE e.id \in Task /\ e.open = OpenRuns(e.id)
      BY <1>0, <1>1 DEF RecoverySound, Fresh, StuckEntry
    <3>2. ASSUME NEW t \in Task
          PROVE  0 \notin OpenRuns(t) /\ \A i, j \in OpenRuns(t) : i = j
      BY <1>0 DEF OpenRuns, LogInv, TypeOK
    <3> QED  BY <3>1, <3>2
  <2> QED  BY <1>0, <1>1, <1>5, <1>6, <2>1, <2>2, NextStuckSound DEF TurnsToNext
<1>7. CASE FindStuckTasks(s)  BY <1>0, <1>7, ReadingFresh
<1>8. CASE RecoveryOver(s)  BY <1>8 DEF RecoveryOver, RecoverySound
<1>9. CASE CloseStuckRun(s) /\ GoTo(s, "stuckTask", job[s])
  <2> DEFINE t == job[s].id
  <2>1. /\ pc[s] = "stuckRun" /\ pc'[s] = "stuckTask" /\ t \in Task
        /\ job'[s] = job[s] /\ work' = work /\ task' = task
    BY <1>0, <1>9
    DEF CloseStuckRun, GoTo, ControlOK, Working, RecoveryPC
  <2>2. Fresh(t, job[s].attempt, {job[s].run})
    BY <1>0, <2>1 DEF RecoverySound, RecoveryPC
  <2>3. OpenRuns(t)' = {}
    <3>1. OpenRuns(t)' = OpenRuns(t) \ {job[s].run}
      BY <1>9, <2>1, ClosedLog DEF Closes
    <3> QED  BY <2>2, <3>1 DEF Fresh
  <2>4. Unowned(t)'
    BY <2>1, <2>2, NoNewOwner DEF Fresh, Unowned, ClaimWhere
  <2>5. Fresh(job[s].id, job[s].attempt, {})'
    BY <2>1, <2>2, <2>3, <2>4 DEF Fresh, OpenRuns, Unowned, Owns
  <2> QED
    BY <1>0, <1>5, <2>1, <2>5 DEF RecoverySound, RecoveryPC
<1>10. CASE RecoveryStays(s) /\ ~CloseStuckRun(s) /\ ~SettleStuckTask(s)
  <2>1. ASSUME pc'[s] \in RecoveryPC
        PROVE  /\ Fresh(job[s].id, job[s].attempt,
                        IF pc[s] = "stuckRun" THEN {job[s].run} ELSE {})'
               /\ \A e \in work'[s].stuck : e.id # job'[s].id
    <3>1. /\ pc'[s] = pc[s] /\ job'[s] = job[s]
          /\ work'[s].stuck = work[s].stuck /\ pc[s] \in RecoveryPC
      BY <1>10, <2>1 DEF RecoveryStays
    <3>2. job[s].id \in Task /\ Recovers(s, job[s].id)
      BY <3>1 DEF TypeOK, Working, Recovers
    <3>3. PICK t, a, open :
            /\ t \in Task /\ t = job[s].id /\ a = job[s].attempt
            /\ open = IF pc[s] = "stuckRun" THEN {job[s].run} ELSE {}
      BY <3>2
    <3>4. Fresh(t, a, open)  BY <1>0, <3>1, <3>3 DEF RecoverySound
    <3>5. Fresh(t, a, open)'  BY <1>10, <3>2, <3>3, <3>4, StaysFresh
    <3>6. /\ t = job'[s].id /\ a = job'[s].attempt
          /\ open = IF pc'[s] = "stuckRun" THEN {job'[s].run} ELSE {}
      BY <3>1, <3>3
    <3> QED  BY <1>3, <3>1, <3>5, <3>6
  <2> QED  BY <1>0, <1>5, <1>10, <2>1 DEF RecoverySound, RecoveryStays
<1>11. CASE RecoveryStays(s) /\ (CloseStuckRun(s) \/ SettleStuckTask(s))
  BY <1>4, <1>6, <1>9, <1>11
  DEF CloseStuckRun, SettleStuckTask, AnswerLost, Throw, TurnsToNext, RecoveryPC
<1> QED  BY <1>6, <1>7, <1>8, <1>9, <1>10, <1>11, RecoverySteps
(* A sound recovery contests nothing, nor does a success that is heard of. *)
LEMMA NoneContested ==
  ASSUME TypeOK, ExclusiveOwner, RecoveryInv, [Next]_vars, [SuccessHeard]_vars
  PROVE  contested' = {}
<1>0. ControlOK /\ contested = {}  BY DEF TypeOK, ControlOK, RecoveryInv
<1>1. SUFFICES ASSUME NEW s \in Scan,
                      \/ SettleStuckTask(s) /\ ~Abandoned(job[s].id, job[s].attempt)
                      \/ SettleSuccess(s) /\ AnswerLost(s)
               PROVE  FALSE
  BY <1>0, ContestedBy
<1>2. CASE SettleStuckTask(s) /\ ~Abandoned(job[s].id, job[s].attempt)
  <2>1. pc[s] = "stuckTask" /\ RecoverySound(s)
    BY <1>2 DEF SettleStuckTask, RecoveryInv
  <2>2. Fresh(job[s].id, job[s].attempt, {})
    BY <2>1 DEF RecoverySound, RecoveryPC
  <2> QED  BY <1>2, <2>2 DEF Fresh, Abandoned
<1>3. CASE SettleSuccess(s) /\ AnswerLost(s)
  <2> DEFINE t == job[s].id
  <2>1. /\ pc[s] = "succTask" /\ GoTo(s, "failRun", job[s])
        /\ task' = [task EXCEPT ![t] = SucceededRow(t, @, Clock(s))]
    BY <1>3 DEF SettleSuccess, AnswerLost, Throw, RecoveryPC
  <2>2. t \in Task /\ Owns(s, t)
    BY <2>1 DEF TypeOK, Working, OwnerPC, Owns
  <2>3. task' = task
    <3>1. pc'[s] = "failRun"  BY <1>0, <2>1 DEF GoTo, ControlOK
    <3>2. UNCHANGED vars => pc' = pc  BY DEF vars
    <3> QED  BY <2>1, <3>1, <3>2 DEF SuccessHeard
  <2>4. task[t] \in TaskRow /\ task[t].status = "RUNNING"
    BY <1>0, <2>2 DEF ExclusiveOwner, TypeOK
  <2>5. SucceededRow(t, task[t], Clock(s)).status # "RUNNING"
    BY <2>2, <2>4, RowEffects, ClockType
  <2> QED  BY <2>1, <2>2, <2>3, <2>4, <2>5 DEF TypeOK
<1> QED  BY <1>1, <1>2, <1>3

(* When a reading finds as stuck only what nobody works on, two recoveries *)
(* of one task never overlap, and no executed success is reported failed,  *)
(* no task is ever contested: what the other theorems say of uncontested   *)
(* tasks then holds of all.  Crashes, failing statements and lost answers  *)
(* of every other kind are allowed.                                        *)
THEOREM SoundRecoveriesSuffice ==
  Spec /\ []ReadingsSound /\ []RecoveriesApart /\ [][SuccessHeard]_vars
    => [](contested = {})
<1>1. Init => RecoveryInv
  BY DEF Init, RecoveryInv, RecoverySound, RecoveryPC, NoWork
<1>2. /\ TypeOK /\ ExclusiveOwner /\ LogInv /\ LogInv' /\ RecoveryInv
      /\ ReadingsSound /\ RecoveriesApart /\ [Next]_vars /\ [SuccessHeard]_vars
      => RecoveryInv'
  <2> SUFFICES ASSUME TypeOK, ExclusiveOwner, LogInv, LogInv', RecoveryInv,
                      ReadingsSound, RecoveriesApart, [Next]_vars,
                      [SuccessHeard]_vars
               PROVE  RecoveryInv'
    OBVIOUS
  <2>1. contested' = {}  BY NoneContested
  <2>2. \A s \in Scan : RecoverySound(s)'  BY <2>1, RecoveryNext
  <2> QED  BY <2>1, <2>2 DEF RecoveryInv
<1>3. RecoveryInv => contested = {}  BY DEF RecoveryInv
<1> QED
  BY <1>1, <1>2, <1>3, TypeCorrect, Exclusive, LogsKept, PTL DEF Spec
-----------------------------------------------------------------------------
(* Scans that never overlap, on whatever nodes they run.                   *)

ScansApart == \A r, s \in Scan : pc[r] # "idle" /\ pc[s] # "idle" => r = s

(* The statements of processDueTask. *)
Dealing == {"claim"} \cup OwnerPC

(* A scan holds stuck tasks only while it recovers them. *)
StuckInv == \A s \in Scan : pc[s] \notin RecoveryPC => work[s].stuck = {}

LEMMA StuckKept == Spec => []StuckInv
<1>1. Init => StuckInv  BY DEF Init, StuckInv, NoWork
<1>2. TypeOK /\ StuckInv /\ [Next]_vars => StuckInv'
  <2> SUFFICES ASSUME TypeOK, StuckInv, [Next]_vars, NEW s \in Scan,
                      pc'[s] \notin RecoveryPC
               PROVE  work'[s].stuck = {}
    BY DEF StuckInv
  <2>0. ControlOK  BY DEF TypeOK, ControlOK
  <2>1. ASSUME NEW rest, NextStuck(s, rest) PROVE work'[s].stuck = {}
    <3>1. pc'[s] = "findDue" /\ work' = [work EXCEPT ![s].stuck = {}]
      BY <2>0, <2>1 DEF NextStuck, ControlOK, RecoveryPC
    <3> QED  BY <2>0, <3>1 DEF ControlOK, Work
  <2>2. CASE RecoveryStays(s)
    BY <2>2 DEF RecoveryStays, StuckInv
  <2>3. ~GoTo(s, "stuckTask", job[s])
    BY <2>0 DEF GoTo, ControlOK, RecoveryPC
  <2> QED
    BY <2>1, <2>2, <2>3, RecoverySteps
    DEF RecoveryOver, FindStuckTasks, TurnsToNext
<1> QED  BY <1>1, <1>2, TypeCorrect, PTL DEF Spec

(* When no two scans overlap, the first two conditions of a sound recovery *)
(* hold of themselves, however late an attempt is and however far the      *)
(* clocks of the nodes that take turns are from each other.                *)
THEOREM ScansApartSuffice ==
  Spec /\ []ScansApart /\ [][SuccessHeard]_vars => [](contested = {})
<1>1. ScansApart /\ StuckInv => RecoveriesApart
  BY DEF ScansApart, StuckInv, RecoveriesApart, Recovers, RecoveryPC
<1>2. ScansApart => ReadingsSound
  BY DEF ScansApart, ReadingsSound, Unowned, Owns, OwnerPC
<1> QED  BY <1>1, <1>2, StuckKept, SoundRecoveriesSuffice, PTL

-----------------------------------------------------------------------------
(* The retry delay, when scans never overlap.                              *)

DueStays(s) ==
  /\ work'[s].due = work[s].due
  /\ \/ pc[s] \notin Dealing /\ pc'[s] \notin Dealing
     \/ pc[s] \in Dealing /\ pc'[s] \in Dealing /\ job'[s].id = job[s].id
DueOver(s) == pc'[s] \notin Dealing /\ work'[s].due = {}

LEMMA DueSteps ==
  ASSUME TypeOK, [Next]_vars, NEW s \in Scan
  PROVE  \/ DueStays(s) \/ DueOver(s) \/ FindDueTasks(s)
         \/ pc[s] \in Dealing /\ NextDue(s, work[s].due)
<1>0. ControlOK  BY DEF TypeOK, ControlOK
<1>1. ASSUME pc[s] \notin Dealing, NEW rest, NextStuck(s, rest)
      PROVE  DueStays(s)
  <2>1. pc'[s] \in {"findDue", "stuckTask", "stuckRun"}
    BY <1>0, <1>1 DEF NextStuck, ControlOK
  <2>2. work'[s].due = work[s].due
    <3>1. PICK q : work' = [work EXCEPT ![s].stuck = q]  BY <1>1 DEF NextStuck
    <3> QED  BY <1>0, <3>1 DEF ControlOK, Work
  <2> QED  BY <1>1, <2>1, <2>2 DEF DueStays, Dealing, OwnerPC
<1>2. ASSUME NEW label, pc[s] \in Dealing <=> label \in Dealing,
             NEW j, j.id = job[s].id \/ label \notin Dealing, GoTo(s, label, j)
      PROVE  DueStays(s)
  BY <1>0, <1>2 DEF GoTo, DueStays, ControlOK
<1>3. ASSUME NextDue(s, {}) PROVE DueOver(s)
  <2>1. work'[s].due = {} /\ pc'[s] = "idle"
    BY <1>0, <1>3 DEF NextDue, ControlOK, NoWork
  <2> QED  BY <2>1 DEF DueOver, Dealing, OwnerPC
<1>4. /\ OwnerPC \subseteq Dealing /\ "claim" \in Dealing
      /\ {"idle", "findStuck", "stuckRun", "stuckTask", "findDue"}
           \cap Dealing = {}
  BY DEF Dealing, OwnerPC
<1>5. Throw(s) => \/ DueStays(s) \/ DueOver(s)
                  \/ pc[s] \in Dealing /\ NextDue(s, work[s].due)
  BY <1>1, <1>2, <1>3, <1>4 DEF Throw, RecoveryPC, OwnerPC
<1>6. CASE StartScan(s)
  BY <1>0, <1>4, <1>6 DEF StartScan, DueStays, ControlOK, Work
<1>7. CASE Recover(s)
  BY <1>1, <1>2, <1>4, <1>5, <1>7
  DEF Recover, FindStuckTasks, CloseStuckRun, SettleStuckTask, AnswerLost
<1>8. CASE ClaimDueTask(s)
  BY <1>2, <1>4, <1>5, <1>8 DEF ClaimDueTask, AnswerLost, OwnerPC
<1>9. CASE FindTask(s)
  <2> DEFINE j == [job[s] EXCEPT !.attempt = task[job[s].id].attemptCount,
                                 !.runs = Len(runs[job[s].id])]
  <2>1. j.id = job[s].id  BY <1>0 DEF ControlOK, Job
  <2>2. GoTo(s, "log", j) /\ pc[s] = "read"  BY <1>9 DEF FindTask
  <2> HIDE DEF j
  <2> QED  BY <1>2, <1>4, <2>1, <2>2 DEF OwnerPC
<1>10. CASE CreateRunLog(s)
  <2> DEFINE j == [job[s] EXCEPT !.run = Len(runs[job[s].id]) + 1, !.timer = now]
  <2>1. j.id = job[s].id  BY <1>0 DEF ControlOK, Job
  <2>2. pc[s] = "log" /\ (GoTo(s, "wait", j) \/ Throw(s))
    BY <1>10 DEF CreateRunLog, AnswerLost
  <2> HIDE DEF j
  <2> QED  BY <1>2, <1>4, <1>5, <2>1, <2>2 DEF OwnerPC
<1>11. CASE DelayDone(s) \/ TimerFires(s) \/ ExecutorReturns(s) \/ ExecutorThrows(s)
  BY <1>2, <1>4, <1>11
  DEF DelayDone, TimerFires, ExecutorReturns, ExecutorThrows, OwnerPC
<1>12. CASE MarkRunSuccess(s) \/ MarkRunFailed(s)
  BY <1>2, <1>4, <1>5, <1>12
  DEF MarkRunSuccess, MarkRunFailed, AnswerLost, OwnerPC
<1>13. CASE SettleSuccess(s) \/ SettleFailure(s)
  BY <1>4, <1>5, <1>13 DEF SettleSuccess, SettleFailure, AnswerLost, OwnerPC
<1>14. CASE StatementFails(s)
  BY <1>5, <1>14 DEF StatementFails
<1>15. ASSUME NEW n \in Node, Halt(n) PROVE DueStays(s) \/ DueOver(s)
  <2>1. CASE NodeOf(s) = n
    BY <1>4, <1>15, <2>1 DEF Halt, NoWork, DueOver
  <2>2. CASE NodeOf(s) # n
    BY <1>15, <2>2 DEF Halt, DueStays
  <2> QED  BY <2>1, <2>2
<1>16. CASE Untouched(s)  BY <1>16 DEF Untouched, DueStays
<1>17. TimerKillsNode(s) => \E n \in Node : Halt(n)
  BY DEF TimerKillsNode, NodeOf, Scan
<1> QED
  BY <1>6, <1>7, <1>8, <1>9, <1>10, <1>11, <1>12, <1>13, <1>14, <1>15, <1>16,
     <1>17, OnlyItself
  DEF StepOf, Advance, Prepare, Timer, Conclude

(* A list holds each task once, apart from the one that is being dealt     *)
(* with, and what it holds is waiting no longer than the list says.        *)
ListFresh(s) ==
  /\ pc[s] \notin Dealing => work[s].due = {}
  /\ \A e, f \in work[s].due : e.id = f.id => e = f
  /\ pc[s] \in Dealing => \A e \in work[s].due : e.id # job[s].id
  /\ \A t \in Task : Lists(s, t) /\ task[t].status = "RETRYING" =>
        Reached(task[t].nextRunAt, work[s].at)

FreshInv == \A s \in Scan : ListFresh(s)

(* The for loop of scanDueTasks takes up one task of several. *)
LEMMA NextDueApart ==
  ASSUME ControlOK, NEW s \in Scan, NEW rest \in SUBSET DueEntry,
         NextDue(s, rest), \A e, f \in rest : e.id = f.id => e = f
  PROVE  /\ pc'[s] \notin Dealing => work'[s].due = {}
         /\ \A e, f \in work'[s].due : e.id = f.id => e = f
         /\ pc'[s] \in Dealing => \A e \in work'[s].due : e.id # job'[s].id
<1>1. CASE rest = {} /\ pc' = [pc EXCEPT ![s] = "idle"]
           /\ work' = [work EXCEPT ![s] = NoWork]
  <2>1. work'[s].due = {}  BY <1>1 DEF ControlOK, NoWork
  <2> QED  BY <2>1
<1>2. ASSUME NEW e \in rest,
             pc' = [pc EXCEPT ![s] = "claim"],
             work' = [work EXCEPT ![s].due = rest \ {e}],
             job' = [job EXCEPT ![s] = [NoJob EXCEPT !.id = e.id]]
      PROVE  /\ pc'[s] \in Dealing
             /\ \A f, g \in work'[s].due : f.id = g.id => f = g
             /\ \A f \in work'[s].due : f.id # job'[s].id
  <2>1. pc'[s] = "claim"  BY <1>2 DEF ControlOK
  <2>2. work'[s].due = rest \ {e}  BY <1>2 DEF ControlOK, Work
  <2>3. job'[s].id = e.id
    <3>1. job'[s] = [NoJob EXCEPT !.id = e.id]  BY <1>2 DEF ControlOK
    <3> QED  BY <3>1 DEF NoJob
  <2> QED  BY <2>1, <2>2, <2>3 DEF Dealing
<1> QED  BY <1>1, <1>2 DEF NextDue

(* When scans never overlap nobody makes a listed task wait again. *)
LEMMA ListedWaits ==
  ASSUME TypeOK, ScansApart, FreshInv, [Next]_vars, NEW s \in Scan, NEW t \in Task,
         Lists(s, t), task'[t].status = "RETRYING"
  PROVE  task'[t] = task[t]
<1>0. ListFresh(s)  BY DEF FreshInv
<1>1. pc[s] \in Dealing
  BY <1>0 DEF ListFresh, Lists, Dealing
<1>2. ASSUME NEW r \in Scan, pc[r] # "idle" PROVE r = s
  BY <1>1, <1>2 DEF ScansApart, Dealing, OwnerPC
<1>3. CASE Cancel(t)
  BY <1>3 DEF Cancel, CancelSet, TypeOK, TaskRow
<1>4. ASSUME NEW r \in Scan, job[r].id = t, ClaimDueTask(r),
             ClaimWhere(t, task[t], Clock(r))
      PROVE  FALSE
  <2>1. task'[t] = ClaimSet(task[t], Clock(r)) /\ task[t] \in TaskRow
    BY <1>4 DEF ClaimDueTask, TypeOK
  <2>2. task'[t].status = "RUNNING"  BY <2>1 DEF ClaimSet, TaskRow
  <2> QED  BY <2>2
<1>5. ASSUME NEW r \in Scan, SettleStuckTask(r) PROVE FALSE
  <2>1. pc[r] = "stuckTask"  BY <1>5 DEF SettleStuckTask
  <2> QED  BY <1>1, <1>2, <2>1 DEF Dealing, OwnerPC
<1>6. ASSUME NEW r \in Scan, job[r].id = t, SettleSuccess(r) \/ SettleFailure(r)
      PROVE  FALSE
  <2>1. pc[r] \in {"succTask", "failTask"}
    BY <1>6 DEF SettleSuccess, SettleFailure
  <2>2. r = s /\ pc[s] # "claim"  BY <1>2, <2>1
  <2> QED  BY <1>0, <1>1, <1>6, <2>2 DEF ListFresh, Lists
<1> QED  BY <1>3, <1>4, <1>5, <1>6, RowWriters

LEMMA FreshNext ==
  TypeOK /\ ScansApart /\ FreshInv /\ [Next]_vars => FreshInv'
<1> SUFFICES ASSUME TypeOK, ScansApart, FreshInv, [Next]_vars, NEW s \in Scan
             PROVE  ListFresh(s)'
  BY DEF FreshInv
<1>0. ControlOK /\ ListFresh(s) /\ work[s].due \in SUBSET DueEntry
  BY DEF TypeOK, ControlOK, FreshInv, Work
<1>1. /\ pc'[s] \notin Dealing => work'[s].due = {}
      /\ \A e, f \in work'[s].due : e.id = f.id => e = f
      /\ pc'[s] \in Dealing => \A e \in work'[s].due : e.id # job'[s].id
  <2>1. CASE DueStays(s)  BY <1>0, <2>1 DEF DueStays, ListFresh
  <2>2. CASE DueOver(s)  BY <2>2 DEF DueOver
  <2>3. CASE pc[s] \in Dealing /\ NextDue(s, work[s].due)
    BY <1>0, <2>3, NextDueApart DEF ListFresh
  <2>4. CASE FindDueTasks(s)
    <3>1. PICK batch \in SUBSET Task :
            NextDue(s, {[id |-> t, nextRunAt |-> task[t].nextRunAt] : t \in batch})
      BY <2>4 DEF FindDueTasks
    <3> DEFINE rest == {[id |-> t, nextRunAt |-> task[t].nextRunAt] : t \in batch}
    <3>2. rest \in SUBSET DueEntry  BY DEF DueEntry, TypeOK, TaskRow
    <3>3. \A e, f \in rest : e.id = f.id => e = f  OBVIOUS
    <3>4. NextDue(s, rest)  BY <3>1
    <3> HIDE DEF rest
    <3> QED  BY <1>0, <3>2, <3>3, <3>4, NextDueApart
  <2> QED  BY <2>1, <2>2, <2>3, <2>4, DueSteps
<1>2. ASSUME NEW t \in Task, Lists(s, t)', task'[t].status = "RETRYING"
      PROVE  Reached(task[t].nextRunAt, work[s].at)'
  <2>1. CASE ListKept(s)
    <3>1. Lists(s, t) /\ work'[s].at = work[s].at
      BY <1>2, <2>1 DEF ListKept
    <3>2. task'[t] = task[t]  BY <1>2, <3>1, ListedWaits
    <3> QED  BY <1>0, <1>2, <3>1, <3>2 DEF ListFresh
  <2>2. pc'[s] \in Dealing
    BY <1>1, <1>2 DEF Lists, Dealing
  <2>3. ~ListGone(s) /\ pc'[s] # "findStuck"
    BY <2>2 DEF ListGone, Dealing, OwnerPC
  <2>4. CASE /\ work'[s].at = work[s].at /\ task' = task
             /\ \A u \in Task : Lists(s, u)' => DueWhere(u, task[u], work[s].at)
    BY <1>2, <2>4 DEF DueWhere
  <2> QED  BY <2>1, <2>3, <2>4, ListSteps
<1> QED  BY <1>1, <1>2 DEF ListFresh

(* When no two scans overlap the retry delay is kept: no scan claims a     *)
(* task that waits for a retry before the instant its row names, though    *)
(* the claim itself would take it by its scheduleAt, and however far the   *)
(* clocks of the nodes are from each other.                                *)
THEOREM DelayKept ==
  Spec /\ []ScansApart => [][\A t \in Task, s \in Scan : ~EarlyClaim(s, t)]_vars
<1>1. Init => FreshInv
  BY DEF Init, FreshInv, ListFresh, Lists, NoWork, Dealing, OwnerPC
<1>2. ASSUME TypeOK, ListInv, FreshInv, NEW t \in Task, NEW s \in Scan,
             EarlyClaim(s, t)
      PROVE  FALSE
  <2>1. Reached(task[t].nextRunAt, work[s].at) /\ work[s].at <= Clock(s)
    BY <1>2 DEF FreshInv, ListFresh, ListInv, EarlyClaim, Lists
  <2>2. /\ work[s].at \in Nat /\ Clock(s) \in Nat
        /\ task[t].nextRunAt \in Nat \cup {NoTime}
    BY <1>2, ClockType DEF TypeOK, Work, TaskRow, Time
  <2> QED  BY <1>2, <2>1, <2>2 DEF Reached, EarlyClaim
<1>3. TypeOK /\ ListInv /\ FreshInv /\ [Next]_vars =>
        [\A t \in Task, s \in Scan : ~EarlyClaim(s, t)]_vars
  BY <1>2
<1> QED  BY <1>1, <1>3, FreshNext, ListsKept, TypeCorrect, PTL DEF Spec
-----------------------------------------------------------------------------
(* Leases that hold.                                                       *)

(* Nobody's clock lets the lease of an attempt run out before the attempt  *)
(* is settled.                                                             *)
LeasesHold ==
  \A t \in Task, s \in Scan : Owns(s, t) =>
     \A r \in Scan : ~StuckWhere(t, task[t], Clock(r))

(* What was stuck by the list's instant is stuck by the clock. *)
LEMMA StuckLater ==
  ASSUME TypeOK, ListInv, NEW s \in Scan, NEW t \in Task,
         StuckWhere(t, task[t], work[s].at)
  PROVE  StuckWhere(t, task[t], Clock(s))
<1>1. /\ work[s].at \in Nat /\ Clock(s) \in Nat /\ work[s].at <= Clock(s)
      /\ Timeout[t] \in Nat /\ task[t].lastRunAt \in Nat
  BY ClockType, TaskAssumption DEF TypeOK, ListInv, Work, TaskRow, Time, StuckWhere
<1>2. task[t].lastRunAt + Timeout[t] <= Clock(s)  BY <1>1 DEF StuckWhere
<1> QED  BY <1>2 DEF StuckWhere

LEMMA NoTimeouts ==
  ASSUME TypeOK, ExclusiveOwner, LeaseInv, LeasesHold, contested = {},
         NEW s \in Scan
  PROVE  ~TimerFires(s) /\ ~TimerKillsNode(s)
<1> SUFFICES ASSUME TimerFires(s) \/ TimerKillsNode(s) PROVE FALSE  OBVIOUS
<1>1. job[s].id \in Task
  BY DEF TimerFires, TimerKillsNode, TypeOK, Working, OwnerPC
<1>2. PICK t \in Task \ contested : t = job[s].id  BY <1>1
<1>3. Owns(s, t) /\ StuckWhere(t, task[t], Clock(s))
  BY <1>2, TimerAfterLease DEF TimesOut
<1> QED  BY <1>3 DEF LeasesHold

LEMMA NoneLeaks ==
  ASSUME TypeOK, ExclusiveOwner, LeaseInv, LeasesHold, contested = {},
         leaked = {}, [Next]_vars
  PROVE  leaked' = {}
<1>1. \A s \in Scan : ~TimerFires(s) /\ ~TimerKillsNode(s)  BY NoTimeouts
<1> QED
  BY <1>1
  DEF Next, Advance, Recover, Prepare, Timer, Conclude, Tick, StartScan,
      StatementFails, FindStuckTasks, CloseStuckRun, SettleStuckTask,
      FindDueTasks, ClaimDueTask, FindTask, CreateRunLog, DelayDone,
      ExecutorReturns, ExecutorThrows, LeakedEnds, MarkRunSuccess,
      SettleSuccess, MarkRunFailed, SettleFailure, Cancel, Halt, Crash,
      Restart, vars

LEMMA AloneAtWork ==
  ASSUME ExclusiveOwner, contested = {}, leaked = {}
  PROVE  NoOverlappingExecution
<1> SUFFICES ASSUME NEW t \in Task
             PROVE  Cardinality({s \in Scan : pc[s] = "exec" /\ job[s].id = t})
                      + Cardinality({e \in leaked : e.id = t}) <= 1
  BY DEF NoOverlappingExecution
<1> DEFINE S == {s \in Scan : pc[s] = "exec" /\ job[s].id = t}
<1>1. Cardinality({e \in leaked : e.id = t}) = 0
  <2>1. {e \in leaked : e.id = t} = {}  OBVIOUS
  <2> QED  BY <2>1, FS_EmptySet
<1>2. Cardinality(S) \in {0, 1}
  <2>1. \A r, s \in S : r = s  BY DEF ExclusiveOwner, Owns, OwnerPC
  <2>2. CASE S = {}  BY <2>2, FS_EmptySet
  <2>3. ASSUME NEW r \in S PROVE Cardinality(S) = 1
    <3>1. S = {r}  BY <2>1, <2>3
    <3> QED  BY <3>1, FS_Singleton
  <2> QED  BY <2>2, <2>3
<1> HIDE DEF S
<1>3. Cardinality(S) + Cardinality({e \in leaked : e.id = t}) <= 1
  BY <1>1, <1>2
<1> QED  BY <1>3 DEF S

(* README.md, line 9, under conditions: when no lease runs out on any      *)
(* clock before its attempt is settled, two recoveries of one task never   *)
(* overlap, and no executed success is reported failed, no two executions  *)
(* of a task overlap, and no task is contested, wherever a node crashes    *)
(* and whatever other statement fails.                                     *)
THEOREM LeaseSuffices ==
  Spec /\ []LeasesHold /\ []RecoveriesApart /\ [][SuccessHeard]_vars
    => [](contested = {}) /\ []NoOverlappingExecution
<1>1. TypeOK /\ ListInv /\ LeasesHold => ReadingsSound
  <2> SUFFICES ASSUME TypeOK, ListInv, LeasesHold, NEW s \in Scan,
                      NEW t \in Task, StuckWhere(t, task[t], work[s].at)
               PROVE  Unowned(t)
    BY DEF ReadingsSound
  <2>1. StuckWhere(t, task[t], Clock(s))  BY StuckLater
  <2> QED  BY <2>1 DEF LeasesHold, Unowned
<1>2. Spec /\ []LeasesHold => []ReadingsSound
  BY <1>1, ListsKept, TypeCorrect, PTL
<1>3. Init => leaked = {}  BY DEF Init
<1>4. /\ TypeOK /\ ExclusiveOwner /\ LeaseInv /\ LeasesHold /\ contested = {}
      /\ leaked = {} /\ [Next]_vars
      => (leaked = {})'
  BY NoneLeaks
<1>5. ExclusiveOwner /\ contested = {} /\ leaked = {} => NoOverlappingExecution
  BY AloneAtWork
<1>6. Spec /\ []LeasesHold /\ [](contested = {}) => [](leaked = {})
  BY <1>3, <1>4, TypeCorrect, Exclusive, LeasesKept, PTL DEF Spec
<1> QED
  BY <1>2, <1>5, <1>6, SoundRecoveriesSuffice, Exclusive, PTL
-----------------------------------------------------------------------------
(* Successes that are carried through.                                     *)

Succeeded(t) == {i \in DOMAIN runs[t] : runs[t][i].status = "SUCCESS"}

(* A ONCE task has one successful execution at most. *)
SucceedsOnce ==
  \A t \in Task : ScheduleKind(t) = "ONCE" =>
     \A i, j \in Succeeded(t) : i = j

(* The two statements after a success, on the log and on the task, are not *)
(* separated: one that is reported failed was not executed, and from the   *)
(* first to the second the process lives and the second is executed.       *)
SuccessCarried ==
  \A s \in Scan :
     /\ pc[s] = "succRun" /\ pc'[s] = "failRun" => runs' = runs
     /\ pc[s] = "succTask" /\ pc'[s] # "succTask" =>
           pc'[s] # "failRun" /\ task'[job[s].id].status # "RUNNING"

(* Once executed, a ONCE task is SUCCESS or its owner is about to say so. *)
OutcomeRecorded(t) ==
  Executed(t) => \/ task[t].status = "SUCCESS"
                 \/ \E s \in Scan : Owns(s, t) /\ pc[s] = "succTask"

OutcomeInv ==
  \A t \in Task \ contested : ScheduleKind(t) = "ONCE" =>
     /\ OutcomeRecorded(t)
     /\ \A i, j \in Succeeded(t) : i = j

(* What a scan does next that has marked its log as a success. *)
LEMMA CarriedOn ==
  ASSUME TypeOK, [Next]_vars, [SuccessCarried]_vars,
         NEW s \in Scan, NEW t \in Task, Owns(s, t), pc[s] = "succTask",
         task[t].status = "RUNNING"
  PROVE  Stays(s) \/ SettleSuccess(s)
<1>0. ControlOK /\ job[s].id = t  BY DEF TypeOK, ControlOK, Owns
<1>1. SuccessCarried \/ UNCHANGED vars  OBVIOUS
<1>2. CASE UNCHANGED vars  BY <1>2 DEF vars, Stays
<1>3. CASE SuccessCarried
  <2>1. pc'[s] # "failRun"  BY <1>3 DEF SuccessCarried
  <2>2. ~StatementFails(s)
    <3>1. SUFFICES ASSUME StatementFails(s) PROVE FALSE  OBVIOUS
    <3>2. GoTo(s, "failRun", job[s])
      BY <3>1 DEF StatementFails, Throw, RecoveryPC
    <3> QED  BY <1>0, <2>1, <3>2 DEF GoTo, ControlOK
  <2>3. ASSUME NEW n \in Node, Halt(n) PROVE Stays(s)
    <3>1. CASE NodeOf(s) = n
      <4>1. pc'[s] = "idle" /\ task' = task  BY <2>3, <3>1 DEF Halt
      <4> QED  BY <1>0, <1>3, <4>1 DEF SuccessCarried
    <3>2. CASE NodeOf(s) # n  BY <2>3, <3>2 DEF Halt, Stays
    <3> QED  BY <3>1, <3>2
  <2>4. OwnStep(s) => SettleSuccess(s) \/ StatementFails(s)
    BY DEF OwnStep, FindTask, CreateRunLog, DelayDone, ExecutorReturns,
           ExecutorThrows, TimerFires, MarkRunSuccess, MarkRunFailed
  <2>5. ~SettleFailure(s)  BY DEF SettleFailure
  <2> QED  BY <2>2, <2>3, <2>4, <2>5, OwnerSteps
<1> QED  BY <1>1, <1>2, <1>3

(* Only markRunSuccess makes a success. *)
LEMMA NewSuccess ==
  ASSUME TypeOK, [Next]_vars, [SuccessCarried]_vars, NEW t \in Task
  PROVE  \/ Succeeded(t)' \subseteq Succeeded(t)
         \/ \E s \in Scan : /\ MarkRunSuccess(s) /\ Owns(s, t)
                            /\ pc'[s] = "succTask" /\ job'[s] = job[s]
                            /\ Succeeded(t)' \subseteq
                                  Succeeded(t) \cup {job[s].run}
<1>0. ControlOK /\ runs[t] \in Seq(TaskRun)  BY DEF TypeOK, ControlOK
<1>2. CASE runs'[t] = runs[t]  BY <1>2 DEF Succeeded
<1>3. ASSUME NEW s \in Scan, job[s].id = t, NEW st \in {"SUCCESS", "FAILED"},
             runs' = [runs EXCEPT ![job[s].id][job[s].run].status = st]
      PROVE  /\ Succeeded(t)' \subseteq Succeeded(t) \cup {job[s].run}
             /\ st = "FAILED" => Succeeded(t)' \subseteq Succeeded(t)
  <2>1. runs'[t] = [runs[t] EXCEPT ![job[s].run].status = st]
    BY <1>3 DEF TypeOK
  <2>2. DOMAIN runs'[t] = DOMAIN runs[t]  BY <2>1
  <2>3. \A k \in DOMAIN runs[t] :
          /\ k # job[s].run => runs'[t][k].status = runs[t][k].status
          /\ k = job[s].run => runs'[t][k].status = st
    BY <1>0, <2>1 DEF TaskRun
  <2>4. ASSUME NEW i \in DOMAIN runs'[t], runs'[t][i].status = "SUCCESS"
        PROVE  /\ i \in Succeeded(t) \cup {job[s].run}
               /\ st = "FAILED" => i \in Succeeded(t)
    <3>1. CASE i = job[s].run  BY <2>2, <2>3, <2>4, <3>1
    <3>2. CASE i # job[s].run  BY <2>2, <2>3, <2>4, <3>2 DEF Succeeded
    <3> QED  BY <3>1, <3>2
  <2> QED  BY <2>4 DEF Succeeded
<1>4. ASSUME NEW s \in Scan, job[s].id = t, MarkRunSuccess(s),
             runs'[t] # runs[t]
      PROVE  /\ Owns(s, t) /\ pc'[s] = "succTask" /\ job'[s] = job[s]
             /\ Succeeded(t)' \subseteq Succeeded(t) \cup {job[s].run}
  <2>1. Owns(s, t)  BY <1>4 DEF MarkRunSuccess, Owns, OwnerPC
  <2>2. GoTo(s, "succTask", job[s])
    <3>1. SUFFICES ASSUME Throw(s) PROVE FALSE
      BY <1>4 DEF MarkRunSuccess, AnswerLost
    <3>2. pc[s] = "succRun" /\ GoTo(s, "failRun", job[s])
      BY <1>4, <3>1 DEF MarkRunSuccess, Throw, RecoveryPC
    <3>3. pc'[s] = "failRun"  BY <1>0, <3>2 DEF GoTo, ControlOK
    <3>4. runs' = runs  BY <3>2, <3>3 DEF SuccessCarried, vars
    <3> QED  BY <1>4, <3>4
  <2> QED  BY <1>0, <1>3, <1>4, <2>1, <2>2 DEF MarkRunSuccess, GoTo, ControlOK
<1>5. ASSUME NEW s \in Scan, job[s].id = t, MarkRunFailed(s) \/ CloseStuckRun(s)
      PROVE  Succeeded(t)' \subseteq Succeeded(t)
  BY <1>3, <1>5 DEF MarkRunFailed, CloseStuckRun
<1>6. ASSUME NEW s \in Scan, job[s].id = t, CreateRunLog(s)
      PROVE  Succeeded(t)' \subseteq Succeeded(t)
  <2> DEFINE q == [status |-> "RUNNING", attemptNumber |-> job[s].runs + 1]
             n == Len(runs[t])
  <2>1. runs'[t] = Append(runs[t], q) /\ n \in Nat
    BY <1>0, <1>6 DEF CreateRunLog, TypeOK
  <2>2. /\ DOMAIN runs[t] = 1 .. n
        /\ DOMAIN runs'[t] = 1 .. n + 1
        /\ \A k \in 1 .. n : runs'[t][k] = runs[t][k]
        /\ runs'[t][n + 1] = q
    BY <1>0, <2>1
  <2>3. q.status # "SUCCESS"  OBVIOUS
  <2> QED  BY <2>1, <2>2, <2>3 DEF Succeeded
<1> QED  BY <1>2, <1>4, <1>5, <1>6, LogWriters DEF Closes

LEMMA OutcomeNext ==
  TypeOK /\ ExclusiveOwner /\ OutcomeInv /\ [Next]_vars /\ [SuccessCarried]_vars
    => OutcomeInv'
<1> SUFFICES ASSUME TypeOK, ExclusiveOwner, OutcomeInv, [Next]_vars,
                    [SuccessCarried]_vars,
                    NEW t \in Task \ contested', ScheduleKind(t) = "ONCE"
             PROVE  /\ OutcomeRecorded(t)'
                    /\ \A i, j \in Succeeded(t)' : i = j
  BY DEF OutcomeInv, ScheduleKind
<1>0. /\ t \in Task \ contested /\ contested \subseteq contested'
      /\ OutcomeRecorded(t)
      /\ \A i, j \in Succeeded(t) : i = j
  BY ContestedGrows DEF OutcomeInv
<1>1. /\ Executed(t) <=> Succeeded(t) # {}
      /\ Executed(t)' <=> Succeeded(t)' # {}
  BY DEF Executed, Succeeded
<1>2. ASSUME NEW s \in Scan, MarkRunSuccess(s), Owns(s, t),
             pc'[s] = "succTask", job'[s] = job[s],
             Succeeded(t)' \subseteq Succeeded(t) \cup {job[s].run}
      PROVE  /\ OutcomeRecorded(t)'
             /\ \A i, j \in Succeeded(t)' : i = j
  <2>1. /\ task[t].status = "RUNNING" /\ pc[s] = "succRun"
        /\ \A r \in Scan : Owns(r, t) => r = s
    BY <1>0, <1>2 DEF ExclusiveOwner, MarkRunSuccess
  <2>2. Succeeded(t) = {}  BY <1>0, <1>1, <2>1 DEF OutcomeRecorded
  <2>3. Owns(s, t)'  BY <1>2 DEF Owns, OwnerPC
  <2> QED  BY <1>2, <2>2, <2>3 DEF OutcomeRecorded
<1>3. ASSUME Succeeded(t)' \subseteq Succeeded(t)
      PROVE  OutcomeRecorded(t)'
  <2>1. SUFFICES ASSUME Executed(t)
                 PROVE  \/ task'[t].status = "SUCCESS"
                        \/ \E s \in Scan : Owns(s, t)' /\ pc'[s] = "succTask"
    BY <1>1, <1>3 DEF OutcomeRecorded
  <2>2. CASE task[t].status = "SUCCESS"
    <3>1. \A s \in Scan : ~ClaimWhere(t, task[t], Clock(s))
      BY <2>2 DEF ClaimWhere
    <3>2. ~Cancel(t)  BY <2>2 DEF Cancel, CancelWhere
    <3>3. task'[t] = task[t]
      BY <1>0, <2>2, <3>1, <3>2, RowWriters, SettlementReleases
    <3> QED  BY <2>2, <3>3
  <2>3. ASSUME NEW s \in Scan, Owns(s, t), pc[s] = "succTask"
        PROVE  \/ task'[t].status = "SUCCESS"
               \/ Owns(s, t)' /\ pc'[s] = "succTask"
    <3>1. task[t].status = "RUNNING" /\ job[s].id = t /\ task[t] \in TaskRow
      BY <1>0, <2>3 DEF ExclusiveOwner, Owns, TypeOK
    <3>2. CASE SettleSuccess(s)
      <4>1. task'[t] = SuccessSet(task[t])
        BY <3>1, <3>2 DEF SettleSuccess, TypeOK, SucceededRow
      <4> QED  BY <3>1, <4>1 DEF SuccessSet, TaskRow
    <3>3. CASE Stays(s)  BY <2>3, <3>3 DEF Stays, Owns
    <3> QED  BY <2>3, <3>1, <3>2, <3>3, CarriedOn
  <2> QED  BY <1>0, <2>1, <2>2, <2>3 DEF OutcomeRecorded
<1>4. ASSUME Succeeded(t)' \subseteq Succeeded(t)
      PROVE  \A i, j \in Succeeded(t)' : i = j
  BY <1>0, <1>4
<1> QED  BY <1>2, <1>3, <1>4, NewSuccess

UncontestedOnce ==
  [][\A t \in Task \ contested : ScheduleKind(t) = "ONCE" =>
        /\ \A i, j \in Succeeded(t) : i = j
        /\ Executed(t) => \A s \in Scan :
              pc[s] = "wait" /\ job[s].id = t => pc'[s] # "exec"]_vars

(* No executed ONCE task that is uncontested has a scan about to run it. *)
LEMMA NoneWaits ==
  ASSUME ExclusiveOwner, OutcomeInv, NEW t \in Task \ contested,
         ScheduleKind(t) = "ONCE", Executed(t), NEW s \in Scan,
         pc[s] = "wait", job[s].id = t
  PROVE  FALSE
<1>1. OutcomeRecorded(t) /\ Owns(s, t)
  BY DEF OutcomeInv, Owns, OwnerPC
<1>2. task[t].status = "RUNNING" /\ \A r \in Scan : Owns(r, t) => r = s
  BY <1>1 DEF ExclusiveOwner
<1> QED  BY <1>1, <1>2 DEF OutcomeRecorded

LEMMA OutcomesKept == Spec /\ [][SuccessCarried]_vars => []OutcomeInv
<1>1. Init => OutcomeInv
  <2> SUFFICES ASSUME Init, NEW t \in Task
               PROVE  ~Executed(t) /\ Succeeded(t) = {}
    BY DEF OutcomeInv, OutcomeRecorded
  <2>1. runs[t] = << >>  BY DEF Init
  <2> QED  BY <2>1 DEF Executed, Succeeded
<1> QED  BY <1>1, OutcomeNext, TypeCorrect, Exclusive, PTL DEF Spec

(* As long as no success is cut off between its two statements, a ONCE     *)
(* task that is not contested succeeds once and is not executed again,     *)
(* whatever crashes and fails elsewhere.                                   *)
THEOREM CarriedSuccessIsLast ==
  Spec /\ [][SuccessCarried]_vars => UncontestedOnce
<1>1. ExclusiveOwner /\ OutcomeInv =>
        [\A t \in Task \ contested : ScheduleKind(t) = "ONCE" =>
            /\ \A i, j \in Succeeded(t) : i = j
            /\ Executed(t) => \A s \in Scan :
                  pc[s] = "wait" /\ job[s].id = t => pc'[s] # "exec"]_vars
  BY NoneWaits DEF OutcomeInv
<1> QED
  BY <1>1, OutcomesKept, Exclusive, PTL DEF UncontestedOnce

(* README.md, line 9, with crashes: when the leases hold, two recoveries   *)
(* of one task never overlap, and no success is cut off between its two    *)
(* statements, executions of a task never overlap, and a ONCE task         *)
(* succeeds once and is not executed again.  Processes may end and         *)
(* statements fail at every other point.                                   *)
THEOREM OnceDespiteCrashes ==
  Spec /\ []LeasesHold /\ []RecoveriesApart /\ [][SuccessCarried]_vars
    => /\ [](contested = {}) /\ []NoOverlappingExecution
       /\ []SucceedsOnce /\ NoExecutionAfterSuccess
<1>1. [SuccessCarried]_vars => [SuccessHeard]_vars
  BY DEF SuccessCarried, SuccessHeard
<1>2. OutcomeInv /\ contested = {} => SucceedsOnce
  BY DEF OutcomeInv, SucceedsOnce
<1>3. ExclusiveOwner /\ OutcomeInv /\ contested = {} =>
        [\A t \in Task : ScheduleKind(t) = "ONCE" /\ Executed(t) =>
           \A s \in Scan : pc[s] = "wait" /\ job[s].id = t => pc'[s] # "exec"]_vars
  BY NoneWaits
<1> QED
  BY <1>1, <1>2, <1>3, LeaseSuffices, OutcomesKept, Exclusive, PTL
  DEF NoExecutionAfterSuccess
-----------------------------------------------------------------------------
(* The calm case: no node crashes, every statement is executed and         *)
(* answered, and the leases hold.                                          *)

NoRecovery(s) == pc[s] \notin RecoveryPC /\ work[s].stuck = {}

CalmInv ==
  /\ contested = {} /\ leaked = {} /\ up = Node
  /\ \A s \in Scan : NoRecovery(s)
  /\ \A t \in Task : task[t].status = "RUNNING" => ~Unowned(t)

(* No step of the calm case fails, recovers or stops anything. *)
LEMMA CalmSteps ==
  ASSUME Crashable = {}, Outage = 0,
         TypeOK, ExclusiveOwner, LeaseInv, LeasesHold, CalmInv, [Next]_vars
  PROVE  /\ contested' = {} /\ leaked' = {} /\ up' = Node
         /\ \A n \in Node : ~Halt(n)
         /\ \A s \in Scan : ~AnswerLost(s) /\ ~StatementFails(s)
         /\ \A s \in Scan : ~CloseStuckRun(s) /\ ~SettleStuckTask(s)
<1>1. \A s \in Scan : ~AnswerLost(s) /\ ~StatementFails(s)
  BY DEF TypeOK, AnswerLost, StatementFails
<1>2. \A s \in Scan : ~CloseStuckRun(s) /\ ~SettleStuckTask(s)
  BY DEF CalmInv, NoRecovery, RecoveryPC, CloseStuckRun, SettleStuckTask
<1>3. contested' = {}  BY <1>1, <1>2, ContestedBy DEF CalmInv
<1>4. leaked' = {}  BY NoneLeaks DEF CalmInv
<1>5. up' = Node
  <2>1. \A s \in Scan : ~TimerKillsNode(s)  BY NoTimeouts DEF CalmInv
  <2>2. \A n \in Node : ~Crash(n) /\ ~Restart(n)
    BY DEF Crash, Restart, CalmInv
  <2> QED
    BY <2>1, <2>2
    DEF CalmInv, Next, Advance, Recover, Prepare, Timer, Conclude, Tick,
        StartScan, StatementFails, FindStuckTasks, CloseStuckRun,
        SettleStuckTask, FindDueTasks, ClaimDueTask, FindTask, CreateRunLog,
        DelayDone, ExecutorReturns, ExecutorThrows, TimerFires, LeakedEnds,
        MarkRunSuccess, SettleSuccess, MarkRunFailed, SettleFailure, Cancel,
        vars
<1>6. \A n \in Node : ~Halt(n)
  BY <1>5 DEF CalmInv, Halt
<1> QED  BY <1>1, <1>2, <1>3, <1>4, <1>5, <1>6

(* A scan finds nothing stuck: what is RUNNING has an owner, and its lease *)
(* holds.                                                                  *)
LEMMA CalmRecovery ==
  ASSUME Crashable = {}, Outage = 0, TypeOK, ExclusiveOwner, ListInv, LeaseInv,
         LeasesHold, CalmInv, [Next]_vars, NEW s \in Scan
  PROVE  NoRecovery(s)'
<1>0. ControlOK /\ NoRecovery(s)  BY DEF TypeOK, ControlOK, CalmInv
<1>1. CASE FindStuckTasks(s)
  <2>1. \A t \in Task : ~StuckWhere(t, task[t], work[s].at)
    <3> SUFFICES ASSUME NEW t \in Task, StuckWhere(t, task[t], work[s].at)
                 PROVE  FALSE
      OBVIOUS
    <3>1. StuckWhere(t, task[t], Clock(s))  BY StuckLater
    <3>2. ~Unowned(t)  BY <3>1 DEF CalmInv, StuckWhere
    <3> QED  BY <3>1, <3>2 DEF LeasesHold, Unowned
  <2>2. NextStuck(s, {})  BY <1>1, <2>1 DEF FindStuckTasks
  <2>3. pc'[s] = "findDue" /\ work'[s].stuck = {}
    BY <1>0, <2>2 DEF NextStuck, ControlOK, Work
  <2> QED  BY <2>3 DEF NoRecovery, RecoveryPC
<1>2. ~CloseStuckRun(s) /\ ~TurnsToNext(s)
  BY <1>0 DEF NoRecovery, TurnsToNext, CloseStuckRun, RecoveryPC
<1>3. CASE RecoveryStays(s) \/ RecoveryOver(s)
  BY <1>0, <1>3 DEF RecoveryStays, RecoveryOver, NoRecovery
<1> QED  BY <1>1, <1>2, <1>3, RecoverySteps

(* A settlement ends the attempt. *)
LEMMA SettlementEnds ==
  ASSUME TypeOK, NEW s \in Scan, NEW t \in Task, job[s].id = t,
         SettleSuccess(s) \/ SettleFailure(s)
  PROVE  task'[t].status # "RUNNING"
<1>1. task[t] \in TaskRow  BY DEF TypeOK
<1>2. SucceededRow(t, task[t], Clock(s)).status # "RUNNING"
  BY <1>1 DEF SucceededRow, RescheduleSet, SuccessSet, TaskRow
<1>3. \A a, n : FailedRow(t, task[t], a, n).status # "RUNNING"
  BY <1>1 DEF FailedRow, RetryingSet, RescheduleSet, FailedSet, TaskRow
<1>4. \/ task'[t] = SucceededRow(t, task[t], Clock(s))
      \/ task'[t] = FailedRow(t, task[t], job[s].attempt, Clock(s))
  BY DEF SettleSuccess, SettleFailure, TypeOK
<1> QED  BY <1>2, <1>3, <1>4

(* An owner remains one until it settles its task. *)
LEMMA CalmOwner ==
  ASSUME Crashable = {}, Outage = 0, TypeOK, ExclusiveOwner, LeaseInv,
         LeasesHold, CalmInv, [Next]_vars,
         NEW s \in Scan, NEW t \in Task, Owns(s, t)
  PROVE  Owns(s, t)' \/ SettleSuccess(s) \/ SettleFailure(s)
<1>0. ControlOK /\ pc[s] \in OwnerPC /\ job[s].id = t
  BY DEF TypeOK, ControlOK, Owns
<1>1. /\ ~AnswerLost(s) /\ ~StatementFails(s) /\ \A n \in Node : ~Halt(n)
  BY CalmSteps
<1>2. ASSUME NEW label \in OwnerPC, NEW j, GoTo(s, label, j), j.id = t
      PROVE  Owns(s, t)'
  BY <1>0, <1>2 DEF GoTo, Owns, ControlOK
<1>3. CASE Stays(s)  BY <1>0, <1>3 DEF Stays, Owns
<1>4. CASE FindTask(s) \/ CreateRunLog(s)
  <2>1. ASSUME NEW a, NEW b
        PROVE  /\ [job[s] EXCEPT !.attempt = a, !.runs = b].id = t
               /\ [job[s] EXCEPT !.run = a, !.timer = b].id = t
    BY <1>0 DEF ControlOK, Job
  <2>2. \E label \in OwnerPC : \E j : GoTo(s, label, j) /\ j.id = t
    BY <1>1, <1>4, <2>1 DEF FindTask, CreateRunLog, OwnerPC
  <2> QED  BY <1>2, <2>2
<1>5. CASE \/ DelayDone(s) \/ ExecutorReturns(s) \/ ExecutorThrows(s)
           \/ TimerFires(s)
  BY <1>0, <1>2, <1>5
  DEF DelayDone, ExecutorReturns, ExecutorThrows, TimerFires, OwnerPC
<1>6. CASE MarkRunSuccess(s) \/ MarkRunFailed(s)
  BY <1>0, <1>1, <1>2, <1>6 DEF MarkRunSuccess, MarkRunFailed, OwnerPC
<1> QED  BY <1>1, <1>3, <1>4, <1>5, <1>6, OwnerSteps DEF OwnStep

LEMMA CalmRunning ==
  ASSUME Crashable = {}, Outage = 0, TypeOK, ExclusiveOwner, LeaseInv,
         LeasesHold, CalmInv, [Next]_vars,
         NEW t \in Task, task'[t].status = "RUNNING"
  PROVE  ~Unowned(t)'
<1>0. ControlOK  BY DEF TypeOK, ControlOK
<1>1. \A s \in Scan : /\ ~AnswerLost(s) /\ ~SettleStuckTask(s)
                      /\ Owns(s, t) => Owns(s, t)'
  BY CalmSteps, CalmOwner, SettlementEnds DEF Owns
<1>2. CASE task'[t] = task[t]
  BY <1>1, <1>2 DEF CalmInv, Unowned
<1>3. CASE Cancel(t)
  BY <1>3 DEF Cancel, CancelSet, TypeOK, TaskRow
<1>4. ASSUME NEW s \in Scan, job[s].id = t, ClaimDueTask(s),
             ClaimWhere(t, task[t], Clock(s))
      PROVE  Owns(s, t)'
  <2>1. GoTo(s, "read", job[s])  BY <1>1, <1>4 DEF ClaimDueTask
  <2> QED  BY <1>0, <1>4, <2>1 DEF GoTo, ControlOK, Owns, OwnerPC
<1> QED
  BY <1>1, <1>2, <1>3, <1>4, RowWriters, SettlementEnds DEF Unowned

(* A success of the calm case is carried through. *)
LEMMA CalmCarried ==
  ASSUME Crashable = {}, Outage = 0, TypeOK, ExclusiveOwner, LeaseInv,
         LeasesHold, CalmInv, [Next]_vars
  PROVE  SuccessCarried
<1> SUFFICES ASSUME NEW s \in Scan, pc[s] \in {"succRun", "succTask"},
                    pc'[s] # pc[s]
             PROVE  /\ pc'[s] # "failRun"
                    /\ pc[s] = "succTask" => task'[job[s].id].status # "RUNNING"
  BY DEF SuccessCarried
<1>0. ControlOK  BY DEF TypeOK, ControlOK
<1>1. PICK t \in Task : t = job[s].id
  BY DEF TypeOK, Working, OwnerPC
<1>2. Owns(s, t)  BY <1>1 DEF Owns, OwnerPC
<1>3. ~AnswerLost(s) /\ ~StatementFails(s) /\ \A n \in Node : ~Halt(n)
  BY CalmSteps
<1>4. MarkRunSuccess(s) \/ SettleSuccess(s)
  BY <1>2, <1>3, OwnerSteps
  DEF Stays, OwnStep, SettleFailure, FindTask, CreateRunLog, DelayDone,
      ExecutorReturns, ExecutorThrows, TimerFires, MarkRunFailed
<1>5. CASE MarkRunSuccess(s)
  BY <1>0, <1>3, <1>5 DEF MarkRunSuccess, GoTo, ControlOK
<1>6. CASE SettleSuccess(s)
  <2>1. NextDue(s, work[s].due)  BY <1>3, <1>6 DEF SettleSuccess
  <2>2. pc'[s] \in {"idle", "claim"}  BY <1>0, <2>1 DEF NextDue, ControlOK
  <2> QED  BY <1>1, <1>6, <2>2, SettlementEnds
<1> QED  BY <1>4, <1>5, <1>6

CalmOK == contested = {} /\ NoOverlappingExecution /\ SucceedsOnce
          /\ TimeoutSparesNode

(* README.md, line 9, in the calm case: each task is executed exactly once *)
(* at a time and a ONCE task succeeds once, no executed ONCE task is       *)
(* executed again, and no timeout ends a process, for any number of nodes, *)
(* scans and tasks.  That the leases hold is all it takes beside a calm    *)
(* database and processes that live: what OnceDespiteCrashes asks of       *)
(* recoveries and successes comes true, since nothing is ever recovered or *)
(* cut off.                                                                *)
THEOREM ExactlyOnce ==
  ASSUME Crashable = {}, Outage = 0
  PROVE  Spec /\ []LeasesHold => []CalmOK /\ NoExecutionAfterSuccess
<1>1. Init => CalmInv
  <2> SUFFICES ASSUME Init PROVE CalmInv  OBVIOUS
  <2>1. \A t \in Task : task[t].status = "PENDING"
    BY DEF Init, CreatedRow
  <2>2. \A s \in Scan : NoRecovery(s)
    BY DEF Init, NoRecovery, NoWork, RecoveryPC
  <2> QED  BY <2>1, <2>2 DEF Init, CalmInv
<1>2. /\ TypeOK /\ ExclusiveOwner /\ ListInv /\ LeaseInv /\ LeasesHold
      /\ CalmInv /\ [Next]_vars
      => CalmInv' /\ SuccessCarried
  <2> SUFFICES ASSUME TypeOK, ExclusiveOwner, ListInv, LeaseInv, LeasesHold,
                      CalmInv, [Next]_vars
               PROVE  CalmInv' /\ SuccessCarried
    OBVIOUS
  <2>1. contested' = {} /\ leaked' = {} /\ up' = Node  BY CalmSteps
  <2>2. \A s \in Scan : NoRecovery(s)'  BY CalmRecovery
  <2>3. \A t \in Task : task'[t].status = "RUNNING" => ~Unowned(t)'
    BY CalmRunning
  <2> QED  BY <2>1, <2>2, <2>3, CalmCarried DEF CalmInv
<1>3. CalmInv => RecoveriesApart /\ TimeoutSparesNode
  BY DEF CalmInv, NoRecovery, RecoveriesApart, Recovers, TimeoutSparesNode
<1>4. Spec /\ []LeasesHold => []CalmInv /\ [][SuccessCarried]_vars
  BY <1>1, <1>2, TypeCorrect, Exclusive, ListsKept, LeasesKept, PTL DEF Spec
<1>5. /\ contested = {} /\ NoOverlappingExecution /\ SucceedsOnce
      /\ TimeoutSparesNode
      => CalmOK
  BY DEF CalmOK
<1> QED  BY <1>3, <1>4, <1>5, OnceDespiteCrashes, PTL
=============================================================================
