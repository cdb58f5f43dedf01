--------------------------- MODULE SchedulerProofs ---------------------------
(***************************************************************************)
(* Theorems about Scheduler, for any tasks, nodes, slots, timeouts, retry  *)
(* delays and bounds, with crashes and failing statements allowed.         *)
(***************************************************************************)
EXTENDS Scheduler, TaskStoreProofs, SequenceTheorems

-----------------------------------------------------------------------------
(* Control of a scan keeps the types of its variables.                     *)

ControlOK == /\ pc \in [Scan -> PC]
             /\ work \in [Scan -> Work]
             /\ job \in [Scan -> Job]
             /\ \A s \in Scan : pc[s] \in Working => job[s].id \in Task

LEMMA NoneTypes == NoJob \in Job /\ NoWork \in Work
BY DEF NoJob, Job, NoWork, Work

LEMMA GoToType ==
  ASSUME ControlOK, NEW s \in Scan, NEW label \in PC, NEW j \in Job,
         label \in Working => j.id \in Task,
         GoTo(s, label, j)
  PROVE  ControlOK'
BY DEF ControlOK, GoTo

LEMMA NextStuckType ==
  ASSUME ControlOK, NEW s \in Scan, NEW rest \in SUBSET StuckEntry,
         NextStuck(s, rest)
  PROVE  ControlOK'
<1>1. CASE rest = {} /\ pc' = [pc EXCEPT ![s] = "findDue"]
           /\ work' = [work EXCEPT ![s].stuck = {}]
           /\ job' = [job EXCEPT ![s] = NoJob]
  <2>1. {"findDue"} \subseteq PC \ Working
    BY DEF PC, Working, RecoveryPC, OwnerPC
  <2> QED  BY <1>1, <2>1, NoneTypes DEF ControlOK, Work
<1>2. ASSUME NEW e \in rest, NEW run \in IF e.open = {} THEN {0} ELSE e.open,
             pc' = [pc EXCEPT ![s] = IF run = 0 THEN "stuckTask" ELSE "stuckRun"],
             work' = [work EXCEPT ![s].stuck = rest \ {e}],
             job' = [job EXCEPT ![s] = [NoJob EXCEPT !.id = e.id,
                                          !.attempt = e.attempt, !.run = run]]
      PROVE  ControlOK'
  <2>1. e.id \in Task /\ e.attempt \in Nat /\ run \in Nat  BY <1>2 DEF StuckEntry
  <2>2. [NoJob EXCEPT !.id = e.id, !.attempt = e.attempt, !.run = run] \in Job
    BY <2>1 DEF NoJob, Job
  <2>3. pc' \in [Scan -> PC]
    BY <1>2 DEF ControlOK, PC, Working, RecoveryPC
  <2>4. work' \in [Scan -> Work]  BY <1>2 DEF ControlOK, Work
  <2>5. job' \in [Scan -> Job]  BY <1>2, <2>2 DEF ControlOK
  <2>6. ASSUME NEW r \in Scan, pc'[r] \in Working PROVE job'[r].id \in Task
    <3>1. CASE r = s
      <4>1. job'[s] = [NoJob EXCEPT !.id = e.id, !.attempt = e.attempt,
                                    !.run = run]
        BY <1>2 DEF ControlOK
      <4> QED  BY <3>1, <4>1, <2>1 DEF NoJob
    <3>2. CASE r # s  BY <1>2, <2>6, <3>2 DEF ControlOK
    <3> QED  BY <3>1, <3>2
  <2> QED  BY <2>3, <2>4, <2>5, <2>6 DEF ControlOK
<1> QED  BY <1>1, <1>2 DEF NextStuck

LEMMA NextDueType ==
  ASSUME ControlOK, NEW s \in Scan, NEW rest \in SUBSET DueEntry,
         NextDue(s, rest)
  PROVE  ControlOK'
<1>1. CASE rest = {} /\ pc' = [pc EXCEPT ![s] = "idle"]
           /\ work' = [work EXCEPT ![s] = NoWork]
           /\ job' = [job EXCEPT ![s] = NoJob]
  <2>1. {"idle"} \subseteq PC \ Working
    BY DEF PC, Working, RecoveryPC, OwnerPC
  <2> QED  BY <1>1, <2>1, NoneTypes DEF ControlOK
<1>2. ASSUME NEW e \in rest,
             pc' = [pc EXCEPT ![s] = "claim"],
             work' = [work EXCEPT ![s].due = rest \ {e}],
             job' = [job EXCEPT ![s] = [NoJob EXCEPT !.id = e.id]]
      PROVE  ControlOK'
  <2>1. [NoJob EXCEPT !.id = e.id] \in Job  BY DEF NoJob, Job, DueEntry
  <2>2. pc' \in [Scan -> PC]    BY <1>2 DEF ControlOK, PC, Working
  <2>3. work' \in [Scan -> Work]  BY <1>2 DEF ControlOK, Work
  <2>4. job' \in [Scan -> Job]  BY <1>2, <2>1 DEF ControlOK
  <2>5. ASSUME NEW r \in Scan, pc'[r] \in Working PROVE job'[r].id \in Task
    <3>1. CASE r = s
      <4>1. job'[s] = [NoJob EXCEPT !.id = e.id]  BY <1>2 DEF ControlOK
      <4> QED  BY <3>1, <4>1 DEF NoJob, DueEntry
    <3>2. CASE r # s  BY <1>2, <2>5, <3>2 DEF ControlOK
    <3> QED  BY <3>1, <3>2
  <2> QED  BY <2>2, <2>3, <2>4, <2>5 DEF ControlOK
<1> QED  BY <1>1, <1>2 DEF NextDue

LEMMA ThrowType ==
  ASSUME ControlOK, NEW s \in Scan, Throw(s)
  PROVE  ControlOK'
<1>1. work[s].stuck \in SUBSET StuckEntry /\ work[s].due \in SUBSET DueEntry
  BY DEF ControlOK, Work
<1>2. job[s] \in Job /\ {} \in SUBSET DueEntry  BY DEF ControlOK
<1>3. /\ {"findDue", "failRun"} \subseteq PC
      /\ "findDue" \notin Working
      /\ {"succRun", "succTask"} \subseteq Working
  BY DEF PC, Working, RecoveryPC, OwnerPC
<1>4. CASE pc[s] = "findStuck" /\ GoTo(s, "findDue", NoJob)
  BY <1>3, <1>4, NoneTypes, GoToType
<1>5. CASE pc[s] \in {"succRun", "succTask"} /\ GoTo(s, "failRun", job[s])
  <2>1. job[s].id \in Task  BY <1>3, <1>5 DEF ControlOK
  <2> QED  BY <1>2, <1>3, <1>5, <2>1, GoToType
<1> QED
  BY <1>1, <1>2, <1>4, <1>5, NextStuckType, NextDueType DEF Throw

-----------------------------------------------------------------------------
(* The run logs.                                                           *)

RunStatus == {"RUNNING", "SUCCESS", "FAILED"}

(* Marking a run log that may or may not be there. *)
LEMMA MarkedSeqType ==
  ASSUME NEW q \in Seq(TaskRun), NEW i \in Nat, NEW st \in RunStatus
  PROVE  [q EXCEPT ![i].status = st] \in Seq(TaskRun)
<1>1. CASE i \in 1 .. Len(q)
  <2>1. q[i] \in TaskRun  BY <1>1
  <2>2. [q[i] EXCEPT !.status = st] \in TaskRun  BY <2>1 DEF TaskRun, RunStatus
  <2> QED  BY <1>1, <2>2, ExceptSeq
<1>2. CASE i \notin 1 .. Len(q)
  <2>1. DOMAIN q = 1 .. Len(q)  OBVIOUS
  <2>2. [q EXCEPT ![i].status = st] = q  BY <1>2, <2>1
  <2> QED  BY <2>2
<1> QED  BY <1>1, <1>2

LEMMA MarkedRunsType ==
  ASSUME runs \in [Task -> Seq(TaskRun)], NEW t, NEW i \in Nat,
         NEW st \in RunStatus,
         runs' = [runs EXCEPT ![t][i].status = st]
  PROVE  runs' \in [Task -> Seq(TaskRun)]
<1>1. \A u \in Task : [runs[u] EXCEPT ![i].status = st] \in Seq(TaskRun)
  BY MarkedSeqType
<1>2. \A u \in Task : runs'[u] = IF u = t THEN [runs[u] EXCEPT ![i].status = st]
                                          ELSE runs[u]
  OBVIOUS
<1>3. DOMAIN runs' = Task /\ runs' = [u \in DOMAIN runs' |-> runs'[u]]
  OBVIOUS
<1> QED  BY <1>1, <1>2, <1>3

LEMMA LatestOpenType ==
  ASSUME TypeOK, NEW t \in Task
  PROVE  LatestOpen(t) \in SUBSET Nat
BY DEF TypeOK, LatestOpen, OpenRuns

-----------------------------------------------------------------------------
(* Type correctness.                                                       *)

LEMMA TypeInit == Init => TypeOK
<1> SUFFICES ASSUME Init PROVE TypeOK  OBVIOUS
<1>1. \A t \in Task : CreatedRow(t, 0) \in TaskRow  BY CreatedRowType
<1>2. "idle" \in PC \ Working  BY DEF PC, Working, RecoveryPC, OwnerPC
<1>3. << >> \in Seq(TaskRun)  OBVIOUS
<1> QED  BY <1>1, <1>2, <1>3, NoneTypes DEF Init, TypeOK

(* The instant a node reads is a number. *)
LEMMA ClockType ==
  ASSUME TypeOK, NEW s \in Scan
  PROVE  Clock(s) \in Nat
<1>1. NodeOf(s) \in Node  BY DEF NodeOf, Scan
<1>2. Skew[NodeOf(s)] \in Nat  BY <1>1, EngineAssumption
<1> QED  BY <1>2 DEF Clock, TypeOK

LEMMA TypeNext == TypeOK /\ [Next]_vars => TypeOK'
<1> SUFFICES ASSUME TypeOK, [Next]_vars PROVE TypeOK'  OBVIOUS
<1>0. ControlOK /\ (ControlOK' =>
         /\ pc' \in [Scan -> PC]
         /\ work' \in [Scan -> Work]
         /\ job' \in [Scan -> Job]
         /\ \A s \in Scan : pc'[s] \in Working => job'[s].id \in Task)
  BY DEF TypeOK, ControlOK
<1>T. \A t \in Task : task[t] \in TaskRow  BY DEF TypeOK
<1>J. \A s \in Scan : /\ job[s] \in Job
                      /\ job[s].attempt \in Nat /\ job[s].runs \in Nat
                      /\ job[s].run \in Nat /\ job[s].timer \in Nat
  BY DEF TypeOK, Job
<1>I. \A s \in Scan : pc[s] \in Working => job[s].id \in Task  BY DEF TypeOK
<1>W. \A s \in Scan : /\ work[s].stuck \in SUBSET StuckEntry
                      /\ work[s].due \in SUBSET DueEntry
  BY DEF TypeOK, Work
<1>P. /\ {"claim", "read", "log", "wait", "exec", "succRun", "succTask",
          "failRun", "failTask", "stuckRun", "stuckTask"} \subseteq Working
      /\ Working \subseteq PC
      /\ {"findStuck", "idle"} \subseteq PC \ Working
      /\ {"RUNNING", "SUCCESS", "FAILED"} = RunStatus
  BY DEF PC, Working, OwnerPC, RecoveryPC, RunStatus
<1>1. CASE Tick  BY <1>1 DEF TypeOK, Tick
<1>2. ASSUME NEW s \in Scan, StartScan(s) PROVE TypeOK'
  BY <1>2, <1>P, ClockType DEF TypeOK, StartScan, Work
<1>3. ASSUME NEW s \in Scan, FindStuckTasks(s) PROVE TypeOK'
  <2> DEFINE found == {[id |-> t, attempt |-> task[t].attemptCount,
                        open |-> LatestOpen(t)] :
                       t \in {u \in Task : StuckWhere(u, task[u], work[s].at)}}
  <2>1. found \in SUBSET StuckEntry
    BY <1>T, LatestOpenType DEF StuckEntry, TaskRow
  <2>2. NextStuck(s, found)  BY <1>3 DEF FindStuckTasks
  <2> HIDE DEF found
  <2>3. ControlOK'  BY <1>0, <2>1, <2>2, NextStuckType
  <2> QED  BY <1>0, <1>3, <2>3 DEF TypeOK, FindStuckTasks
<1>4. ASSUME NEW s \in Scan, CloseStuckRun(s) PROVE TypeOK'
  <2>1. runs' \in [Task -> Seq(TaskRun)]
    BY <1>4, <1>J, <1>P, MarkedRunsType DEF CloseStuckRun, TypeOK
  <2>2. ControlOK'
    BY <1>0, <1>4, <1>I, <1>J, <1>P, GoToType, ThrowType
    DEF CloseStuckRun, AnswerLost
  <2> QED  BY <1>0, <1>4, <2>1, <2>2 DEF TypeOK, CloseStuckRun
<1>5. ASSUME NEW s \in Scan, SettleStuckTask(s) PROVE TypeOK'
  <2>1. task' \in [Task -> TaskRow]
    BY <1>5, <1>J, <1>T, RowTypes, ClockType DEF SettleStuckTask, TypeOK
  <2>2. ControlOK'  BY <1>0, <1>5, <1>W, NextStuckType DEF SettleStuckTask
  <2>3. contested' \subseteq Task
    BY <1>5, <1>I, <1>P DEF SettleStuckTask, TypeOK
  <2> QED  BY <1>0, <1>5, <2>1, <2>2, <2>3 DEF TypeOK, SettleStuckTask
<1>6. ASSUME NEW s \in Scan, FindDueTasks(s) PROVE TypeOK'
  <2>1. PICK batch \in SUBSET Task :
          NextDue(s, {[id |-> t, nextRunAt |-> task[t].nextRunAt] : t \in batch})
    BY <1>6 DEF FindDueTasks
  <2>2. {[id |-> t, nextRunAt |-> task[t].nextRunAt] : t \in batch}
           \in SUBSET DueEntry
    BY <1>T DEF DueEntry, TaskRow
  <2>3. ControlOK'  BY <1>0, <2>1, <2>2, NextDueType
  <2> QED  BY <1>0, <1>6, <2>3 DEF TypeOK, FindDueTasks
<1>7. ASSUME NEW s \in Scan, ClaimDueTask(s) PROVE TypeOK'
  <2> DEFINE t == job[s].id
  <2>0. t \in Task /\ Clock(s) \in Nat
    BY <1>7, <1>I, <1>P, ClockType DEF ClaimDueTask
  <2>1. ClaimSet(task[t], Clock(s)) \in TaskRow  BY <1>T, <2>0, RowTypes
  <2>2. task' = [task EXCEPT ![t] = ClaimSet(task[t], Clock(s))] \/ task' = task
    BY <1>7 DEF ClaimDueTask
  <2>3. task' \in [Task -> TaskRow]  BY <2>0, <2>1, <2>2 DEF TypeOK
  <2>4. ControlOK'
    BY <1>0, <1>7, <1>I, <1>J, <1>P, <1>W, GoToType, ThrowType, NextDueType
    DEF ClaimDueTask, AnswerLost
  <2> QED  BY <1>0, <1>7, <2>3, <2>4 DEF TypeOK, ClaimDueTask
<1>8. ASSUME NEW s \in Scan, FindTask(s) PROVE TypeOK'
  <2> DEFINE t == job[s].id
             j == [job[s] EXCEPT !.attempt = task[t].attemptCount,
                                 !.runs = Len(runs[t])]
  <2>1. t \in Task  BY <1>8, <1>I, <1>P DEF FindTask
  <2>2. task[t].attemptCount \in Nat /\ Len(runs[t]) \in Nat
    BY <1>T, <2>1 DEF TypeOK, TaskRow
  <2>3. j \in Job /\ j.id \in Task  BY <1>J, <2>1, <2>2 DEF Job
  <2>4. GoTo(s, "log", j)  BY <1>8 DEF FindTask
  <2> HIDE DEF j
  <2>5. ControlOK'  BY <1>0, <1>P, <2>3, <2>4, GoToType
  <2> QED  BY <1>0, <1>8, <2>5 DEF TypeOK, FindTask
<1>9. ASSUME NEW s \in Scan, CreateRunLog(s) PROVE TypeOK'
  <2> DEFINE t == job[s].id
             j == [job[s] EXCEPT !.run = Len(runs[t]) + 1, !.timer = now]
             q == [status |-> "RUNNING", attemptNumber |-> job[s].runs + 1]
  <2>1. t \in Task  BY <1>9, <1>I, <1>P DEF CreateRunLog
  <2>2. q \in TaskRun  BY <1>J DEF TaskRun
  <2>3. Append(runs[t], q) \in Seq(TaskRun)
    BY <2>1, <2>2, AppendProperties DEF TypeOK
  <2>4. runs' \in [Task -> Seq(TaskRun)]
    BY <1>9, <2>3 DEF CreateRunLog, TypeOK
  <2>5. Len(runs[t]) + 1 \in Nat /\ now \in Nat  BY <2>1 DEF TypeOK
  <2>6. ASSUME NEW m \in Nat
        PROVE  /\ [job[s] EXCEPT !.run = m, !.timer = now] \in Job
               /\ [job[s] EXCEPT !.run = m, !.timer = now].id = t
    BY <1>J, <2>5 DEF Job
  <2>7. j \in Job /\ j.id \in Task  BY <2>1, <2>5, <2>6
  <2>8. GoTo(s, "wait", j) \/ Throw(s)  BY <1>9 DEF CreateRunLog, AnswerLost
  <2> HIDE DEF j
  <2>9. ControlOK'  BY <1>0, <1>P, <2>7, <2>8, GoToType, ThrowType
  <2> QED  BY <1>0, <1>9, <2>4, <2>9 DEF TypeOK, CreateRunLog
<1>10. ASSUME NEW s \in Scan, NEW label \in {"exec", "succRun", "failRun"},
              pc[s] \in {"wait", "exec"}, GoTo(s, label, job[s])
       PROVE  ControlOK'
  BY <1>0, <1>10, <1>I, <1>J, <1>P, GoToType
<1>11. ASSUME NEW s \in Scan,
              DelayDone(s) \/ ExecutorReturns(s) \/ ExecutorThrows(s)
       PROVE  TypeOK'
  BY <1>0, <1>10, <1>11
  DEF TypeOK, DelayDone, ExecutorReturns, ExecutorThrows
<1>12. ASSUME NEW s \in Scan, TimerFires(s) PROVE TypeOK'
  <2>1. ControlOK'  BY <1>10, <1>12 DEF TimerFires
  <2>2. NodeOf(s) \in Node  BY DEF NodeOf, Scan
  <2>3. leaked' \subseteq Execution
    BY <1>12, <1>I, <1>J, <1>P, <2>2 DEF TimerFires, Execution, TypeOK
  <2> QED  BY <1>0, <1>12, <2>1, <2>3 DEF TypeOK, TimerFires
<1>13. ASSUME NEW s \in Scan, MarkRunSuccess(s) \/ MarkRunFailed(s)
       PROVE  TypeOK'
  <2>1. runs' \in [Task -> Seq(TaskRun)]
    BY <1>13, <1>J, <1>P, MarkedRunsType
    DEF MarkRunSuccess, MarkRunFailed, TypeOK
  <2>2. ControlOK'
    BY <1>0, <1>13, <1>I, <1>J, <1>P, GoToType, ThrowType
    DEF MarkRunSuccess, MarkRunFailed, AnswerLost
  <2> QED
    BY <1>0, <1>13, <2>1, <2>2 DEF TypeOK, MarkRunSuccess, MarkRunFailed
<1>14. ASSUME NEW s \in Scan, SettleSuccess(s) PROVE TypeOK'
  <2>1. task' \in [Task -> TaskRow]
    BY <1>14, <1>T, RowTypes, ClockType DEF SettleSuccess, TypeOK
  <2>2. ControlOK'
    BY <1>0, <1>14, <1>W, ThrowType, NextDueType DEF SettleSuccess, AnswerLost
  <2>3. contested' \subseteq Task
    BY <1>14, <1>I, <1>P DEF SettleSuccess, TypeOK
  <2> QED  BY <1>0, <1>14, <2>1, <2>2, <2>3 DEF TypeOK, SettleSuccess
<1>15. ASSUME NEW s \in Scan, SettleFailure(s) PROVE TypeOK'
  <2>1. task' \in [Task -> TaskRow]
    BY <1>15, <1>J, <1>T, RowTypes, ClockType DEF SettleFailure, TypeOK
  <2>2. ControlOK'  BY <1>0, <1>15, <1>W, NextDueType DEF SettleFailure
  <2> QED  BY <1>0, <1>15, <2>1, <2>2 DEF TypeOK, SettleFailure
<1>16. ASSUME NEW s \in Scan, StatementFails(s) PROVE TypeOK'
  BY <1>0, <1>16, ThrowType DEF TypeOK, StatementFails
<1>17. ASSUME NEW n \in Node, Halt(n) PROVE TypeOK'
  BY <1>17, <1>P, NoneTypes DEF TypeOK, Halt
<1>18. ASSUME NEW n \in Node, Crash(n) \/ Restart(n) PROVE TypeOK'
  <2>1. CASE Crash(n)    BY <1>17, <2>1 DEF Crash
  <2>2. CASE Restart(n)  BY <2>2 DEF TypeOK, Restart
  <2> QED  BY <1>18, <2>1, <2>2
<1>19. ASSUME NEW s \in Scan, TimerKillsNode(s) PROVE TypeOK'
  BY <1>17, <1>19 DEF TimerKillsNode, NodeOf, Scan
<1>20. ASSUME NEW e \in leaked, LeakedEnds(e) PROVE TypeOK'
  BY <1>20 DEF TypeOK, LeakedEnds
<1>21. ASSUME NEW t \in Task, Cancel(t) PROVE TypeOK'
  BY <1>21, <1>T, RowTypes DEF TypeOK, Cancel
<1>22. CASE UNCHANGED vars  BY <1>22 DEF TypeOK, vars
<1> QED
  BY <1>1, <1>2, <1>3, <1>4, <1>5, <1>6, <1>7, <1>8, <1>9, <1>11, <1>12, <1>13,
     <1>14, <1>15, <1>16, <1>18, <1>19, <1>20, <1>21, <1>22
  DEF Next, Advance, Recover, Prepare, Timer, Conclude

(* Every variable keeps its type, and a scan with work in hand names the   *)
(* task it is about: for any number of tasks, nodes, slots and instants.   *)
THEOREM TypeCorrect == Spec => []TypeOK
<1> QED  BY TypeInit, TypeNext, PTL DEF Spec

-----------------------------------------------------------------------------
(* Who owns a task, and who writes its row.                                *)

(* A scan that turns to its next task owns none. *)
LEMMA NextOwns ==
  ASSUME ControlOK, NEW s \in Scan, NEW rest,
         NextDue(s, rest) \/ NextStuck(s, rest),
         NEW r \in Scan, NEW t \in Task, Owns(r, t)'
  PROVE  r # s /\ Owns(r, t)
<1>1. pc'[s] \in {"idle", "claim", "findDue", "stuckTask", "stuckRun"}
  BY DEF NextDue, NextStuck, ControlOK
<1>2. r # s  BY <1>1 DEF Owns, OwnerPC
<1>3. pc'[r] = pc[r] /\ job'[r] = job[r]
  BY <1>2 DEF NextDue, NextStuck, ControlOK
<1> QED  BY <1>2, <1>3 DEF Owns

LEMMA GoToOwns ==
  ASSUME ControlOK, NEW s \in Scan, NEW label, NEW j, GoTo(s, label, j),
         NEW r \in Scan, NEW t \in Task, Owns(r, t)'
  PROVE  \/ r = s /\ label \in OwnerPC /\ j.id = t
         \/ r # s /\ Owns(r, t)
BY DEF Owns, GoTo, ControlOK

(* An exception never makes an owner. *)
LEMMA ThrowOwns ==
  ASSUME ControlOK, NEW s \in Scan, Throw(s),
         NEW r \in Scan, NEW t \in Task, Owns(r, t)'
  PROVE  Owns(r, t)
<1>1. CASE pc[s] = "findStuck" /\ GoTo(s, "findDue", NoJob)
  BY <1>1, GoToOwns DEF OwnerPC
<1>2. CASE pc[s] \in {"succRun", "succTask"} /\ GoTo(s, "failRun", job[s])
  BY <1>2, GoToOwns DEF Owns, OwnerPC
<1>3. CASE \/ NextStuck(s, work[s].stuck) \/ NextDue(s, work[s].due)
           \/ NextDue(s, {})
  BY <1>3, NextOwns
<1> QED  BY <1>1, <1>2, <1>3 DEF Throw

(* Only claimDueTask makes an owner. *)
LEMMA NoNewOwner ==
  ASSUME TypeOK, [Next]_vars, NEW r \in Scan, NEW t \in Task, Owns(r, t)'
  PROVE  \/ Owns(r, t)
         \/ ClaimDueTask(r) /\ job[r].id = t /\ ClaimWhere(t, task[t], Clock(r))
<1>0. ControlOK  BY DEF TypeOK, ControlOK
<1>1. ASSUME NEW s \in Scan, FindStuckTasks(s) \/ SettleStuckTask(s)
      PROVE  Owns(r, t)
  BY <1>0, <1>1, NextOwns DEF FindStuckTasks, SettleStuckTask
<1>2. ASSUME NEW s \in Scan, FindDueTasks(s) \/ SettleFailure(s)
      PROVE  Owns(r, t)
  BY <1>0, <1>2, NextOwns DEF FindDueTasks, SettleFailure
<1>3. ASSUME NEW s \in Scan, CloseStuckRun(s) PROVE Owns(r, t)
  BY <1>0, <1>3, GoToOwns, ThrowOwns DEF CloseStuckRun, AnswerLost, OwnerPC
<1>4. ASSUME NEW s \in Scan, ClaimDueTask(s)
      PROVE  \/ Owns(r, t)
             \/ r = s /\ job[r].id = t /\ ClaimWhere(t, task[t], Clock(r))
  BY <1>0, <1>4, GoToOwns, ThrowOwns, NextOwns DEF ClaimDueTask, AnswerLost
<1>5. ASSUME NEW s \in Scan, FindTask(s) PROVE Owns(r, t)
  <2> DEFINE j == [job[s] EXCEPT !.attempt = task[job[s].id].attemptCount,
                                 !.runs = Len(runs[job[s].id])]
  <2>1. j.id = job[s].id /\ pc[s] \in OwnerPC
    BY <1>0, <1>5 DEF FindTask, ControlOK, Job, OwnerPC
  <2>2. GoTo(s, "log", j)  BY <1>5 DEF FindTask
  <2> HIDE DEF j
  <2> QED  BY <1>0, <2>1, <2>2, GoToOwns DEF Owns
<1>6. ASSUME NEW s \in Scan, CreateRunLog(s) PROVE Owns(r, t)
  <2> DEFINE j == [job[s] EXCEPT !.run = Len(runs[job[s].id]) + 1, !.timer = now]
  <2>1. j.id = job[s].id /\ pc[s] \in OwnerPC
    BY <1>0, <1>6 DEF CreateRunLog, ControlOK, Job, OwnerPC
  <2>2. GoTo(s, "wait", j) \/ Throw(s)  BY <1>6 DEF CreateRunLog, AnswerLost
  <2> HIDE DEF j
  <2> QED  BY <1>0, <2>1, <2>2, GoToOwns, ThrowOwns DEF Owns
<1>7. ASSUME NEW s \in Scan, NEW label, GoTo(s, label, job[s]),
             pc[s] \in OwnerPC
      PROVE  Owns(r, t)
  BY <1>0, <1>7, GoToOwns DEF Owns
<1>8. ASSUME NEW s \in Scan, \/ DelayDone(s) \/ ExecutorReturns(s)
                             \/ ExecutorThrows(s) \/ TimerFires(s)
      PROVE  Owns(r, t)
  BY <1>7, <1>8
  DEF DelayDone, ExecutorReturns, ExecutorThrows, TimerFires, OwnerPC
<1>9. ASSUME NEW s \in Scan, MarkRunSuccess(s) \/ MarkRunFailed(s)
      PROVE  Owns(r, t)
  BY <1>0, <1>7, <1>9, ThrowOwns
  DEF MarkRunSuccess, MarkRunFailed, AnswerLost, OwnerPC
<1>10. ASSUME NEW s \in Scan, SettleSuccess(s) PROVE Owns(r, t)
  BY <1>0, <1>10, NextOwns, ThrowOwns DEF SettleSuccess, AnswerLost
<1>11. ASSUME NEW s \in Scan, StartScan(s) \/ StatementFails(s)
       PROVE  Owns(r, t)
  <2>1. CASE StartScan(s)
    BY <2>1 DEF StartScan, Owns, OwnerPC, TypeOK
  <2>2. CASE StatementFails(s)
    BY <1>0, <2>2, ThrowOwns DEF StatementFails
  <2> QED  BY <1>11, <2>1, <2>2
<1>12. ASSUME NEW n \in Node, Halt(n) PROVE Owns(r, t)
  BY <1>12 DEF Halt, Owns, OwnerPC
<1>13. ASSUME NEW s \in Scan, TimerKillsNode(s) PROVE Owns(r, t)
  BY <1>12, <1>13 DEF TimerKillsNode, NodeOf, Scan
<1>14. ASSUME NEW n \in Node, Crash(n) \/ Restart(n) PROVE Owns(r, t)
  BY <1>12, <1>14 DEF Crash, Restart, Owns
<1>15. ASSUME UNCHANGED <<pc, job>> PROVE Owns(r, t)
  BY <1>15 DEF Owns
<1>16. ASSUME NEW e \in leaked, LeakedEnds(e) PROVE Owns(r, t)
  BY <1>15, <1>16 DEF LeakedEnds
<1>17. ASSUME NEW u \in Task, Cancel(u) PROVE Owns(r, t)
  BY <1>15, <1>17 DEF Cancel
<1>18. CASE Tick  BY <1>15, <1>18 DEF Tick
<1>19. CASE UNCHANGED vars  BY <1>15, <1>19 DEF vars
<1> QED
  BY <1>1, <1>2, <1>3, <1>4, <1>5, <1>6, <1>8, <1>9, <1>10, <1>11, <1>13, <1>14,
     <1>16, <1>17, <1>18, <1>19
  DEF Next, Advance, Recover, Prepare, Timer, Conclude

(* The statements that write the row of t, and nothing else does. *)
LEMMA RowWriters ==
  ASSUME TypeOK, [Next]_vars, NEW t \in Task, task'[t] # task[t]
  PROVE  \/ Cancel(t)
         \/ \E s \in Scan :
              /\ job[s].id = t
              /\ \/ ClaimDueTask(s) /\ ClaimWhere(t, task[t], Clock(s))
                 \/ SettleStuckTask(s) \/ SettleSuccess(s) \/ SettleFailure(s)
<1>1. ASSUME NEW s \in Scan, NEW row, task' = [task EXCEPT ![job[s].id] = row]
      PROVE  job[s].id = t
  BY <1>1 DEF TypeOK
<1>2. ASSUME NEW s \in Scan, ClaimDueTask(s)
      PROVE  job[s].id = t /\ ClaimWhere(t, task[t], Clock(s))
  <2>1. ClaimWhere(job[s].id, task[job[s].id], Clock(s))
    BY <1>2 DEF ClaimDueTask
  <2> QED  BY <1>1, <1>2, <2>1 DEF ClaimDueTask
<1>3. ASSUME NEW s \in Scan,
             SettleStuckTask(s) \/ SettleSuccess(s) \/ SettleFailure(s)
      PROVE  job[s].id = t
  BY <1>1, <1>3 DEF SettleStuckTask, SettleSuccess, SettleFailure
<1>4. ASSUME NEW u \in Task, Cancel(u) PROVE u = t
  BY <1>4 DEF Cancel, TypeOK
<1>5. task' # task  OBVIOUS
<1> QED
  BY <1>2, <1>3, <1>4, <1>5
  DEF Next, Advance, Recover, Prepare, Timer, Conclude, Tick, StartScan,
      StatementFails, FindStuckTasks, CloseStuckRun, FindDueTasks, FindTask,
      CreateRunLog, DelayDone, ExecutorReturns, ExecutorThrows, TimerFires,
      TimerKillsNode, LeakedEnds, MarkRunSuccess, MarkRunFailed, Halt, Crash,
      Restart, vars

LEMMA ContestedGrows ==
  ASSUME TypeOK, [Next]_vars
  PROVE  contested \subseteq contested'
BY DEF Next, Advance, Recover, Prepare, Timer, Conclude, Tick, StartScan,
       StatementFails, FindStuckTasks, CloseStuckRun, FindDueTasks, FindTask,
       CreateRunLog, DelayDone, ExecutorReturns, ExecutorThrows, TimerFires,
       TimerKillsNode, LeakedEnds, MarkRunSuccess, MarkRunFailed, Halt, Crash,
       Restart, vars, SettleStuckTask, SettleSuccess, SettleFailure, Cancel,
       ClaimDueTask

-----------------------------------------------------------------------------
(* Exclusive ownership.                                                    *)

(* A settlement that does not contest t ends t's only ownership. *)
LEMMA SettlementReleases ==
  ASSUME TypeOK, ExclusiveOwner, NEW s \in Scan, NEW t \in Task \ contested',
         job[s].id = t, contested \subseteq contested',
         SettleStuckTask(s) \/ SettleSuccess(s) \/ SettleFailure(s)
  PROVE  task[t].status = "RUNNING" /\ \A r \in Scan : ~Owns(r, t)'
<1>0. ControlOK /\ t \in Task \ contested  BY DEF TypeOK, ControlOK
<1>1. CASE SettleStuckTask(s)
  <2>1. Abandoned(t, job[s].attempt)  BY <1>1 DEF SettleStuckTask
  <2>2. NextStuck(s, work[s].stuck)   BY <1>1 DEF SettleStuckTask
  <2> QED  BY <1>0, <2>1, <2>2, NextOwns DEF Abandoned, Unowned
<1>2. CASE SettleSuccess(s) \/ SettleFailure(s)
  <2>1. Owns(s, t)
    BY <1>2 DEF Owns, OwnerPC, SettleSuccess, SettleFailure
  <2>2. task[t].status = "RUNNING" /\ \A r \in Scan : Owns(r, t) => r = s
    BY <1>0, <2>1 DEF ExclusiveOwner
  <2>3. NextDue(s, work[s].due)
    BY <1>0, <1>2 DEF SettleSuccess, SettleFailure
  <2> QED  BY <1>0, <2>2, <2>3, NextOwns
<1> QED  BY <1>1, <1>2

LEMMA ExclusiveNext ==
  TypeOK /\ ExclusiveOwner /\ [Next]_vars => ExclusiveOwner'
<1> SUFFICES ASSUME TypeOK, ExclusiveOwner, [Next]_vars,
                    NEW t \in Task \ contested', NEW s \in Scan, Owns(s, t)'
             PROVE  /\ task'[t].status = "RUNNING"
                    /\ \A r \in Scan : Owns(r, t)' => r = s
  BY DEF ExclusiveOwner
<1>1. t \in Task \ contested /\ contested \subseteq contested'
  BY ContestedGrows
<1>2. CASE ClaimDueTask(s) /\ job[s].id = t /\ ClaimWhere(t, task[t], Clock(s))
  <2>1. \A r \in Scan : ~Owns(r, t)
    BY <1>1, <1>2 DEF ExclusiveOwner, ClaimWhere
  <2>2. ASSUME NEW r \in Scan, ClaimDueTask(r), Owns(s, t)' PROVE r = s
    <3>1. ControlOK /\ t \in Task  BY DEF TypeOK, ControlOK
    <3>2. ~Owns(s, t)  BY <2>1
    <3> QED
      BY <2>2, <3>1, <3>2, GoToOwns, ThrowOwns, NextOwns
      DEF ClaimDueTask, AnswerLost
  <2>3. \A r \in Scan : Owns(r, t)' => r = s
    BY <1>1, <2>1, <2>2, NoNewOwner
  <2>4. task' = [task EXCEPT ![t] = ClaimSet(task[t], Clock(s))]
    BY <1>2 DEF ClaimDueTask
  <2>5. ClaimSet(task[t], Clock(s)).status = "RUNNING"
    BY <1>1 DEF ClaimSet, TypeOK, TaskRow
  <2> QED  BY <1>1, <2>3, <2>4, <2>5 DEF TypeOK
<1>3. CASE Owns(s, t)
  <2>1. task[t].status = "RUNNING" /\ \A r \in Scan : Owns(r, t) => r = s
    BY <1>1, <1>3 DEF ExclusiveOwner
  <2>2. ~Cancel(t) /\ \A r \in Scan : ~ClaimWhere(t, task[t], Clock(r))
    BY <2>1 DEF ClaimWhere, Cancel, CancelWhere
  <2>3. \A r \in Scan : Owns(r, t)' => r = s  BY <1>1, <2>1, <2>2, NoNewOwner
  <2>4. task'[t] = task[t]
    <3>1. SUFFICES ASSUME task'[t] # task[t] PROVE FALSE  OBVIOUS
    <3>2. PICK r \in Scan :
            /\ job[r].id = t
            /\ SettleStuckTask(r) \/ SettleSuccess(r) \/ SettleFailure(r)
      BY <1>1, <2>2, <3>1, RowWriters
    <3> QED  BY <1>1, <3>2, SettlementReleases
  <2> QED  BY <2>1, <2>3, <2>4
<1> QED  BY <1>1, <1>2, <1>3, NoNewOwner

(* Two scans never work on one task, and the row says RUNNING as long as   *)
(* one does, unless the task is contested.                                 *)
THEOREM Exclusive == Spec => []ExclusiveOwner
<1>1. Init => ExclusiveOwner
  BY DEF Init, ExclusiveOwner, Owns, OwnerPC
<1> QED  BY <1>1, ExclusiveNext, TypeCorrect, PTL DEF Spec

(* Outcomes are final: who writes the row of a finished or canceled task   *)
(* contests it.                                                            *)
THEOREM OutcomesFinal == Spec => OutcomeIsFinal
<1>1. ASSUME TypeOK, ExclusiveOwner, [Next]_vars, NEW t \in Task, Terminal(t),
             task'[t] # task[t]
      PROVE  t \in contested'
  <2>1. SUFFICES ASSUME t \notin contested' PROVE FALSE  OBVIOUS
  <2>2. contested \subseteq contested'  BY <1>1, ContestedGrows
  <2>3. ~Cancel(t) /\ \A s \in Scan : ~ClaimWhere(t, task[t], Clock(s))
    BY <1>1 DEF Terminal, Cancel, CancelWhere, ClaimWhere
  <2>4. PICK s \in Scan :
          /\ job[s].id = t
          /\ SettleStuckTask(s) \/ SettleSuccess(s) \/ SettleFailure(s)
    BY <1>1, <2>3, RowWriters
  <2>5. task[t].status = "RUNNING"
    BY <1>1, <2>1, <2>2, <2>4, SettlementReleases
  <2> QED  BY <1>1, <2>5 DEF Terminal
<1>2. TypeOK /\ ExclusiveOwner /\ [Next]_vars =>
        [\A t \in Task : Terminal(t) /\ task'[t] # task[t] =>
                           t \in contested']_vars
  BY <1>1
<1> QED  BY <1>2, TypeCorrect, Exclusive, PTL DEF Spec, OutcomeIsFinal

-----------------------------------------------------------------------------
(* No task is stranded.                                                    *)

(* A row that findDueTasks or findStuckTasks will see. *)
Visible(r) ==
  /\ r.status \in {"PENDING", "RETRYING"} => r.nextRunAt \in Nat
  /\ r.status = "RUNNING" => r.lastRunAt \in Nat /\ r.attemptCount > 0

LEMMA WritesVisible ==
  ASSUME NEW t \in Task, NEW r \in TaskRow, NEW n \in Nat, NEW attempt \in Nat
  PROVE  /\ Visible(CancelSet(r))
         /\ Visible(ClaimSet(r, n))
         /\ Visible(SucceededRow(t, r, n))
         /\ Visible(FailedRow(t, r, attempt, n))
<1>1. CronNext(t, n) \in Nat /\ n + RetryDelay[t] \in Nat
  BY CronNextType, TaskAssumption
<1>2. Visible(CancelSet(r)) /\ Visible(SuccessSet(r)) /\ Visible(FailedSet(r))
  BY DEF Visible, CancelSet, SuccessSet, FailedSet, TaskRow
<1>3. ASSUME NEW m \in Nat
      PROVE  Visible(RetryingSet(r, m)) /\ Visible(RescheduleSet(r, m))
  BY DEF Visible, RetryingSet, RescheduleSet, TaskRow
<1>4. Visible(ClaimSet(r, n))
  <2>1. r.attemptCount + 1 \in Nat /\ r.attemptCount + 1 > 0  BY DEF TaskRow
  <2>2. ASSUME NEW m \in Nat, m > 0
        PROVE  Visible([r EXCEPT !.status = "RUNNING", !.lastRunAt = n,
                                 !.attemptCount = m])
    BY <2>2 DEF Visible, TaskRow
  <2> QED  BY <2>1, <2>2 DEF ClaimSet
<1> QED  BY <1>1, <1>2, <1>3, <1>4 DEF SucceededRow, FailedRow

(* A task is never in a state that the finders do not look for, contested  *)
(* or not.                                                                 *)
THEOREM NoneStranded == Spec => []NeverStranded
<1>1. Init => NeverStranded
  <2>1. \A t \in Task : CronNext(t, 0) \in Nat  BY CronNextType
  <2> QED
    BY <2>1, TaskAssumption
    DEF Init, NeverStranded, CreatedRow, ScheduleKind
<1>2. TypeOK /\ NeverStranded /\ [Next]_vars => NeverStranded'
  <2> SUFFICES ASSUME TypeOK, NeverStranded, [Next]_vars, NEW t \in Task
               PROVE  Visible(task'[t])
    BY DEF NeverStranded, Visible
  <2>1. CASE task'[t] = task[t]  BY <2>1 DEF NeverStranded, Visible
  <2>2. CASE task'[t] # task[t]
    <3>1. /\ task[t] \in TaskRow
          /\ \A s \in Scan : job[s].attempt \in Nat /\ Clock(s) \in Nat
      BY ClockType DEF TypeOK, Job
    <3>2. CASE Cancel(t)
      BY <3>1, <3>2, WritesVisible DEF Cancel, TypeOK
    <3>3. ASSUME NEW s \in Scan, job[s].id = t,
                 \/ ClaimDueTask(s) /\ ClaimWhere(t, task[t], Clock(s))
                 \/ SettleStuckTask(s) \/ SettleSuccess(s) \/ SettleFailure(s)
          PROVE  \/ task'[t] = ClaimSet(task[t], Clock(s))
                 \/ task'[t] = SucceededRow(t, task[t], Clock(s))
                 \/ task'[t] = FailedRow(t, task[t], job[s].attempt, Clock(s))
      BY <3>3
      DEF ClaimDueTask, SettleStuckTask, SettleSuccess, SettleFailure, TypeOK
    <3> QED  BY <2>2, <3>1, <3>2, <3>3, RowWriters, WritesVisible
  <2> QED  BY <2>1, <2>2
<1> QED  BY <1>1, <1>2, TypeCorrect, PTL DEF Spec
=============================================================================
