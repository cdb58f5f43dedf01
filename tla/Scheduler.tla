------------------------------ MODULE Scheduler ------------------------------
(***************************************************************************)
(* The execution engine: SchedulerScannerService.scanDueTasks and the      *)
(* SchedulesService methods it calls (recoverStuckTasks, processDueTask),  *)
(* on several backend nodes that share one database.                       *)
(*                                                                         *)
(* A scan is one invocation of scanDueTasks.  @Cron starts one every five  *)
(* seconds and does not wait for the last one, so a node runs several at   *)
(* once: <<n, i>> is the i-th scan in progress on node n.  A scan is a     *)
(* sequential program whose steps end at its awaits; one action is the     *)
(* code from one await to the next, and holds one statement on the         *)
(* database.  pc[s] names the statement scan s is about to issue, or the   *)
(* wait it is in:                                                          *)
(*                                                                         *)
(*   idle                                                                  *)
(*   findStuck   findStuckTasks              } recoverStuckTasks           *)
(*   stuckRun    markRunFailed               }                             *)
(*   stuckTask   markTaskRetrying/Failed/... }                             *)
(*   findDue     findDueTasks                                              *)
(*   claim       claimDueTask                } processDueTask              *)
(*   read        findById                    }                             *)
(*   log         createRunLog                }                             *)
(*   wait        the 1500 ms delay           }                             *)
(*   exec        the executor races the timer}                             *)
(*   succRun     markRunSuccess              }                             *)
(*   succTask    markTaskSuccess/reschedule  }                             *)
(*   failRun     markRunFailed               }                             *)
(*   failTask    markTaskRetrying/Failed/... }                             *)
(*                                                                         *)
(* The clocks of the nodes differ by a constant; timers run at one speed.  *)
(* Abstractions.  An instant computed just before a statement is the       *)
(* instant of the statement.  A find with its included runs is one read.   *)
(***************************************************************************)
EXTENDS TaskStore

CONSTANTS
  Node,            \* backend processes
  Skew,            \* [Node -> Nat]: how far its clock is ahead of the slowest
  Slot,            \* scans a node may have in progress at once
  NoTask,          \* the task of a scan that works on none
  Limit,           \* findDueTasks(now, 10)
  VisibilityDelay, \* the 1500 ms delay between the run log and the executor
  Crashable,       \* the nodes that may crash
  Outage,          \* before this instant statements may be refused, or executed
                   \* and their answer lost
  MaxTime          \* bound: the clock stops here

ASSUME EngineAssumption ==
  /\ NoTask \notin Task
  /\ Skew \in [Node -> Nat]
  /\ Limit \in Nat \ {0}
  /\ VisibilityDelay \in Nat
  /\ Crashable \subseteq Node
  /\ Outage \in Nat
  /\ MaxTime \in Nat

VARIABLES
  now,        \* the slowest clock
  up,         \* the nodes that are running
  task,       \* table ScheduleTask: [Task -> TaskRow]
  runs,       \* table TaskRun: [Task -> Seq(TaskRun)], in order of creation
  pc,         \* [Scan -> PC]
  work,       \* [Scan -> what the scan has read and not yet worked through]
  job,        \* [Scan -> the local variables of the task it works on]
  leaked,     \* executions that go on after their timer has fired
  contested   \* history: tasks settled by someone who did not own them, or
              \* whose owner was told that its last write had failed

tables == <<task, runs>>
vars == <<now, up, task, runs, pc, work, job, leaked, contested>>

Scan == Node \X Slot
NodeOf(s) == s[1]

(* new Date() on the node of scan s. *)
Clock(s) == now + Skew[NodeOf(s)]

RecoveryPC == {"stuckRun", "stuckTask"}
OwnerPC == {"read", "log", "wait", "exec",
            "succRun", "succTask", "failRun", "failTask"}
Working == {"claim"} \cup RecoveryPC \cup OwnerPC
PC == {"idle", "findStuck", "findDue"} \cup Working

(* attempt, runs: columns read by findStuckTasks or findById; run: the run *)
(* log of this attempt (0: none); timer: when the timeout was armed.       *)
Job == [id : Task \cup {NoTask}, attempt : Nat, runs : Nat, run : Nat,
        timer : Nat]
NoJob == [id |-> NoTask, attempt |-> 0, runs |-> 0, run |-> 0, timer |-> 0]

StuckEntry == [id : Task, attempt : Nat, open : SUBSET Nat]
DueEntry   == [id : Task, nextRunAt : Time]
Work   == [at : Nat, stuck : SUBSET StuckEntry, due : SUBSET DueEntry]
NoWork == [at |-> 0, stuck |-> {}, due |-> {}]

Execution == [node : Node, id : Task, run : Nat]

(* s has claimed t and has not finished with it. *)
Owns(s, t) == pc[s] \in OwnerPC /\ job[s].id = t
Unowned(t) == \A s \in Scan : ~Owns(s, t)

OpenRuns(t) == {i \in DOMAIN runs[t] : runs[t][i].status = "RUNNING"}

(* runs.find(r => r.status === RUNNING) over runs ordered by attemptNumber *)
(* descending: rows that tie may come in any order.                        *)
LatestOpen(t) == {i \in OpenRuns(t) : \A j \in OpenRuns(t) :
                     runs[t][j].attemptNumber <= runs[t][i].attemptNumber}

-----------------------------------------------------------------------------
Init ==
  /\ now = 0
  /\ up = Node
  /\ task = [t \in Task |-> CreatedRow(t, 0)]
  /\ runs = [t \in Task |-> << >>]
  /\ pc = [s \in Scan |-> "idle"]
  /\ work = [s \in Scan |-> NoWork]
  /\ job = [s \in Scan |-> NoJob]
  /\ leaked = {}
  /\ contested = {}

Tick ==
  /\ now < MaxTime
  /\ now' = now + 1
  /\ UNCHANGED <<up, task, runs, pc, work, job, leaked, contested>>

-----------------------------------------------------------------------------
(* Control of a scan.  None of these touches the tables.                   *)

(* The for loop of recoverStuckTasks goes on with one of the rest. *)
NextStuck(s, rest) ==
  \/ /\ rest = {}
     /\ pc' = [pc EXCEPT ![s] = "findDue"]
     /\ work' = [work EXCEPT ![s].stuck = {}]
     /\ job' = [job EXCEPT ![s] = NoJob]
  \/ \E e \in rest : \E run \in IF e.open = {} THEN {0} ELSE e.open :
     /\ pc' = [pc EXCEPT ![s] = IF run = 0 THEN "stuckTask" ELSE "stuckRun"]
     /\ work' = [work EXCEPT ![s].stuck = rest \ {e}]
     /\ job' = [job EXCEPT ![s] = [NoJob EXCEPT !.id = e.id,
                                      !.attempt = e.attempt, !.run = run]]

(* The for loop of scanDueTasks goes on with the first of the rest. *)
NextDue(s, rest) ==
  \/ /\ rest = {}
     /\ pc' = [pc EXCEPT ![s] = "idle"]
     /\ work' = [work EXCEPT ![s] = NoWork]
     /\ job' = [job EXCEPT ![s] = NoJob]
  \/ \E e \in rest :
     /\ \A f \in rest : NotAfter(e.nextRunAt, f.nextRunAt)
     /\ pc' = [pc EXCEPT ![s] = "claim"]
     /\ work' = [work EXCEPT ![s].due = rest \ {e}]
     /\ job' = [job EXCEPT ![s] = [NoJob EXCEPT !.id = e.id]]

(* The next await of processDueTask, with the locals j. *)
GoTo(s, label, j) ==
  /\ pc' = [pc EXCEPT ![s] = label]
  /\ job' = [job EXCEPT ![s] = j]
  /\ UNCHANGED work

(***************************************************************************)
(* Where an exception takes a scan.  The catch of scanDueTasks around the  *)
(* recovery, the catch of recoverStuckTasks around one task, the catch of  *)
(* processDueTask around the execution, the catch of scanDueTasks around   *)
(* one task; an exception of findDueTasks ends the scan.                   *)
(***************************************************************************)
Throw(s) ==
  \/ pc[s] = "findStuck" /\ GoTo(s, "findDue", NoJob)
  \/ pc[s] \in RecoveryPC /\ NextStuck(s, work[s].stuck)
  \/ pc[s] = "findDue" /\ NextDue(s, {})
  \/ pc[s] \in {"claim", "read", "log"} /\ NextDue(s, work[s].due)
  \/ pc[s] \in {"succRun", "succTask"} /\ GoTo(s, "failRun", job[s])
  \/ pc[s] \in {"failRun", "failTask"} /\ NextDue(s, work[s].due)

(* The statement was executed, but its answer never reached the node. *)
AnswerLost(s) == now < Outage /\ Throw(s)

(* The statement was not executed: no connection, a refused transaction. *)
StatementFails(s) ==
  /\ now < Outage
  /\ Throw(s)
  /\ UNCHANGED <<now, up, task, runs, leaked, contested>>

-----------------------------------------------------------------------------
(* scanDueTasks and recoverStuckTasks.                                     *)

(* The instant is read once, for the recovery and for findDueTasks. *)
StartScan(s) ==
  /\ pc[s] = "idle"
  /\ NodeOf(s) \in up
  /\ pc' = [pc EXCEPT ![s] = "findStuck"]
  /\ work' = [work EXCEPT ![s].at = Clock(s)]
  /\ UNCHANGED <<now, up, task, runs, job, leaked, contested>>

FindStuckTasks(s) ==
  /\ pc[s] = "findStuck"
  /\ NextStuck(s, {[id |-> t, attempt |-> task[t].attemptCount,
                    open |-> LatestOpen(t)] :
                   t \in {u \in Task : StuckWhere(u, task[u], work[s].at)}})
  /\ UNCHANGED <<now, up, task, runs, leaked, contested>>

CloseStuckRun(s) ==
  /\ pc[s] = "stuckRun"
  /\ runs' = [runs EXCEPT ![job[s].id][job[s].run].status = "FAILED"]
  /\ \/ GoTo(s, "stuckTask", job[s])
     \/ AnswerLost(s)
  /\ UNCHANGED <<now, up, task, leaked, contested>>

(* The recovery of t is sound when t is still in the attempt that was read *)
(* and nobody works on it any more.                                        *)
Abandoned(t, attempt) ==
  /\ task[t].status = "RUNNING"
  /\ task[t].attemptCount = attempt
  /\ OpenRuns(t) = {}
  /\ Unowned(t)

SettleStuckTask(s) ==
  LET t == job[s].id IN
  /\ pc[s] = "stuckTask"
  /\ task' = [task EXCEPT ![t] = FailedRow(t, @, job[s].attempt, Clock(s))]
  /\ contested' = IF Abandoned(t, job[s].attempt) THEN contested
                                                  ELSE contested \cup {t}
  /\ NextStuck(s, work[s].stuck)   \* also when the answer is lost
  /\ UNCHANGED <<now, up, runs, leaked>>

(* At most Limit rows, the earliest first. *)
FindDueTasks(s) ==
  LET due == {t \in Task : DueWhere(t, task[t], work[s].at)} IN
  /\ pc[s] = "findDue"
  /\ \E batch \in SUBSET due :
     /\ \/ batch = due
        \/ Cardinality(batch) = Limit
     /\ Cardinality(batch) <= Limit
     /\ \A t \in batch, u \in due \ batch :
           NotAfter(task[t].nextRunAt, task[u].nextRunAt)
     /\ NextDue(s, {[id |-> t, nextRunAt |-> task[t].nextRunAt] : t \in batch})
  /\ UNCHANGED <<now, up, task, runs, leaked, contested>>

-----------------------------------------------------------------------------
(* processDueTask.                                                         *)

(* Mutant: claimResult.count is not looked at. *)
ClaimDueTaskUncounted(s) ==
  LET t == job[s].id IN
  /\ pc[s] = "claim"
  /\ task' = [task EXCEPT ![t] = IF ClaimWhere(t, @, Clock(s))
                                 THEN ClaimSet(@, Clock(s)) ELSE @]
  /\ GoTo(s, "read", job[s])
  /\ UNCHANGED <<now, up, runs, leaked, contested>>

ClaimDueTask(s) ==
  LET t == job[s].id IN
  /\ pc[s] = "claim"
  /\ IF ClaimWhere(t, task[t], Clock(s))
     THEN /\ task' = [task EXCEPT ![t] = ClaimSet(@, Clock(s))]
          /\ \/ GoTo(s, "read", job[s])
             \/ AnswerLost(s)
     ELSE /\ NextDue(s, work[s].due)
          /\ UNCHANGED task
  /\ UNCHANGED <<now, up, runs, leaked, contested>>

FindTask(s) ==
  LET t == job[s].id IN
  /\ pc[s] = "read"
  /\ GoTo(s, "log", [job[s] EXCEPT !.attempt = task[t].attemptCount,
                                   !.runs = Len(runs[t])])
  /\ UNCHANGED <<now, up, task, runs, leaked, contested>>

(* Mutant: the number of the attempt is taken for the rank of the log. *)
CreateRunLogByAttempt(s) ==
  LET t == job[s].id IN
  /\ pc[s] = "log"
  /\ runs' = [runs EXCEPT ![t] = Append(@, [status |-> "RUNNING",
                                   attemptNumber |-> job[s].attempt])]
  /\ \/ GoTo(s, "wait", [job[s] EXCEPT !.run = Len(runs[t]) + 1,
                                       !.timer = now])
     \/ AnswerLost(s)
  /\ UNCHANGED <<now, up, task, leaked, contested>>

(* The timer is armed as soon as the run log is there, before the delay. *)
CreateRunLog(s) ==
  LET t == job[s].id IN
  /\ pc[s] = "log"
  /\ runs' = [runs EXCEPT ![t] = Append(@, [status |-> "RUNNING",
                                   attemptNumber |-> job[s].runs + 1])]
  /\ \/ GoTo(s, "wait", [job[s] EXCEPT !.run = Len(runs[t]) + 1,
                                       !.timer = now])
     \/ AnswerLost(s)
  /\ UNCHANGED <<now, up, task, leaked, contested>>

(* The timers of a process fire in the order of their deadlines. *)
DelayDone(s) ==
  /\ pc[s] = "wait"
  /\ Timeout[job[s].id] > VisibilityDelay
  /\ now >= job[s].timer + VisibilityDelay
  /\ GoTo(s, "exec", job[s])
  /\ UNCHANGED <<now, up, task, runs, leaked, contested>>

ExecutorReturns(s) ==
  /\ pc[s] = "exec"
  /\ GoTo(s, "succRun", job[s])
  /\ UNCHANGED <<now, up, task, runs, leaked, contested>>

ExecutorThrows(s) ==
  /\ pc[s] = "exec"
  /\ GoTo(s, "failRun", job[s])
  /\ UNCHANGED <<now, up, task, runs, leaked, contested>>

(* The race is lost, but nothing stops the executor. *)
TimerFires(s) ==
  /\ pc[s] = "exec"
  /\ now >= job[s].timer + Timeout[job[s].id]
  /\ GoTo(s, "failRun", job[s])
  /\ leaked' = leaked \cup {[node |-> NodeOf(s), id |-> job[s].id,
                             run |-> job[s].run]}
  /\ UNCHANGED <<now, up, task, runs, contested>>

LeakedEnds(e) ==
  /\ e \in leaked
  /\ leaked' = leaked \ {e}
  /\ UNCHANGED <<now, up, task, runs, pc, work, job, contested>>

MarkRunSuccess(s) ==
  /\ pc[s] = "succRun"
  /\ runs' = [runs EXCEPT ![job[s].id][job[s].run].status = "SUCCESS"]
  /\ \/ GoTo(s, "succTask", job[s])
     \/ AnswerLost(s)
  /\ UNCHANGED <<now, up, task, leaked, contested>>

(* markTaskSuccess or rescheduleCronTask, inside the try. *)
SettleSuccess(s) ==
  LET t == job[s].id IN
  /\ pc[s] = "succTask"
  /\ task' = [task EXCEPT ![t] = SucceededRow(t, @, Clock(s))]
  /\ \/ NextDue(s, work[s].due) /\ UNCHANGED contested
     \/ AnswerLost(s) /\ contested' = contested \cup {t}
  /\ UNCHANGED <<now, up, runs, leaked>>

(* Mutant: the catch settles the task and leaves the run log open. *)
MarkRunFailedSkipped(s) ==
  /\ pc[s] = "failRun"
  /\ GoTo(s, "failTask", job[s])
  /\ UNCHANGED <<now, up, task, runs, leaked, contested>>

MarkRunFailed(s) ==
  /\ pc[s] = "failRun"
  /\ runs' = [runs EXCEPT ![job[s].id][job[s].run].status = "FAILED"]
  /\ \/ GoTo(s, "failTask", job[s])
     \/ AnswerLost(s)
  /\ UNCHANGED <<now, up, task, leaked, contested>>

(* markTaskRetrying, rescheduleCronTask or markTaskFailed, in the catch. *)
SettleFailure(s) ==
  LET t == job[s].id IN
  /\ pc[s] = "failTask"
  /\ task' = [task EXCEPT ![t] = FailedRow(t, @, job[s].attempt, Clock(s))]
  /\ NextDue(s, work[s].due)       \* also when the answer is lost
  /\ UNCHANGED <<now, up, runs, leaked, contested>>

-----------------------------------------------------------------------------
(* The environment.                                                        *)

(* The conditional update of cancel(); the request is module Admission's. *)
Cancel(t) ==
  /\ CancelWhere(task[t])
  /\ task' = [task EXCEPT ![t] = CancelSet(@)]
  /\ UNCHANGED <<now, up, runs, pc, work, job, leaked, contested>>

(* A process stops with everything it was doing; the tables stay. *)
Halt(n) ==
  /\ up' = up \ {n}
  /\ pc' = [s \in Scan |-> IF NodeOf(s) = n THEN "idle" ELSE pc[s]]
  /\ work' = [s \in Scan |-> IF NodeOf(s) = n THEN NoWork ELSE work[s]]
  /\ job' = [s \in Scan |-> IF NodeOf(s) = n THEN NoJob ELSE job[s]]
  /\ leaked' = {e \in leaked : e.node # n}
  /\ UNCHANGED <<now, task, runs, contested>>

Crash(n) == n \in up \cap Crashable /\ Halt(n)

(* The timeout rejects its promise while the delay is awaited, before      *)
(* Promise.race is there to handle it: Node.js ends the process.           *)
TimerKillsNode(s) ==
  /\ pc[s] = "wait"
  /\ Timeout[job[s].id] <= VisibilityDelay
  /\ now >= job[s].timer + Timeout[job[s].id]
  /\ Halt(NodeOf(s))

Restart(n) ==
  /\ n \in Node \ up
  /\ up' = up \cup {n}
  /\ UNCHANGED <<now, task, runs, pc, work, job, leaked, contested>>

-----------------------------------------------------------------------------
(* The steps a scan takes by itself once it has started. *)
Recover(s) == FindStuckTasks(s) \/ CloseStuckRun(s) \/ SettleStuckTask(s)
Prepare(s) == ClaimDueTask(s) \/ FindTask(s) \/ CreateRunLog(s)
Conclude(s) == \/ MarkRunSuccess(s) \/ SettleSuccess(s)
               \/ MarkRunFailed(s) \/ SettleFailure(s)
Timer(s) == DelayDone(s) \/ TimerFires(s) \/ TimerKillsNode(s)
Advance(s) == \/ Recover(s) \/ FindDueTasks(s) \/ Prepare(s) \/ Timer(s)
              \/ Conclude(s)

Next ==
  \/ Tick
  \/ \E s \in Scan : \/ StartScan(s) \/ Advance(s) \/ StatementFails(s)
                     \/ ExecutorReturns(s) \/ ExecutorThrows(s)
  \/ \E e \in leaked : LeakedEnds(e)
  \/ \E t \in Task : Cancel(t)
  \/ \E n \in Node : Crash(n) \/ Restart(n)

Spec == Init /\ [][Next]_vars

-----------------------------------------------------------------------------
(* Properties.                                                             *)

TypeOK ==
  /\ now \in Nat
  /\ up \subseteq Node
  /\ task \in [Task -> TaskRow]
  /\ runs \in [Task -> Seq(TaskRun)]
  /\ pc \in [Scan -> PC]
  /\ work \in [Scan -> Work]
  /\ job \in [Scan -> Job]
  /\ \A s \in Scan : pc[s] \in Working => job[s].id \in Task
  /\ leaked \subseteq Execution
  /\ contested \subseteq Task

(* At most one scan of all nodes works on a claimed task, and as long as   *)
(* it does the row says RUNNING: the conditional update of claimDueTask is *)
(* the only lock there is, and it is released by updates that check        *)
(* nothing.  Contested tasks are those where the lock is broken: a         *)
(* recovery settled an attempt that was not abandoned, or the owner took   *)
(* its own committed success for a failure.                                *)
ExclusiveOwner ==
  \A t \in Task \ contested : \A s \in Scan : Owns(s, t) =>
     /\ task[t].status = "RUNNING"
     /\ \A r \in Scan : Owns(r, t) => r = s

(* maxRetries allows maxRetries + 1 attempts.  The comparison that decides *)
(* on a retry uses the attemptCount read at the start of the attempt, so   *)
(* the bound needs that this copy is still the row's when it is used.      *)
RetryBudget ==
  \A t \in Task \ contested :
     /\ task[t].attemptCount <= MaxRetries[t] + 1
     /\ task[t].status = "PENDING" => task[t].attemptCount = 0
     /\ task[t].status = "RETRYING" => task[t].attemptCount <= MaxRetries[t]
     /\ \A s \in Scan : Owns(s, t) /\ pc[s] # "read" =>
           job[s].attempt = task[t].attemptCount

(* The run logs tell the attempts in order: attemptNumber, computed from   *)
(* the number of logs read earlier, is the log's rank; a log is open only  *)
(* while its task is RUNNING, and two are never open at once.  A ONCE task *)
(* has no more logs than its row counts attempts: an attempt may be lost   *)
(* before its log is written, but none is made that is not counted.        *)
RunLogFaithful ==
  \A t \in Task \ contested :
     /\ \A i \in DOMAIN runs[t] : runs[t][i].attemptNumber = i
     /\ \A i, j \in OpenRuns(t) : i = j
     /\ OpenRuns(t) # {} => task[t].status = "RUNNING"
     /\ ScheduleKind(t) = "ONCE" => Len(runs[t]) <= task[t].attemptCount

(* A task that is not settled can be seen: findDueTasks needs an instant   *)
(* in nextRunAt, findStuckTasks one in lastRunAt.  A row with neither      *)
(* would wait for ever, and every writer of the row must keep that.        *)
NeverStranded ==
  \A t \in Task :
     /\ task[t].status \in {"PENDING", "RETRYING"} => task[t].nextRunAt \in Nat
     /\ task[t].status = "RUNNING" => /\ task[t].lastRunAt \in Nat
                                      /\ task[t].attemptCount > 0

(* When the retry delay is cut short.  claimDueTask takes a waiting task   *)
(* by its scheduleAt too, which is past once it has run: what defends the  *)
(* delay is findDueTasks alone.  So only a scan whose list is older than   *)
(* the attempt that failed is early: older as far as the clocks can tell,  *)
(* which is with the skew of some node m taken off the stamp.              *)
EarlyClaim(s, t) ==
  /\ pc[s] = "claim" /\ job[s].id = t
  /\ task[t].status = "RETRYING" /\ task'[t].status = "RUNNING"
  /\ Clock(s) < task[t].nextRunAt
ListedBeforeAttempt(s, t) ==
  \E m \in Node :
     work[s].at - Skew[NodeOf(s)] <= task[t].lastRunAt - Skew[m]
EarlyRetryIsStale ==
  [][\A t \in Task \ contested, s \in Scan :
        EarlyClaim(s, t) => ListedBeforeAttempt(s, t)]_vars

Terminal(t) == task[t].status \in {"SUCCESS", "FAILED", "CANCELED"}

(* A recovery holds a copy of t that it may still act on. *)
InRecovery(t) == \E s \in Scan :
  \/ pc[s] \in RecoveryPC /\ job[s].id = t
  \/ \E e \in work[s].stuck : e.id = t

(* An outcome is final: a finished or canceled task changes again only if  *)
(* it is contested.                                                        *)
OutcomeIsFinal ==
  [][\A t \in Task : Terminal(t) /\ task'[t] # task[t] => t \in contested']_vars

(* Even a contested task comes to rest: once it is finished or canceled,   *)
(* and the scans that had claimed it or read it as stuck are through,      *)
(* nothing changes it and nobody takes it up, whatever the other nodes     *)
(* hold in their lists of due tasks.                                       *)
AtRest(t) == Terminal(t) /\ Unowned(t) /\ ~InRecovery(t)
RestIsForGood ==
  [][\A t \in Task : AtRest(t) => AtRest(t)' /\ task'[t] = task[t]]_vars

-----------------------------------------------------------------------------
(* The engine implements the life cycle of a task: every statement of      *)
(* every scan is a step of one task's life cycle or changes none.          *)
L == INSTANCE Lifecycle WITH
       status    <- [t \in Task |-> task[t].status],
       attempts  <- [t \in Task |-> task[t].attemptCount],
       Recurring <- {t \in Task : ScheduleKind(t) = "CRON"}

ImplementsLifecycle == L!Spec

-----------------------------------------------------------------------------
(* Liveness.                                                               *)

(* The timer of this execution fires only after the clock has stopped. *)
BeyondClock(s) == pc[s] = "exec" /\ job[s].timer + Timeout[job[s].id] > MaxTime

(* @Cron keeps starting scans, a scan that has started goes on by itself   *)
(* until its executor decides, and time passes.  Nothing is assumed of     *)
(* executors, which may hang until the timer fires, of LeakedEnds, of      *)
(* Restart, nor of requests.  Where the bound of the clock keeps a timer   *)
(* from firing, ExecutorThrows, which leads to the same catch, stands in.  *)
Fairness ==
  /\ WF_vars(Tick)
  /\ \A s \in Scan : /\ WF_vars(StartScan(s))
                     /\ WF_vars(Advance(s))
                     /\ WF_vars(BeyondClock(s) /\ ExecutorThrows(s))

FairSpec == Spec /\ Fairness

(* An attempt that outlives its timeout comes to an end: by its runner's   *)
(* timer or, if the runner is gone or its last statements were refused,    *)
(* by the recovery of a later scan.  Only deadlines the clock of the model *)
(* reaches count.                                                          *)
Expired(t) == /\ task[t].status = "RUNNING"
              /\ task[t].lastRunAt + Timeout[t] <= MaxTime
ExpiredAttemptEnds == \A t \in Task : Expired(t) ~> ~Expired(t)

(* A task that is due is taken up or canceled, though scans take no more   *)
(* than Limit tasks and the earliest first, executors hang until their     *)
(* timers end them, the database is out of reach for a while, and some     *)
(* nodes crash again and again: as long as one goes on.                    *)
Due(t) == /\ task[t].status \in {"PENDING", "RETRYING"}
          /\ Reached(task[t].nextRunAt, MaxTime)
DueTaskIsTaken == \A t \in Task : Due(t) ~> ~Due(t)

-----------------------------------------------------------------------------
(* What the documentation and the tests say, and the code does not do.     *)

(* README.md, line 9: "ensuring each task is executed exactly once even    *)
(* when multiple runner instances are active": no two executions of one    *)
(* task at a time.                                                         *)
NoOverlappingExecution ==
  \A t \in Task :
    Cardinality({s \in Scan : pc[s] = "exec" /\ job[s].id = t})
      + Cardinality({e \in leaked : e.id = t}) <= 1

(* The same line: a ONCE task whose executor has returned is not executed  *)
(* again.                                                                  *)
Executed(t) == \E i \in DOMAIN runs[t] : runs[t][i].status = "SUCCESS"
NoExecutionAfterSuccess ==
  [][\A t \in Task : ScheduleKind(t) = "ONCE" /\ Executed(t) =>
        \A s \in Scan : pc[s] = "wait" /\ job[s].id = t => pc'[s] # "exec"]_vars

(* src/schedules/schedules.service.spec.ts, line 118: 'should time out and *)
(* trigger retry when task execution exceeds timeoutMs': a timeout costs   *)
(* an attempt, not the process.                                            *)
TimeoutSparesNode == Node \ up \subseteq Crashable

=============================================================================
