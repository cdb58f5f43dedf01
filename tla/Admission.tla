------------------------------ MODULE Admission ------------------------------
(***************************************************************************)
(* The HTTP side of the scheduler: POST /schedules, POST /schedules/push   *)
(* and PATCH /schedules/:id/cancel, handled concurrently by any number of  *)
(* backend nodes, and racing with the engine that runs the tasks.          *)
(*                                                                         *)
(* A submission is one POST; clients repeat a POST whose answer they did   *)
(* not get, so two submissions may carry one idempotency key.  A row is    *)
(* named by the submission that inserted it, which makes Task the set of   *)
(* submissions; only some of them become rows.  A handler is a sequential  *)
(* program that ends a step at each await:                                 *)
(*                                                                         *)
(*   submission    new -> lookup -> insert -> done                         *)
(*   cancellation  new -> read -> update -> reread -> done                 *)
(*                                                                         *)
(* The engine appears by what its scans do to a row: they claim it or read *)
(* it as stuck, and some time later write it by its id, whatever has       *)
(* become of it.  Their lists, logs and timers are module Scheduler's; a   *)
(* recovery with several tasks at hand counts as one scan for each.        *)
(***************************************************************************)
EXTENDS TaskStore

CONSTANTS
  KeyOf,        \* [Task -> key, EmptyKey or NoKey]: idempotencyKey
  NoKey,        \* the field is absent: NULL in the table, never a duplicate
  EmptyKey,     \* "": POST /schedules accepts it, POST /schedules/push not
  WellFormed,   \* [Task -> BOOLEAN]: the DTO rules, the rules on which of
                \* scheduleAt and cronExpr is given, and TaskPayloadValidator
                \* have nothing against it
  NoTask, NoRow,
  Cancellation, \* the PATCH requests
  Scan,         \* the scans of the engine, on whatever nodes
  MayFail,      \* whether statements fail, answers get lost, nodes crash
  MaxTime       \* bound: the clock stops here

ASSUME AdmissionAssumption ==
  /\ NoTask \notin Task
  /\ NoRow \notin TaskRow
  /\ NoKey # EmptyKey
  /\ WellFormed \in [Task -> BOOLEAN]
  /\ MayFail \in BOOLEAN
  /\ MaxTime \in Nat

VARIABLES
  now,      \* the clock
  table,    \* [Task -> TaskRow or NoRow]
  sub,      \* [Task -> where the handler of the submission is]
  answer,   \* [Task -> the response: code and the task it names]
  can,      \* [Cancellation -> where the handler of the cancellation is]
  target,   \* [Cancellation -> :id in its path]
  verdict,  \* [Cancellation -> the code of its response]
  hand,     \* [Scan -> the task it works on and the attemptCount it has read]
  contested \* history: as in module Scheduler

requests == <<sub, answer, can, target, verdict>>
engine == <<hand, contested>>
vars == <<now, table, requests, engine>>

Answer == [code : {"none", "ok", "badRequest", "conflict", "error"},
           id : Task \cup {NoTask}]
NoAnswer == [code |-> "none", id |-> NoTask]

(* claimed: before findById; running: after it; failed: in the catch after *)
(* a success that was not confirmed; stuck: in recoverStuckTasks.          *)
Hand == [id : Task \cup {NoTask}, attempt : Nat,
         step : {"none", "claimed", "running", "failed", "stuck"}]
NoHand == [id |-> NoTask, attempt |-> 0, step |-> "none"]

Stored(t) == table[t] # NoRow

(* Mutant: the table has no unique index. *)
ClashesNever(r) == FALSE

(* Column idempotencyKey is unique: NULL never clashes, "" does. *)
Holders(key) == {t \in Task : Stored(t) /\ KeyOf[t] = key}
Clashes(r) == KeyOf[r] # NoKey /\ Holders(KeyOf[r]) # {}

Init ==
  /\ now = 0
  /\ table = [t \in Task |-> NoRow]
  /\ sub = [r \in Task |-> "new"]
  /\ answer = [r \in Task |-> NoAnswer]
  /\ can = [c \in Cancellation |-> "new"]
  /\ target = [c \in Cancellation |-> NoTask]
  /\ verdict = [c \in Cancellation |-> "none"]
  /\ hand = [s \in Scan |-> NoHand]
  /\ contested = {}

Tick ==
  /\ now < MaxTime
  /\ now' = now + 1
  /\ UNCHANGED <<table, requests, engine>>

-----------------------------------------------------------------------------
(* POST: SchedulesService.create, which push() calls too.                  *)

Respond(r, code, id) ==
  /\ sub' = [sub EXCEPT ![r] = "done"]
  /\ answer' = [answer EXCEPT ![r] = [code |-> code, id |-> id]]

Proceed(r, label) ==
  /\ sub' = [sub EXCEPT ![r] = label]
  /\ UNCHANGED answer

(* Mutant: the row is inserted before the request is refused. *)
InsertThenRefuse(r) ==
  /\ sub[r] = "insert"
  /\ table' = [table EXCEPT ![r] = CreatedRow(r, now)]
  /\ IF Clashes(r) THEN Respond(r, "conflict", NoTask) ELSE Respond(r, "ok", r)
  /\ UNCHANGED <<now, can, target, verdict, engine>>

(* validateScheduleInput: an instant must lie in the future. *)
ScheduleOk(r) == ScheduleKind(r) = "CRON" \/ ScheduleAt[r] > now

(* An absent key and an empty one are both falsy: neither is looked up. *)
LookedUp(r) == KeyOf[r] \notin {NoKey, EmptyKey}

Submit(r) ==
  /\ sub[r] = "new"
  /\ IF ScheduleOk(r) /\ WellFormed[r]
     THEN Proceed(r, IF LookedUp(r) THEN "lookup" ELSE "insert")
     ELSE Respond(r, "badRequest", NoTask)
  /\ UNCHANGED <<now, table, can, target, verdict, engine>>

(* Mutant: the lookup may overlook a row that is there. *)
FindByKeyStale(r) ==
  /\ sub[r] = "lookup"
  /\ \/ \E t \in Holders(KeyOf[r]) : Respond(r, "ok", t)
     \/ Proceed(r, "insert")
  /\ UNCHANGED <<now, table, can, target, verdict, engine>>

FindByIdempotencyKey(r) ==
  /\ sub[r] = "lookup"
  /\ \/ \E t \in Holders(KeyOf[r]) : Respond(r, "ok", t)
     \/ /\ Holders(KeyOf[r]) = {}
        /\ Proceed(r, "insert")
  /\ UNCHANGED <<now, table, can, target, verdict, engine>>

Insert(r) ==
  /\ sub[r] = "insert"
  /\ IF Clashes(r)
     THEN Respond(r, "conflict", NoTask) /\ UNCHANGED table
     ELSE /\ table' = [table EXCEPT ![r] = CreatedRow(r, now)]
          /\ \/ Respond(r, "ok", r)
             \/ MayFail /\ Respond(r, "error", NoTask)
  /\ UNCHANGED <<now, can, target, verdict, engine>>

(* A statement is refused, or the node goes down with the request. *)
SubmissionFails(r) ==
  /\ MayFail
  /\ sub[r] \in {"lookup", "insert"}
  /\ Respond(r, "error", NoTask)
  /\ UNCHANGED <<now, table, can, target, verdict, engine>>

-----------------------------------------------------------------------------
(* PATCH: SchedulesService.cancel.                                         *)

Conclude(c, code) ==
  /\ can' = [can EXCEPT ![c] = "done"]
  /\ verdict' = [verdict EXCEPT ![c] = code]

Continue(c, label) ==
  /\ can' = [can EXCEPT ![c] = label]
  /\ UNCHANGED verdict

RequestCancel(c) ==
  /\ can[c] = "new"
  /\ \E t \in Task : target' = [target EXCEPT ![c] = t]
  /\ Continue(c, "read")
  /\ UNCHANGED <<now, table, sub, answer, engine>>

ReadForCancel(c) ==
  /\ can[c] = "read"
  /\ IF ~Stored(target[c]) THEN Conclude(c, "notFound")
     ELSE IF CancelWhere(table[target[c]]) THEN Continue(c, "update")
                                           ELSE Conclude(c, "badRequest")
  /\ UNCHANGED <<now, table, sub, answer, target, engine>>

(* Mutant: the count of updated rows is not looked at. *)
CancelUncounted(c) ==
  LET t == target[c] IN
  /\ can[c] = "update"
  /\ table' = [table EXCEPT ![t] = IF CancelWhere(@) THEN CancelSet(@) ELSE @]
  /\ Continue(c, "reread")
  /\ UNCHANGED <<now, sub, answer, target, engine>>

(* The status is checked again by the statement itself. *)
CancelPendingTask(c) ==
  LET t == target[c] IN
  /\ can[c] = "update"
  /\ IF CancelWhere(table[t])
     THEN /\ table' = [table EXCEPT ![t] = CancelSet(@)]
          /\ \/ Continue(c, "reread")
             \/ MayFail /\ Conclude(c, "error")
     ELSE Conclude(c, "conflict") /\ UNCHANGED table
  /\ UNCHANGED <<now, sub, answer, target, engine>>

(* The response is the row as it is when it is read again. *)
RereadTask(c) ==
  /\ can[c] = "reread"
  /\ Conclude(c, table[target[c]].status)
  /\ UNCHANGED <<now, table, sub, answer, target, engine>>

CancellationFails(c) ==
  /\ MayFail
  /\ can[c] \in {"read", "update", "reread"}
  /\ Conclude(c, "error")
  /\ UNCHANGED <<now, table, sub, answer, target, engine>>

-----------------------------------------------------------------------------
(* The engine, one statement at a time.                                    *)

Owns(s, t) == hand[s].id = t /\ hand[s].step \in {"claimed", "running", "failed"}

Takes(s, t, attempt, step) ==
  hand' = [hand EXCEPT ![s] = [id |-> t, attempt |-> attempt, step |-> step]]

Release(s) == hand' = [hand EXCEPT ![s] = NoHand]

Claim(s, t) ==
  /\ hand[s] = NoHand
  /\ Stored(t)
  /\ ClaimWhere(t, table[t], now)
  /\ table' = [table EXCEPT ![t] = ClaimSet(@, now)]
  /\ \/ Takes(s, t, 0, "claimed")
     \/ MayFail /\ UNCHANGED hand
  /\ UNCHANGED <<now, requests, contested>>

ReadClaimed(s) ==
  LET t == hand[s].id IN
  /\ hand[s].step = "claimed"
  /\ Takes(s, t, table[t].attemptCount, "running")
  /\ UNCHANGED <<now, table, requests, contested>>

FindStuck(s, t) ==
  /\ hand[s] = NoHand
  /\ Stored(t)
  /\ StuckWhere(t, table[t], now)
  /\ Takes(s, t, table[t].attemptCount, "stuck")
  /\ UNCHANGED <<now, table, requests, contested>>

(* By id alone: the row may be in a later attempt, finished or canceled.   *)
SettleSuccess(s) ==
  LET t == hand[s].id IN
  /\ hand[s].step = "running"
  /\ table' = [table EXCEPT ![t] = SucceededRow(t, @, now)]
  /\ \/ Release(s) /\ UNCHANGED contested
     \/ /\ MayFail
        /\ Takes(s, t, hand[s].attempt, "failed")
        /\ contested' = contested \cup {t}
  /\ UNCHANGED <<now, requests>>

(* The recovery of t is sound: still the attempt it read, and nobody's. *)
Abandoned(t, attempt) ==
  /\ table[t].status = "RUNNING"
  /\ table[t].attemptCount = attempt
  /\ \A s \in Scan : ~Owns(s, t)

SettleFailure(s) ==
  LET t == hand[s].id IN
  /\ hand[s].step \in {"running", "failed", "stuck"}
  /\ table' = [table EXCEPT ![t] = FailedRow(t, @, hand[s].attempt, now)]
  /\ contested' = IF hand[s].step = "stuck" /\ ~Abandoned(t, hand[s].attempt)
                  THEN contested \cup {t} ELSE contested
  /\ Release(s)
  /\ UNCHANGED <<now, requests>>

(* A statement is refused, or the node goes down. *)
ScanFails(s) ==
  /\ MayFail
  /\ hand[s] # NoHand
  /\ Release(s)
  /\ UNCHANGED <<now, table, requests, contested>>

EngineStep(s) ==
  \/ \E t \in Task : Claim(s, t) \/ FindStuck(s, t)
  \/ ReadClaimed(s) \/ SettleSuccess(s) \/ SettleFailure(s) \/ ScanFails(s)

-----------------------------------------------------------------------------
Next ==
  \/ Tick
  \/ \E r \in Task : \/ Submit(r) \/ FindByIdempotencyKey(r) \/ Insert(r)
                     \/ SubmissionFails(r)
  \/ \E c \in Cancellation : \/ RequestCancel(c) \/ ReadForCancel(c)
                             \/ CancelPendingTask(c) \/ RereadTask(c)
                             \/ CancellationFails(c)
  \/ \E s \in Scan : EngineStep(s)

Spec == Init /\ [][Next]_vars

-----------------------------------------------------------------------------
(* Properties.                                                             *)

TypeOK ==
  /\ now \in Nat
  /\ table \in [Task -> TaskRow \cup {NoRow}]
  /\ sub \in [Task -> {"new", "lookup", "insert", "done"}]
  /\ answer \in [Task -> Answer]
  /\ can \in [Cancellation -> {"new", "read", "update", "reread", "done"}]
  /\ target \in [Cancellation -> Task \cup {NoTask}]
  /\ \A c \in Cancellation :
       /\ can[c] \notin {"new", "done"} => target[c] \in Task
       /\ can[c] \in {"update", "reread"} => Stored(target[c])
  /\ verdict \in [Cancellation -> {"none", "notFound", "badRequest", "conflict",
                                   "error"} \cup Status]
  /\ hand \in [Scan -> Hand]
  /\ \A s \in Scan : hand[s].step # "none" =>
                      hand[s].id \in Task /\ Stored(hand[s].id)
  /\ contested \subseteq Task

(* All clients that were given a task for one key were given the same one, *)
(* however their requests overlapped and whichever answers were lost, and  *)
(* it is in the table under that key.                                      *)
KeyNamesOneTask ==
  \A r \in Task : answer[r].code = "ok" =>
     /\ Stored(answer[r].id)
     /\ KeyOf[answer[r].id] = KeyOf[r]
     /\ \A q \in Task : KeyOf[q] = KeyOf[r] /\ KeyOf[r] # NoKey
          /\ answer[q].code = "ok" => answer[q].id = answer[r].id

(* A refusal is honest: what was refused left no row of its own, and a     *)
(* conflict is only reported over a task that does hold the key.           *)
RefusalLeavesNoRow ==
  \A r \in Task :
     /\ answer[r].code \in {"badRequest", "conflict"} => ~Stored(r)
     /\ answer[r].code = "conflict" => Holders(KeyOf[r]) \ {r} # {}

(* What a client is told of its cancellation.  The row it is shown is read *)
(* again by a second statement, which the engine may run ahead of: it is   *)
(* canceled all the same, and stays so, unless the task is contested, as   *)
(* by a recovery that read it as stuck before the cancellation and writes  *)
(* it afterwards.  And a cancellation that is refused comes too late: the  *)
(* task has been started, or canceled by somebody else.                    *)
CancelIsHonest ==
  \A c \in Cancellation : LET t == target[c] IN
     /\ verdict[c] \in Status /\ t \notin contested =>
           verdict[c] = "CANCELED" /\ table[t].status = "CANCELED"
     /\ verdict[c] \in {"badRequest", "conflict"} =>
           table[t].lastRunAt # NoTime \/ table[t].status = "CANCELED"

(* Refinement: cancellations that race with each other and with the engine *)
(* leave each task the life module Lifecycle describes: until a task is    *)
(* contested, writes by id with a copy read earlier do no harm, and a      *)
(* canceled one is not run, rescheduled or reported on again.  A task      *)
(* begins before it has a row.                                             *)
StatusOf(t)   == IF Stored(t) THEN table[t].status ELSE "PENDING"
AttemptsOf(t) == IF Stored(t) THEN table[t].attemptCount ELSE 0

L == INSTANCE Lifecycle WITH
       Recurring <- {t \in Task : ScheduleKind(t) = "CRON"},
       status    <- [t \in Task |-> StatusOf(t)],
       attempts  <- [t \in Task |-> AttemptsOf(t)]
ImplementsLifecycle == L!Spec

(* .github/copilot-instructions.md, line 73: "If found, it returns the     *)
(* existing task object directly (preventing duplicates caused by network  *)
(* retries) instead of throwing a conflict": no repetition of a request is *)
(* answered with a conflict.                                               *)
RepetitionIsNoConflict ==
  \A r \in Task : LookedUp(r) => answer[r].code # "conflict"
=============================================================================
