# Formal models of the distributed task scheduler

TLA+ models of the scheduler in `src/`: a NestJS backend that stores tasks in
PostgreSQL and runs on several nodes, with a React dashboard. The models are
checked by TLC on small instances, and theorems about them are proved with TLAPS
for every value of the constants.

    tlc -config SchedulerOnce.cfg MCScheduler.tla     # any run of PROJECT.json
    tlapm AttemptProofs.tla                           # the proofs of one module

Paths below are relative to the root of the repository; `service`, `repository` and
`scanner` are `src/schedules/schedules.service.ts`,
`src/schedules/schedules.repository.ts` and
`src/schedules/scheduler/scheduler-scanner.service.ts`.

## 1. The system

| Component | State | Operations | Interacts with |
| --- | --- | --- | --- |
| Tables `ScheduleTask`, `TaskRun` (`prisma/schema.prisma`, repository) | one row per task, one row per attempt | one statement per repository method, each atomic, none in a transaction with another | shared by all nodes; the only thing they share |
| Execution engine (scanner; service 198-463) | locals of each scan in progress | `scanDueTasks` every 5 s, `recoverStuckTasks`, `processDueTask` | reads and writes the tables, races an executor with a timer |
| Task API (controller, DTOs, service 28-196) | none between requests | `create`, `push`, `cancel`, `findMany`, `findById` | inserts rows, cancels them while the engine works |
| Payload validator | none | `validate` by task type | called by `create` |
| Executors and their registry | locals of one execution | `execute(payload)`: returns, throws, or never comes back | files, SMTP; called by the engine |
| Exception filter, correlation id | the id of the request | maps errors to responses | every request |
| Health, bootstrap, Prisma service | connection | `SELECT 1`, start, stop | database |
| Dashboard, list and details (`frontend/src/App.tsx`, `services/api.ts`) | list, details held, the dialog, calls in flight | polls list and details, cancels | Task API |
| Dashboard, create and push forms (the same files) | which form is open, its fields, one flag for both | open, edit, submit, close | Task API |
| Redis, BullMQ | none | configured in `docker-compose.yml`, used by no source file | none |

What is hard in it:

* **No lock but a conditional update.** `claimDueTask` (repository 83-113) is the mutual
  exclusion of the system. It is released by updates by id that check nothing.
* **Scans overlap.** `@Cron` does not await the last invocation, so one node has several
  scans in progress, and a scan works through its list of due tasks for as long as their
  executors take.
* **Recovery decides on a copy.** `recoverStuckTasks` takes "RUNNING for longer than
  timeoutMs" for "abandoned", then writes by id whatever has happened since.
* **Two clocks for one attempt.** The lease starts with the claim, the runner's timer after
  two more statements, and the executor after a further 1500 ms.
* **Partial failure.** An attempt is closed by two statements, run log and task; either can
  fail, and the `catch` that follows the first pair repeats them with another outcome.
* **Clocks that differ.** `lastRunAt`, `nextRunAt` and the lease are written by one node's
  `new Date()` and compared with another's.
* **Crashes** between any two statements, restarts, answers that get lost.
* **Requests that overlap**: two POSTs with one key, a cancellation and a claim.
* **Answers that overtake each other** in the dashboard, which cancels no call and does not
  remember which one an answer belongs to.
* **Users who try again.** The page gives a request up whose handler goes on; what the user
  submits next may overlap with it, and only the idempotency key ties the two together.
* **Files that change** between the stat, the read and the next file of one execution.

What makes each part correct:

* engine: at most one scan works on a task; attempts per occurrence are bounded; the run
  logs tell the attempts in order; no row is left where no query finds it; outcomes are
  final; a retry waits out its delay unless a scan's list is older than the attempt; a due task
  is taken; an expired attempt ends;
* API: one task per idempotency key; what is refused leaves no row; a cancellation that is
  reported holds, unless a recovery with an old copy of the task overwrites it; rows live as the
  engine's life cycle says;
* validator and executors: what the validator accepts, the executor can work with; a template
  is filled where it has placeholders and nowhere else; an import accounts for every path;
* dashboard: what is shown catches up with the backend, a dialog always shows something;
* forms: one submission at a time; a draft with a key makes one task however often it is
  submitted; a success is the draft's own; a conflict heals; a late answer takes nothing away
  that was submitted.

## 2. The modules

    TaskStore <-- Scheduler --implements--> Lifecycle <--implements-- Admission
        ^             ^
        |             +-- SchedulerProofs <-- LifecycleProofs <-- AttemptProofs
        |                       |
        |             TaskStoreProofs <-- AdmissionProofs <-- FormsProofs
        |                                   |                    |
        +-- Admission <---------------------+                    |
                ^                                                |
                +-- Forms <--------------------------------------+

    Payload <-- FileImport <-- Executors <-- ExecutorsProofs
        ^                          ^
        +------- FormFill <-- MCExecutors           Dashboard <-- DashboardProofs

`MCScheduler`, `MCAdmission`, `MCForms` and `MCExecutors` are for TLC; `Dashboard` needs no
such module.

**TaskStore** has no variables. It holds the columns the engine decides by and, for each
statement of the repository, an operator pair: `XxxWhere`, the WHERE clause, and `XxxSet`,
the row written. The modules that use it put both in one step, which is what PostgreSQL
does for an UPDATE (under READ COMMITTED the WHERE clause is evaluated again on the
latest version of a row that was locked). An update by id alone has no `Where`, and that is
where most of the engine's difficulties come from. `CreatedRow`, `SucceededRow` and
`FailedRow` are the rows `create` and the two closings of an attempt write. A cron
expression is abstracted to a period: the engine only needs that the next occurrence lies
strictly after now.

**Scheduler** is the engine on several nodes. `<<n, i>>` is the i-th scan in progress on
node n. `pc` names the statement it is about to issue or the wait it is in, and each action
is the code from one `await` to the next:

| Action | Code |
| --- | --- |
| `StartScan` | scanner 22-28, up to the query of `recoverStuckTasks` |
| `FindStuckTasks`, `CloseStuckRun`, `SettleStuckTask` | service 380-463, repository 200-227 |
| `FindDueTasks` | scanner 35, repository 52-81 |
| `ClaimDueTask`, `FindTask`, `CreateRunLog` | service 198-231 |
| `DelayDone`, `ExecutorReturns`, `ExecutorThrows`, `TimerFires`, `TimerKillsNode` | service 233-257 |
| `MarkRunSuccess`, `SettleSuccess` | service 266-297, inside the `try` |
| `MarkRunFailed`, `SettleFailure` | service 298-370, the `catch` |
| `StatementFails`, `AnswerLost` | an exception of any statement, before or after it took effect; `Throw` says which `catch` takes it |
| `LeakedEnds` | an executor that lost its race comes back later |
| `Crash`, `Restart`, `Tick`, `Cancel` | processes, clock, the API |

The state of a scan is what the code keeps in local variables: `work` (the lists it has read
and the instant it read them at) and `job` (the task in hand with the columns read for it).
A column that is used later than it was read is in `job` or `work`, never looked up again:
this keeps the stale reads of the code in the model.

Each node has a clock of its own: `now` is the slowest, `Skew[n]` how far node n is ahead of
it, and `Clock(s)` is `new Date()` in scan s. Instants in rows and lists are those of the node
that wrote them. Timers (`setTimeout`) run at the speed of `now` everywhere.

`contested` is a history variable. A task is put into it when somebody settles an attempt
of it that is not abandoned (the recovery was wrong), or when the statement that settled a
success was executed but its answer was lost (the `catch` then writes a failure over it).
The properties about ownership say what holds outside of it; the runs that expect a
violation show what happens inside.

**Lifecycle** is the abstract specification: claim, succeed, fail, cancel, with a
budget of `maxRetries`, and no word of scans, nodes, leases or statements. `Contest` marks
the exception.

**Admission** is the HTTP side. A submission is one POST and a row is named after the
submission that inserted it. Handlers run step by step against the table and against the
engine, which appears by what its scans do to a row: claim it or read it as stuck, and later
write it by its id, with the count read then and whatever has become of the row. `hand[s]` is the
task scan s works on and that count. Lists, run logs, timers and the difference between clocks
are left to `Scheduler`. A scan that recovers several tasks counts as one scan for each.
`contested` is what it is there. The module implements `Lifecycle` too: the life of a task
begins before it has a row.

| Action | Code |
| --- | --- |
| `Submit`, `FindByIdempotencyKey`, `Insert`, `SubmissionFails` | service 28-86, 144-196 |
| `RequestCancel`, `ReadForCancel`, `CancelPendingTask`, `RereadTask`, `CancellationFails` | service 105-142 |
| `Claim`, `ReadClaimed` | service 198-222 |
| `SettleSuccess`, `SettleFailure` | service 264-297, 298-370 |
| `FindStuck`, and `SettleFailure` of what it found | service 380-461 |
| `ScanFails` | an exception or a crash at any of these |

The rules on single fields, and those on payloads, are the constant predicate
`WellFormed`: they are stateless, and a request that breaks one is answered before any
statement.

**Payload** has JSON values as tagged records, the validator's rules and, stated separately
as in the code, the guards of the executors. A string is a sequence of pieces, so that
"blank", "trimmed" and "placeholder" mean something without characters.

**FormFill** is `fillTemplate` and `getValueByPath` as recursive operators, and a reference
definition that does not follow them: the tree of a value as a set of positions with what
stands there, and for each position of the template what must stand there afterwards.

**FileImport** is the loop of the file import, one action per await, with files that change
in between; **Executors** leads a payload from `create` through the registry to its executor.
`FormFill` is recursive, so `Executors` takes the filling as the constant `Fill`, to which
`Executors.cfg` gives `fillTemplate`.

| Action | Code |
| --- | --- |
| `Validate` | service 28-30, validator |
| `ExecuteFileRead`, `ReadStat`, `ReadFile` | `file-read.executor.ts` |
| `ExecuteFileImport`, `ImportStat`, `ImportRead`, `ImportReturns` | `file-import.executor.ts` |
| `ExecuteFormFill` | `form-fill.executor.ts` |
| `ExecuteEmail`, `SendMail` | `email.executor.ts` |
| `DiskChanges` | other processes |

**Dashboard** is one page. An await is a call in a slot, `sent`, then answered (`Serve`,
`Fail`), then handled, three steps that interleave with those of other calls. What a closure
has captured (`cancelTask` asks whether its task was selected when it was clicked) travels in
the call. What a task looks like is a revision number that the backend raises.

| Action | Code (`App.tsx`) |
| --- | --- |
| `LoadTasks`, `PollTasks`, `TasksLoaded` | 107-135 |
| `ViewTaskDetails`, `DetailsLoaded` | 138-151 |
| `PollDetails`, `DetailsPolled` | 153-165 |
| `CancelTask`, `TaskCanceled` | 167-181; its list is `TasksLoaded`, its details `DetailsPolled` |
| `CloseDetails`, `ToggleAutoRefresh` | 764, 439-446 |

**Forms** is the create and the push form, with the handlers of `Admission` behind them (it
extends that module; `Backend` is their four steps). A submission of `Admission` is one click
on a submit button, and `KeyOf` the key in the field at that moment. A *draft* is what the user
works at from one value of the key field to the next; `draft`, `draftOf` and `generated` are
history variables that number drafts, note which one a click submitted, and which keys
`Math.random` has yielded. `awaited` holds the submissions the page waits for. `FetchFails` is a
`fetch` that rejects while its request may still be on its way or be handled: the page goes on,
and so does the handler.

| Action | Code (`App.tsx`) |
| --- | --- |
| `OpenForm`, `CloseForm` | 584-608, 1275-1292, 960, 1556-1560 |
| `EditForm` (`resetFormDefaults`, `generateIdempotencyKey`, `setIdempotencyKey`) | 184-191, 312-323, 987-992, 1088-1105 and their likes in the push form |
| `SubmitForm` | 219-257, 272-300 |
| `FormAnswered`, `FetchFails` | 259-269, 301-310 |
| `Backend` | controller 12-20, and what `Admission` says of it |

Definitions introduced by the word "Mutant" are used by no action. Each is a plausible bug
in the definition that follows it; with it in place, TLC finds the property named in
`PROJECT.json` violated. They show that no property holds for want of a case that would
break it.

### Abstractions

* The clocks of the nodes differ by constants and do not drift. In `Admission` and `Forms` there
  is one clock, for the backend and the browser.
* An instant computed right before a statement is the instant of that statement. The instant
  a scan starts with is kept in `work[s].at`, since it is used much later. The instant of a
  claim is read in `processDueTask` right before the claim.
* A query with its included run logs is one read. Prisma issues two queries for it.
* Payloads, results, error texts and correlation ids are left out of `Scheduler`: no branch
  of the engine depends on them.
* Numbers and booleans are one value; both notations for placeholders are one; a name that
  every JavaScript object inherits (`constructor`) is not used as a key. What is in a file is
  one of four contents (missing, unreadable, text, JSON); sizes, line counts, previews and CSV
  rows are left out, a size being named by the content it was taken of.
* The page's filters and its list spinner are left out. `Dashboard` has no forms: the reload
  after a submission is a `LoadTasks` like any other. `Forms` has of their fields the key and,
  through `Admission`, the instant; `formError`, what the handlers reject without a call (bad
  JSON, a missing instant), and the list behind the dialog are left out, and so are the engine
  and cancellations, which remove no row and change no key.
* Statements are atomic; isolation between statements is none, as in the code.

## 3. What TLC checks

| Run | Instance | Shows |
| --- | --- | --- |
| `engine_once` | 1 one-time task, 2 nodes, one clock 1 ahead, 1 retry, clock to 5, crashes and failing statements | `ExclusiveOwner`, `RetryBudget`, `RunLogFaithful`, `NeverStranded`, `OutcomeIsFinal`, `EarlyRetryIsStale`, `RestIsForGood`, `ImplementsLifecycle` |
| `engine_cron` | 1 cron task of period 2, 2 nodes, one clock 1 ahead, 1 retry, clock to 6, crashes and failing statements | the same across occurrences: budget, logs, next instant, life cycle |
| `engine_pair` | 1 one-time and 1 cron task, 2 nodes with 2 scans each, lists of 2, no retry, clock to 3; the cron task's timeout equals the visibility delay | `ExclusiveOwner`, `RunLogFaithful`, `RestIsForGood` while lists go stale during the work on another task, one recovery has both tasks at hand, and a process ends under its other scan |
| `engine_live` | 1 one-time and 1 cron task, 2 nodes, take limit 1, no visibility delay, 1 retry, clock to 3; one node crashes at will, statements fail until 2; fairness | `DueTaskIsTaken`, `ExpiredAttemptEnds` |
| `admission` | 3 submissions: a POST for a task due at 1, its repetition, a cron task with the empty key; 1 cancellation; 2 scans; 1 retry; clock to 2; failing statements, lost answers, crashes | `KeyNamesOneTask`, `RefusalLeavesNoRow`, `CancelIsHonest`, `ImplementsLifecycle` |
| `executors` | about 1500 requests, some 1300 templates to fill and the rest mostly malformed: strings empty, blank, padded; lists empty, mixed, no lists; templates two levels deep with placeholders for fields, nested fields, nothing, fields below an array, and data that holds placeholders; 2 files, 2 changes | `AcceptedRuns`, `FilledAsAsked`, `ImportFaithful` |
| `dashboard` | 2 tasks, 2 calls in flight, 1 change per task, fairness | `NeverBlank`, `ListCatchesUp`, `DetailsCatchUp` |
| `forms` | 6 clicks: three with one generated key, one each with another, a typed one and none; 3 drafts; both forms; lost answers | `OneSubmission`, `DraftMakesOneTask`, `SuccessIsOwn`, `ConflictHeals`, `ClosesNoOther` |
| `overlap`, `second_success`, `node_down`, `conflict` | the smallest instance that shows it | a statement of the documentation or of a test that the code does not keep, section 4 |

Why the bounds are enough:

* **Two nodes, one slot** in `engine_once`, `engine_cron` and `engine_live`. Scans differ only by
  whom a crash takes down together, so two scans on one node are covered by two nodes except for
  a common end, which is what `engine_pair` adds with two slots: `TimerKillsNode` ends a scan
  that owns the other task, or holds both as stuck. Every property of ownership is about a pair of
  scans. The theorems of section 5 hold for any number.
* **Clock.** A first attempt needs 1 (due), a lease of 2, a retry delay of 1 and a second
  lease; 5 lets a one-time task exhaust its budget and be recovered after a crash. 6 lets a
  cron task exhaust its budget in one occurrence and go on in the next. In `engine_pair` 3 is the
  lease of the one-time task, so that both tasks can be stuck at once. In `admission` a task is due
  and claimed at 1, stuck at 2 with a timeout of 1, and canceled or claimed again while a scan
  holds the copy of its first attempt. A run that ends by the clock is not a deadlock of the
  model, since scans go on for ever, except where a node is down for good: there the run says
  `CHECK_DEADLOCK FALSE`. `Admission` really stops, when every request is answered and no task is
  due any more, `Forms`, when its clicks and drafts are used up, and `Executors`, when the
  execution is over.
* **Skew of 1** is half a lease: a recovery by the fast node comes before the runner's timer, one
  by the slow node after it, and a list of the fast node can hold instants that the slow one has
  not reached. Only one node is ahead, so the nodes are not symmetric in these runs. The other
  engine runs have no skew. The theorems hold for any.
* **The outage** (`Outage`) lasts for the whole of `engine_once` and `engine_cron`; in
  `engine_live` it is over at 2, when an attempt whose last statements were refused is still to be
  recovered.
* **One retry** distinguishes "retry" from "budget exhausted" and, at the boundary,
  `attempt <= maxRetries` from its off-by-one (the mutant `FailedRowOneMore`).
* **Two tasks and a limit.** With a limit of 1 in `engine_live` one task has to wait until another
  scan lists it; with a limit of 2 in `engine_pair` it waits on the list of a scan, where it can be
  finished, canceled or fail meanwhile.
* **Symmetry** is used for nodes and slots in the safety run without skew, `engine_pair`, for the
  two identical submissions and the scans of `admission`, and for the three clicks of one key in
  `forms`: no run with liveness properties has it.
* **Two changes of files** let a file differ between stat and read and be restored, or one
  vanish while the other is read. Two paths make an import with a failure before, after or
  between successes; the theorem holds for any number.
* **Two calls in flight** are the least that overtake each other, and two tasks the least that
  are confused.
* **Three clicks with one key** are a request that was given up, a retry that overlaps with it
  and conflicts, and a retry after the conflict; **three drafts** let a form be closed, opened for
  something else and edited while an answer is on its way.

Fairness of the engine (`FairSpec` of `Scheduler`): weak fairness of `Tick` (time passes), of
`StartScan` (`@Cron` fires every five seconds on every node that is up) and of `Advance`, the
steps a scan takes by itself: a statement is answered and timers fire. Nothing is assumed of
`ExecutorReturns` and `ExecutorThrows` (an SMTP server may never answer until the timer fires), of
`LeakedEnds`, of `Restart` and of requests. Liveness is claimed for instants up to the bound of the
clock only, which is what `Expired` and `Due` say. A timer that the bound keeps from firing is
replaced: `BeyondClock` names such an execution, and its `ExecutorThrows` is fair, which leads to
the same `catch`. For the same reason `engine_live` has no visibility delay, as with
`NODE_ENV=test`: a delay begun at the bound would never end. A database that refuses every statement
for ever stops the engine, hence the outage ends.

Fairness of the page (`FairSpec` of `Dashboard`): a call is answered or given up (weak), an
answer is handled (weak); the two `setInterval` timers fire again and again, though at times
both slots are taken, which is a bound of the model and not of the browser (strong); and the
backend does not refuse or lose one kind of call for ever (strong). Nothing is assumed of the
user. Both properties say "if it is left on, or open, from some time on".

## 4. Where code and documentation differ

Each has a run in which TLC produces the behaviour.

1. **A timeout does not stop the executor** (`overlap`; service 250). The retry runs beside
   the first attempt on one healthy node. `README.md`, line 9, promises exactly-once
   execution.
2. **A task that succeeded is executed again** (`second_success`; service 413). The lease
   is older than the timer, so the recovery of another node can take a running attempt for
   stuck; its update by id puts a task that has meanwhile succeeded back to RETRYING.
3. **A short timeout ends the process** (`node_down`; service 247). With
   `timeoutMs <= 1500` the timeout rejects a promise nobody handles yet. The test at
   `schedules.service.spec.ts`, line 118, runs without the delay.
4. **An overlapping repetition is a conflict** (`conflict`; service 74), not the existing
   task of `.github/copilot-instructions.md`, line 73.

Seen while modelling, without a run of their own:

* A scan that holds a task in its list from before it failed retries it at once: the claim
  accepts RETRYING rows by `scheduleAt`, which is past by then (repository 93;
  `docs/architecture.md`, line 74). `EarlyRetryIsStale` says that no other scan does: the delay
  is kept by `findDueTasks` alone.
* In the dashboard an answer about the task shown before replaces the one that is open, and
  while both ids are polled the two can take turns ("Keep details updated if open",
  `App.tsx`, line 153). The answer to an old submission closes a form that was opened anew
  (260 and 302); by `ClosesNoOther` nothing that was submitted is lost with it, but what was
  typed is. Its error text can stand in such a form as well (264).
* The create form sends no key unless the user asks for one: a retry after a lost answer makes a
  second task (272-301). `DraftMakesOneTask` is about drafts with a key.
* Two drafts to which a user types the same key are one task to the backend; the second is
  reported as a success and its content dropped. `SuccessIsOwn` excepts typed keys.
* `file-read.executor.ts` does not trim its path where the import does: a padded path is
  accepted and not found. A size in a result can be that of another version than its data.
* A cron task that exhausts its retries is rescheduled rather than marked FAILED
  (`docs/architecture.md`, lines 73 and 74).
* A repetition that arrives after `scheduleAt` is refused with 400, since the input is
  validated before the key is looked up (service 29; line 54 of the same document).
* The empty key is not looked up and yet stored (service 32 and 62): the second task with an
  empty key is a conflict.
* A recovery that read a task as stuck and writes it after it was settled and canceled puts it
  back to RETRYING, and a cancellation that was reported is undone (service 427). No document
  promises otherwise; `CancelIsHonest` says that nothing but such a contested write does it.
* A success whose second statement fails, or is executed and its answer lost, is overwritten by
  the `catch`: its run log turns from SUCCESS to FAILED (service 268, 289, 309).
* A RUNNING task cannot be canceled, though the table of `README.md`, line 142, speaks of
  "active" tasks. A contested task can get more than `maxRetries + 1` attempts.

## 5. What is proved

Every safety, action and refinement property of the passing runs but `FilledAsAsked` is also
a theorem: for any finite or infinite sets of tasks, nodes, slots, requests and files, any
timeouts, delays, retries, limits and clock skews, with crashes, refused statements and lost
answers. The assumptions are `TaskAssumption`, `NoTimeAssumption`, `EngineAssumption`,
`AdmissionAssumption`, `FormsAssumption`, `FileAssumption`, `InputAssumption` and
`DashboardAssumption`; they type the constants and keep the "absent" values apart from the
others. Some promises of the documentation, which do not hold of the code as such, are proved
under conditions.

| Module | Theorem | Property |
| --- | --- | --- |
| `SchedulerProofs` | `TypeCorrect` | `TypeOK` |
| | `Exclusive` | `ExclusiveOwner` |
| | `OutcomesFinal` | `OutcomeIsFinal` |
| | `NoneStranded` | `NeverStranded` |
| `LifecycleProofs` | `Budgeted` | `RetryBudget` |
| | `EngineImplementsLifecycle` | `ImplementsLifecycle` |
| | `EarlyRetriesStale` | `EarlyRetryIsStale` |
| | `RestsForGood` | `RestIsForGood` |
| | `WritesAsIfChecked` | (`ActsAsIfChecked`) |
| `AttemptProofs` | `LogsFaithful` | `RunLogFaithful` |
| | `TimeoutsComeLate` | (`TimeoutIsLate`) |
| | `ExecutionsBounded` | (`LogsBounded`) |
| | `SoundRecoveriesSuffice`, `ScansApartSuffice` | (no task contested, under conditions) |
| | `DelayKept` | (no `EarlyClaim`, under a condition) |
| | `LeaseSuffices` | (`NoOverlappingExecution`, under conditions) |
| | `CarriedSuccessIsLast` | (`UncontestedOnce`, under a condition) |
| | `OnceDespiteCrashes`, `ExactlyOnce` | (the promise of exactly-once execution, under conditions) |
| `AdmissionProofs` | `AdmissionTypes` | `TypeOK` of `Admission` |
| | `OneTaskPerKey` | `KeyNamesOneTask` |
| | `RefusalsHonest` | `RefusalLeavesNoRow` |
| | `AdmissionImplementsLifecycle` | `ImplementsLifecycle` of `Admission` |
| | `CancellationsHonest` | `CancelIsHonest` |
| | `RowsEndOnce` | (`AttemptsBounded`, `OverForGood`) |
| `FormsProofs` | `FormsTypes` | `FormsTypeOK` |
| | `OneAtATime` | `OneSubmission` |
| | `OneTaskPerDraft` | `DraftMakesOneTask` |
| | `SuccessesOwn` | `SuccessIsOwn` |
| | `ConflictsHeal` | `ConflictHeals` |
| | `ClosesOwn` | `ClosesNoOther` |
| `ExecutorsProofs` | `AcceptedPayloadsRun` | `AcceptedRuns` |
| | `ImportsFaithful` | `ImportFaithful` |
| `DashboardProofs` | `DashboardTypes` | `TypeOK` of `Dashboard` |
| | `NotBlank` | `NeverBlank` |

What stands in parentheses is proved and in no passing run: properties that are defined beside
their theorem, and promises that hold only under the conditions a theorem names. Three runs of
section 4 show how such promises fail without them.

`TaskStoreProofs` holds the lemmas on rows that both sides use: what each statement writes
is a row again.

**Types.** `TypeOK` is inductive by itself; it contains that a scan with work in hand names
a task, without which no update of a row could be typed.

**Ownership.** `ExclusiveOwner` is inductive relative to `TypeOK`: both its halves are
needed, since the row's RUNNING is what stops a second claim, and the uniqueness of the
owner is what lets a settlement leave no other owner behind. The steps are summarised by
lemmas: `NoNewOwner` (only a claim whose WHERE clause matched makes an owner),
`RowWriters` (a row is written by a cancellation, such a claim or one of three
settlements), `SettlementReleases` (a settlement that does not contest the task finds it
RUNNING and leaves it without an owner). `OutcomesFinal` is then short: the writers find the
row RUNNING or cancelable, unless they contest the task.

**Budget.** `RetryBudget` bounds the row and says that the owner's copy of `attemptCount`
is the row's own. The second part is what makes the first one inductive: the comparison
`attemptCount <= maxRetries` is made on the copy. It is preserved because the row of an
owned task is written by nobody but the owner (`OwnedRowStays`), which is where
`ExclusiveOwner` enters.

**Refinement.** A step writes at most one row (`OneRowSteps`); an uncontested write is one of
the four abstract steps within the budget, and a contested one is `Contest`. No task is ever
PAUSED (`UnpausedNext`), a status the schema declares and nothing sets.

**Checked or not.** `WritesAsIfChecked` says what ownership buys: to an uncontested row the engine
does only what it would do if each update checked for RUNNING and went by the row's own count. A
settlement by a copy read earlier and an UPDATE without conditions amount to that, because of
`ExclusiveOwner` and the second part of `RetryBudget`.

**Run logs.** `RunLogFaithful` is not inductive: it says nothing about the count of logs a
scan has read. `LogInv` adds, for each point of an attempt (`OwnerLogs`), which log may be
open: none before `createRunLog` and none after the log was closed, in between none but
the scan's own; and between the read and the insert the count it read is still the number
of logs. That no log is open when a settlement writes the row (`SettledLogs`) is what keeps
the next attempt's log the only one. `CountInv` adds for ONCE tasks that an attempt is counted
before its log is written: an owner that has not written its log yet has a count greater than
the number of logs, and what the row counts never falls (`CountGrows`; a cron task starts again
at 0 with each occurrence). Together with the budget this bounds the work itself and not only
the column: an executor runs under a log of its own, so `ExecutionsBounded` says that an
uncontested ONCE task is executed `maxRetries + 1` times at most, however many nodes crash.

**Timer and lease.** The lease is `lastRunAt + timeoutMs`, on the clocks of the nodes; the timer
of the same length is armed after two more statements. `LeaseInv` says at each point of an
attempt what `lastRunAt` can be. Hence `TimeoutsComeLate`: a timeout never fires before the
lease is over, even by the clock of the node that works on the task, so a task that times out
can always be taken for stuck by another scan as well. No choice of `timeoutMs` avoids that.

**When the lease is as good as a lock.** `contested` is empty for ever if

* `ReadingsSound`: what `findStuckTasks` reads as stuck is worked on by nobody,
* `RecoveriesApart`: no two scans hold one task as stuck at once, and
* `SuccessHeard`: a settlement of a success that is reported failed was not executed;

processes may crash, and every other statement may fail or lose its answer
(`SoundRecoveriesSuffice`). All that the sections above say of uncontested tasks then holds of
all tasks. The code enforces none of the three, and none is implied by the others: an attempt
that outlives its lease is settled by a recovery while its owner runs; two recoveries that read
the same abandoned attempt both settle it, the second perhaps after the next attempt has begun;
and a lost answer sends a success into the `catch`, which overwrites it. The inductive invariant
is `RecoveryInv`: each copy a recovery holds is `Fresh`, which is what the rows and logs say, and
nobody works on that task. It rests on `StaysFresh` (nothing touches a RUNNING row that nobody
owns but its one recovery), on `LogInv` (the log the recovery closes is the only open one), and
on a case split of a scan's steps into those that concern its recovery (`RecoverySteps`).

* `ScansApartSuffice`: when scans never overlap in time (`ScansApart`), on whatever nodes, the
  first two conditions hold, however late an attempt is, since who reads is not at work and a
  scan holds stuck tasks only while it recovers them (`StuckInv`). `@Cron` every five seconds does
  not give that, on a single node either: a scan is not awaited by the next.
* `LeaseSuffices`: the first condition follows when no lease runs out, on any clock, before its
  attempt is settled (`LeasesHold`). Then no timer ever fires, no execution is leaked, and no two
  executions of a task overlap (`NoOverlappingExecution`), crashes included.
* `OnceDespiteCrashes`: the promise of `README.md`, line 9, is kept under crashes and failing
  statements if leases hold, recoveries are apart, and successes are carried through
  (`SuccessCarried`): the two statements after a success, on the log and on the task, are not
  separated by a crash, nor reported failed when they were executed. Then executions do not
  overlap, a ONCE task has one successful execution at most (`SucceedsOnce`), and none after it
  (`NoExecutionAfterSuccess`). What `CarriedSuccessIsLast` says by itself is that this last
  condition is enough for any uncontested task: from the execution of `markRunSuccess` to the
  answer of `markTaskSuccess`, which are two statements and no transaction, is the only time in
  which its recorded success can be forgotten. The invariant is `OutcomeInv`: a ONCE task with a successful log is
  SUCCESS or its owner is about to write that (`OutcomeRecorded`), and it has one such log.
* `ExactlyOnce`: if leases hold, no node crashes and no statement fails, the other conditions
  hold by themselves, as no recovery ever finds anything (`CalmInv`: a RUNNING task has an owner
  and no recovery is under way), and no timeout ends a process (`TimeoutSparesNode`). These
  are the properties that three runs of section 4 refute without the conditions.

The conditions are met wherever `timeoutMs` leaves room for the delay, the executor, the
statements and the difference between the clocks: an executor that returns in time is such a
behaviour. They bound what an operator can rely on: with one task whose executor hangs,
`LeasesHold` fails.

**What a scan keeps to itself.** `OnlyItself` says that the locals of a scan change in its own
steps and with the end of its process. `OwnerSteps` and `RecoverySteps` narrow that to
an owner and to a recovery; the invariants above go by these cases and not by the actions
one by one.

**Rest.** `RestIsForGood` holds for contested tasks too and rests on no invariant but
`TypeOK`: a task that no scan owns and no recovery holds a copy of can only be taken up
by a claim or a `findStuckTasks`, and both ask for a status it does not have.

**Early retries.** `EarlyRetryIsStale` compares instants that different nodes have written. The
invariant `ListInv` says of each task on a scan's list that has run: either its last claim is no
older than the list, by the slowest clock (`ListedBeforeAttempt`), or it waits for a retry whose
instant the list had reached. A claim before `nextRunAt` rules out the second, since a list's
instant is not ahead of its scan's clock. `DelayKept` gives the other side: when scans never
overlap no claim is early. Its invariant `ListFresh` says that a list names each task once and
apart from the one being dealt with (`NextDueApart`), so that what a scan settles it does not
still have on its list, and that nobody makes a listed task wait again (`ListedWaits`).

**Admission.** A step is one of the engine, which leaves the requests alone, or the other way
round (`TwoSides`); the table is written by an insert that does not clash, by conditional updates,
or by a settlement by id (`TableWriters`). `KeyInv` strengthens the two properties about keys: keys
are unique among the rows, a handler that has not answered has no row, and a granted task exists
under the key that was asked for. `HandInv` is to this module what `ExclusiveOwner` and
`RetryBudget` are to `Scheduler`: as long as a task is not contested, the scan that claimed it is
the only one, its row says RUNNING, and the scan's copy of `attemptCount` is the row's. Hence
`SettledInTime`: a settlement that does not contest a task finds it RUNNING in the attempt it has
read. `CancelInv` says what a cancellation knows. That a row was canceled does not go stale, since
a CANCELED row is neither claimed nor settled in time (`SafeCanceledStays`); nor does that it was
too late (`TooLateStays`), since `Ran` says that whoever is at work on a row, or done with it, has
left the instant of its start in it. `AdmissionImplementsLifecycle` takes an insert for a stutter,
a settlement that contests for `Contest`, and every other write for one of the abstract steps
(`RowWritten`, `TimelyWrites`, `RowLife`). `RowsEndOnce` uses nothing but that refinement: what the
abstract life cycle guarantees until a task is contested, the bound of attempts and that an end is
final, is proved of it (`LifeSteps`) and so holds of every row.

**Forms.** A step of `Forms` is one of `Admission` or a stutter of it (`FormsRefine`), so that its
invariants are at hand. `FormsInv` adds what the page knows: which submissions it awaits
(`Awaiting`), that a generated key belongs to one draft and an open form shows a draft none of
whose clicks succeeded (`DraftInv`), and that what it was told is what was answered (`ToldTrue`).
`OneTaskPerDraft` then follows from the uniqueness of keys; `SuccessesOwn` needs in addition that
no second click of a draft is possible while the first is awaited or after it succeeded.
`ConflictsHeal` is where the table enters: a reported conflict means a stored key, and rows
stay (`RowsStay`).

**Executors.** `ValidIsTaken` compares the two statements of the rules type by type, for any
payload. `WayInv` adds which type is at which step and that the current content of a file is
among those it has had (`NowIsPast`), so that a failed read has its cause on record.
`ImportFaithful` is not inductive: `ImportInv` adds how far the loop is and that the stat in
hand is of a file that was there. An entry, once made, stays true because the record of a file
only grows (`PastStays`); the counts follow the list by `AppendCounts`.

**Dashboard.** `NeverBlank` is inductive with the types: a call that turns the spinner off brings
a task or closes the dialog, and nothing unselects a task.

Only model-checked: `FilledAsAsked`, since `fillTemplate` is recursive over data, and the four
liveness properties, which rest on fairness; both are out of the prover's reach. Of the four
properties that runs refute, three are proved under the conditions above. That each condition
is needed is shown by the examples given with them, not by proof.

## 6. What is not modelled

* The exception filter, the correlation id, health and bootstrap, beyond the response code they
  lead to: they keep no state between requests.
* The rendering of the dashboard, its filters, and the fields of its forms but key and instant;
  the components under `frontend/src/components/ui`, which are markup.
* Errors of a form in the next one, and a browser whose clock is behind or ahead of the
  backend's (section 4; the hazards without a property in `PROJECT.json`).
* Redis and BullMQ, which the code does not use.
* What the abstractions of section 2 name.

## 7. Plan

The order was: rows and statements, the engine, its abstract life cycle, the API, the way of a
payload, the dashboard and its forms; each with its proofs; then the clocks of the nodes. What
could come next:

1. A composition of `Admission` with `Scheduler` through one table, in place of the scans with one
   task in hand by which the engine appears there, and a refinement between the two.
2. The executors under the engine: a retry of `Executors` after a timeout, with the first
   execution still at its files or its mail.
3. The conditions of `OnceDespiteCrashes` for a changed engine: with the two statements after a
   success in one transaction, and settlements that check `attemptCount`, one would ask which of
   them remain hypotheses.
