------------------------------ MODULE Dashboard ------------------------------
(***************************************************************************)
(* The dashboard, frontend/src/App.tsx: one page that polls the backend    *)
(* and shows a list of tasks and the details of one.  Its forms are in     *)
(* module Forms: here they would only take clicks away while they are      *)
(* open, and the reload after a submission is a LoadTasks like any other.  *)
(*                                                                         *)
(* A handler runs to its next await without interruption; every await is   *)
(* a call to the backend, kept in a slot until its answer is handled.  A   *)
(* call is sent, served (or refused, or lost) and handled in three steps,  *)
(* so that answers overtake each other.  Nothing in the page cancels a     *)
(* call or remembers which call an answer belongs to: a handler knows what *)
(* its closure captured.                                                   *)
(*                                                                         *)
(* What a task looks like is a revision number; the backend only ever      *)
(* raises it.  Status, payload and logs of a task change together with it. *)
(***************************************************************************)
EXTENDS Naturals

CONSTANTS
  Task,
  Slot,         \* bound: calls in flight
  None,
  MaxRevision   \* bound: how often the backend changes a task

ASSUME DashboardAssumption ==
  /\ None \notin Task
  /\ None \notin [id : Task, revision : Nat]
  /\ MaxRevision \in Nat

VARIABLES
  revision,     \* [Task -> Revision]: the tasks as the backend has them
  call,         \* [Slot -> Call]
  tasks,        \* the list on display: a function from tasks to revisions
  backendHealthy,  \* the last loadTasks that ended succeeded
  autoRefresh,
  selectedTask, \* the details held: a task and its revision, or None
  isDetailOpen, selectedTaskLoading

list == <<tasks, backendHealthy, autoRefresh>>
detail == <<selectedTask, isDetailOpen, selectedTaskLoading>>
vars == <<revision, call, list, detail>>

(* list: loadTasks; relist: loadTasks awaited by cancelTask; view, poll:   *)
(* fetchTaskById for viewTaskDetails and for everybody else; patch:        *)
(* cancelTask.  mine: the closure of cancelTask found id selected.         *)
Kind == {"list", "relist", "view", "poll", "patch"}
Revision == 0 .. MaxRevision
Snapshot == UNION {[T -> Revision] : T \in SUBSET Task}
Call == [kind : Kind \cup {"none"}, id : Task \cup {None}, mine : BOOLEAN,
         state : {"sent", "ok", "failed"}, data : Snapshot]

NewCall(kind, id, mine) ==
  [kind |-> kind, id |-> id, mine |-> mine, state |-> "sent", data |-> << >>]
NoCall == NewCall("none", None, FALSE)

Put(q, c) == call' = [call EXCEPT ![q] = c]
Send(q, kind, id) == call[q] = NoCall /\ Put(q, NewCall(kind, id, FALSE))
Answered(q, kinds) == call[q].kind \in kinds /\ call[q].state # "sent"
Succeeded(q) == call[q].state = "ok"

Init ==
  /\ revision = [t \in Task |-> 0]
  /\ call = [q \in Slot |-> NoCall]
  /\ tasks = << >>
  /\ backendHealthy = FALSE
  /\ autoRefresh = TRUE
  /\ selectedTask = None
  /\ isDetailOpen = FALSE /\ selectedTaskLoading = FALSE

-----------------------------------------------------------------------------
(* The backend and the network.                                            *)

(* The engine or another client changes a task. *)
TaskChanges(t) ==
  /\ revision[t] < MaxRevision
  /\ revision' = [revision EXCEPT ![t] = @ + 1]
  /\ UNCHANGED <<call, list, detail>>

Answer(q, T, rev) ==
  Put(q, [call[q] EXCEPT !.state = "ok", !.data = [t \in T |-> rev[t]]])

Serve(q) ==
  LET c == call[q] IN
  /\ c.kind # "none" /\ c.state = "sent"
  /\ \/ /\ c.kind \in {"list", "relist"}
        /\ Answer(q, Task, revision) /\ UNCHANGED revision
     \/ /\ c.kind \in {"view", "poll"}
        /\ Answer(q, {c.id}, revision) /\ UNCHANGED revision
     \/ /\ c.kind = "patch" /\ revision[c.id] < MaxRevision
        /\ revision' = [revision EXCEPT ![c.id] = @ + 1]
        /\ Answer(q, {}, revision)
  /\ UNCHANGED <<list, detail>>

(* The call is refused, or its answer is lost: a cancellation that took    *)
(* effect all the same is this step and a TaskChanges.                     *)
Fail(q) ==
  /\ call[q].kind # "none" /\ call[q].state = "sent"
  /\ Put(q, [call[q] EXCEPT !.state = "failed"])
  /\ UNCHANGED <<revision, list, detail>>

-----------------------------------------------------------------------------
(* The list.                                                               *)

(* The refresh button, and the page when it is loaded. *)
LoadTasks(q) ==
  /\ Send(q, "list", None)
  /\ UNCHANGED <<revision, list, detail>>

(* Mutant: the page stops asking a backend that did not answer. *)
PollTasksIfHealthy(q) == autoRefresh /\ backendHealthy /\ LoadTasks(q)

PollTasks(q) == autoRefresh /\ LoadTasks(q)

(* Mutant: after a cancellation the details are read without an id. *)
TasksLoadedForNone(q) ==
  /\ Answered(q, {"list", "relist"})
  /\ tasks' = IF Succeeded(q) THEN call[q].data ELSE tasks
  /\ backendHealthy' = Succeeded(q)
  /\ Put(q, IF call[q].kind = "relist" /\ call[q].mine
            THEN NewCall("poll", None, FALSE) ELSE NoCall)
  /\ UNCHANGED <<revision, autoRefresh, detail>>

TasksLoaded(q) ==
  /\ Answered(q, {"list", "relist"})
  /\ tasks' = IF Succeeded(q) THEN call[q].data ELSE tasks
  /\ backendHealthy' = Succeeded(q)
  /\ Put(q, IF call[q].kind = "relist" /\ call[q].mine
            THEN NewCall("poll", call[q].id, FALSE) ELSE NoCall)
  /\ UNCHANGED <<revision, autoRefresh, detail>>

ToggleAutoRefresh ==
  /\ ~isDetailOpen
  /\ autoRefresh' = ~autoRefresh
  /\ UNCHANGED <<revision, call, tasks, backendHealthy, detail>>

-----------------------------------------------------------------------------
(* The details.                                                            *)

ViewTaskDetails(q, t) ==
  /\ ~isDetailOpen /\ t \in DOMAIN tasks
  /\ Send(q, "view", t)
  /\ selectedTaskLoading' = TRUE
  /\ isDetailOpen' = TRUE
  /\ UNCHANGED <<revision, list, selectedTask>>

Select(q) ==
  LET t == call[q].id IN selectedTask' = [id |-> t, revision |-> call[q].data[t]]

(* Mutant: the dialog stays open when its task could not be loaded. *)
DetailsLoadedOrLeft(q) ==
  /\ Answered(q, {"view"})
  /\ IF Succeeded(q) THEN Select(q) ELSE UNCHANGED selectedTask
  /\ selectedTaskLoading' = FALSE
  /\ Put(q, NoCall)
  /\ UNCHANGED <<revision, list, isDetailOpen>>

DetailsLoaded(q) ==
  /\ Answered(q, {"view"})
  /\ IF Succeeded(q) THEN Select(q) /\ UNCHANGED isDetailOpen
                     ELSE isDetailOpen' = FALSE /\ UNCHANGED selectedTask
  /\ selectedTaskLoading' = FALSE
  /\ Put(q, NoCall)
  /\ UNCHANGED <<revision, list>>

(* The effect is set up for the task that is selected now. *)
PollDetails(q) ==
  /\ isDetailOpen /\ selectedTask # None
  /\ Send(q, "poll", selectedTask.id)
  /\ UNCHANGED <<revision, list, detail>>

(* Mutant: the poll refreshes only what was never loaded. *)
DetailsPolledOnce(q) ==
  /\ Answered(q, {"poll"})
  /\ IF Succeeded(q) /\ selectedTask = None THEN Select(q) ELSE UNCHANGED selectedTask
  /\ Put(q, NoCall)
  /\ UNCHANGED <<revision, list, isDetailOpen, selectedTaskLoading>>

DetailsPolled(q) ==
  /\ Answered(q, {"poll"})
  /\ IF Succeeded(q) THEN Select(q) ELSE UNCHANGED selectedTask
  /\ Put(q, NoCall)
  /\ UNCHANGED <<revision, list, isDetailOpen, selectedTaskLoading>>

CloseDetails ==
  /\ isDetailOpen' = FALSE /\ isDetailOpen
  /\ UNCHANGED <<revision, call, list, selectedTask, selectedTaskLoading>>

-----------------------------------------------------------------------------
(* A cancellation: patch, then the list, then the details if they were the *)
(* task's when it was clicked.                                             *)

CancelTask(q, t) ==
  /\ ~isDetailOpen /\ t \in DOMAIN tasks /\ call[q] = NoCall
  /\ Put(q, NewCall("patch", t, selectedTask # None /\ selectedTask.id = t))
  /\ UNCHANGED <<revision, list, detail>>

TaskCanceled(q) ==
  /\ Answered(q, {"patch"})
  /\ Put(q, IF Succeeded(q) THEN NewCall("relist", call[q].id, call[q].mine)
                            ELSE NoCall)
  /\ UNCHANGED <<revision, list, detail>>

-----------------------------------------------------------------------------
Handle(q) == \/ TasksLoaded(q) \/ DetailsLoaded(q) \/ DetailsPolled(q)
             \/ TaskCanceled(q)

Next ==
  \/ \E t \in Task : TaskChanges(t)
  \/ \E q \in Slot : \/ Serve(q) \/ Fail(q) \/ Handle(q)
                     \/ LoadTasks(q) \/ PollDetails(q)
  \/ \E q \in Slot, t \in Task : ViewTaskDetails(q, t) \/ CancelTask(q, t)
  \/ ToggleAutoRefresh \/ CloseDetails

Spec == Init /\ [][Next]_vars

-----------------------------------------------------------------------------
(* Properties.                                                             *)

TypeOK ==
  /\ revision \in [Task -> Revision]
  /\ call \in [Slot -> Call]
  /\ \A q \in Slot :
       /\ call[q].kind \in {"relist", "view", "poll", "patch"} => call[q].id \in Task
       /\ call[q].kind \in {"view", "poll"} /\ call[q].state = "ok" =>
             call[q].id \in DOMAIN call[q].data
  /\ tasks \in Snapshot
  /\ backendHealthy \in BOOLEAN /\ autoRefresh \in BOOLEAN
  /\ selectedTask \in [id : Task, revision : Revision] \cup {None}
  /\ isDetailOpen \in BOOLEAN /\ selectedTaskLoading \in BOOLEAN

(* The dialog always has something to show: the spinner or a task.  Any    *)
(* call of viewTaskDetails can switch the spinner off, also for a dialog   *)
(* opened after it, and only the one that loads a task or closes the       *)
(* dialog may.                                                             *)
NeverBlank == isDetailOpen /\ ~selectedTaskLoading => selectedTask # None

-----------------------------------------------------------------------------
(* Liveness.  Timers fire, a call is answered in the end, and the backend  *)
(* does not refuse or lose one kind of call for ever.  Nothing is assumed  *)
(* of the user.                                                            *)
ListServed(q)    == call[q].kind = "list" /\ Serve(q)
DetailsServed(q) == call[q].kind \in {"view", "poll"} /\ Serve(q)

Fairness ==
  /\ \A q \in Slot : WF_vars(Serve(q) \/ Fail(q)) /\ WF_vars(Handle(q))
  /\ SF_vars(\E q \in Slot : PollTasks(q))
  /\ SF_vars(\E q \in Slot : PollDetails(q))
  /\ SF_vars(\E q \in Slot : ListServed(q))
  /\ SF_vars(\E q \in Slot : DetailsServed(q))

FairSpec == Spec /\ Fairness

(* After the backend has come to rest the list is up to date and remains   *)
(* so, whichever answers were lost or came late.  (It comes to rest at     *)
(* MaxRevision at the latest.)                                             *)
ListCatchesUp == <>[]autoRefresh => <>[](tasks = revision)

(* A dialog that is left open ends up showing a task as the backend has it *)
(* now.  Which task that is may change: an answer about the one shown      *)
(* before replaces it, and two polls under way can take turns.             *)
UpToDate == selectedTask # None /\ selectedTask.revision = revision[selectedTask.id]
DetailsCatchUp == <>[]isDetailOpen => <>[](~selectedTaskLoading /\ UpToDate)
=============================================================================
