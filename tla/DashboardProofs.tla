--------------------------- MODULE DashboardProofs ---------------------------
(***************************************************************************)
(* Theorems about Dashboard, for any number of tasks and calls in flight.  *)
(***************************************************************************)
EXTENDS Dashboard, TLAPS

-----------------------------------------------------------------------------
(* Calls.                                                                  *)

CallsOK ==
  /\ call \in [Slot -> Call]
  /\ \A q \in Slot :
       /\ call[q].kind \in {"relist", "view", "poll", "patch"} => call[q].id \in Task
       /\ call[q].kind \in {"view", "poll"} /\ call[q].state = "ok" =>
             call[q].id \in DOMAIN call[q].data

PageOK ==
  /\ tasks \in Snapshot
  /\ backendHealthy \in BOOLEAN /\ autoRefresh \in BOOLEAN
  /\ selectedTask \in [id : Task, revision : Revision] \cup {None}
  /\ isDetailOpen \in BOOLEAN /\ selectedTaskLoading \in BOOLEAN

(* What may be put into a slot. *)
GoodCall(c) ==
  /\ c \in Call
  /\ c.kind \in {"relist", "view", "poll", "patch"} => c.id \in Task
  /\ c.kind \in {"view", "poll"} /\ c.state = "ok" => c.id \in DOMAIN c.data

LEMMA PutCall ==
  ASSUME CallsOK, NEW q \in Slot, NEW c, GoodCall(c), Put(q, c)
  PROVE  CallsOK'
BY DEF CallsOK, GoodCall, Put

LEMMA NoData == << >> \in Snapshot
<1>1. << >> = [t \in {} |-> 0]  OBVIOUS
<1>2. [t \in {} |-> 0] \in [{} -> Revision]  OBVIOUS
<1>3. {} \in SUBSET Task  OBVIOUS
<1> QED  BY <1>1, <1>2, <1>3 DEF Snapshot

LEMMA NewCallIsGood ==
  ASSUME NEW kind \in Kind \cup {"none"}, NEW id \in Task \cup {None},
         NEW mine \in BOOLEAN,
         kind \in {"relist", "view", "poll", "patch"} => id \in Task
  PROVE  GoodCall(NewCall(kind, id, mine))
BY NoData DEF GoodCall, NewCall, Call

LEMMA AnswerIsGood ==
  ASSUME CallsOK, NEW q \in Slot, NEW T \in SUBSET Task,
         NEW rev \in [Task -> Revision], Answer(q, T, rev),
         call[q].kind \in {"view", "poll"} => call[q].id \in T
  PROVE  CallsOK'
<1> DEFINE data == [t \in T |-> rev[t]]
           c == [call[q] EXCEPT !.state = "ok", !.data = data]
<1>1. data \in Snapshot
  <2>1. data \in [T -> Revision]  OBVIOUS
  <2> QED  BY <2>1 DEF Snapshot
<1>2. DOMAIN data = T  OBVIOUS
<1>3. Put(q, c)  BY DEF Answer
<1> HIDE DEF data
<1>4. GoodCall(c)  BY <1>1, <1>2 DEF GoodCall, CallsOK, Call
<1> QED  BY <1>3, <1>4, PutCall

-----------------------------------------------------------------------------
(* Types.                                                                  *)

LEMMA ServeTypes ==
  ASSUME TypeOK, NEW q \in Slot, Serve(q)
  PROVE  CallsOK' /\ revision' \in [Task -> Revision]
<1>1. CallsOK /\ revision \in [Task -> Revision]  BY DEF TypeOK, CallsOK
<1>2. CASE call[q].kind = "patch"
  <2>1. /\ call[q].id \in Task /\ revision[call[q].id] < MaxRevision
        /\ revision' = [revision EXCEPT ![call[q].id] = @ + 1]
        /\ Answer(q, {}, revision)
    BY <1>1, <1>2, DashboardAssumption DEF Serve, CallsOK
  <2>2. revision' \in [Task -> Revision]
    BY <1>1, <2>1, DashboardAssumption DEF Revision
  <2>3. CallsOK'  BY <1>1, <1>2, <2>1, AnswerIsGood
  <2> QED  BY <2>2, <2>3
<1>3. CASE call[q].kind # "patch"
  <2>1. UNCHANGED revision
        /\ \/ call[q].kind \in {"list", "relist"} /\ Answer(q, Task, revision)
           \/ call[q].kind \in {"view", "poll"} /\ Answer(q, {call[q].id}, revision)
    BY <1>3 DEF Serve
  <2>2. CASE call[q].kind \in {"list", "relist"} /\ Answer(q, Task, revision)
    BY <1>1, <2>1, <2>2, AnswerIsGood
  <2>3. CASE call[q].kind \in {"view", "poll"} /\ Answer(q, {call[q].id}, revision)
    <3>1. call[q].id \in Task  BY <1>1, <2>3 DEF CallsOK
    <3> QED  BY <1>1, <2>1, <2>3, <3>1, AnswerIsGood
  <2> QED  BY <1>1, <2>1, <2>2, <2>3
<1> QED  BY <1>2, <1>3

LEMMA SelectTypes ==
  ASSUME TypeOK, NEW q \in Slot, call[q].kind \in {"view", "poll"},
         Succeeded(q), Select(q)
  PROVE  selectedTask' \in [id : Task, revision : Revision]
<1>1. /\ call[q].id \in Task
      /\ call[q].data \in Snapshot
      /\ call[q].id \in DOMAIN call[q].data
  BY DEF TypeOK, Succeeded, Call
<1>2. PICK T \in SUBSET Task : call[q].data \in [T -> Revision]
  BY <1>1 DEF Snapshot
<1>3. call[q].data[call[q].id] \in Revision  BY <1>1, <1>2
<1> QED  BY <1>1, <1>3 DEF Select

LEMMA TypeNext == TypeOK /\ [Next]_vars => TypeOK'
<1> SUFFICES ASSUME TypeOK, [Next]_vars PROVE TypeOK'  OBVIOUS
<1> USE DEF list, detail
<1>0. CallsOK /\ PageOK /\ revision \in [Task -> Revision]
  BY DEF TypeOK, CallsOK, PageOK
<1>1. GoodCall(NoCall)  BY NewCallIsGood DEF NoCall
<1>2. ASSUME NEW q \in Slot, Send(q, "list", None) PROVE CallsOK'
  <2>1. GoodCall(NewCall("list", None, FALSE))  BY NewCallIsGood DEF Kind
  <2> QED  BY <1>0, <1>2, <2>1, PutCall DEF Send
<1>3. ASSUME NEW q \in Slot, NEW kind \in {"view", "poll"}, NEW t \in Task,
             Send(q, kind, t)
      PROVE  CallsOK'
  <2>1. GoodCall(NewCall(kind, t, FALSE))  BY NewCallIsGood DEF Kind
  <2> QED  BY <1>0, <1>3, <2>1, PutCall DEF Send
<1>4. ASSUME NEW t \in Task, TaskChanges(t) PROVE TypeOK'
  <2>1. revision' \in [Task -> Revision]
    BY <1>0, <1>4, DashboardAssumption DEF TaskChanges, Revision
  <2> QED  BY <1>4, <2>1 DEF TaskChanges, TypeOK
<1>5. ASSUME NEW q \in Slot, Serve(q) PROVE TypeOK'
  <2>1. CallsOK' /\ revision' \in [Task -> Revision]  BY <1>5, ServeTypes
  <2> QED  BY <1>5, <2>1 DEF Serve, TypeOK, CallsOK
<1>6. ASSUME NEW q \in Slot, Fail(q) PROVE TypeOK'
  <2>1. GoodCall([call[q] EXCEPT !.state = "failed"])
    BY <1>0 DEF GoodCall, CallsOK, Call
  <2>2. CallsOK'  BY <1>0, <1>6, <2>1, PutCall DEF Fail
  <2> QED  BY <1>6, <2>2 DEF Fail, TypeOK, CallsOK
<1>7. ASSUME NEW q \in Slot, TasksLoaded(q) PROVE TypeOK'
  <2>1. CallsOK'
    <3>1. PICK c : GoodCall(c) /\ Put(q, c)
      <4>1. call[q].kind = "relist" => GoodCall(NewCall("poll", call[q].id, FALSE))
        BY <1>0, NewCallIsGood DEF CallsOK, Kind
      <4> QED  BY <1>1, <1>7, <4>1 DEF TasksLoaded
    <3> QED  BY <1>0, <3>1, PutCall
  <2>2. call[q].data \in Snapshot  BY <1>0 DEF CallsOK, Call
  <2>3. tasks' \in Snapshot /\ backendHealthy' \in BOOLEAN
    BY <1>0, <1>7, <2>2 DEF TasksLoaded, PageOK, Succeeded
  <2> QED  BY <1>0, <1>7, <2>1, <2>3 DEF TasksLoaded, TypeOK, CallsOK
<1>8. ASSUME NEW q \in Slot, DetailsLoaded(q) PROVE TypeOK'
  <2>1. CallsOK'  BY <1>0, <1>1, <1>8, PutCall DEF DetailsLoaded
  <2>2. selectedTask' \in [id : Task, revision : Revision] \cup {None}
    BY <1>0, <1>8, SelectTypes DEF DetailsLoaded, Answered, PageOK
  <2>3. isDetailOpen' \in BOOLEAN  BY <1>0, <1>8 DEF DetailsLoaded, PageOK
  <2> QED  BY <1>0, <1>8, <2>1, <2>2, <2>3 DEF DetailsLoaded, TypeOK, CallsOK
<1>9. ASSUME NEW q \in Slot, DetailsPolled(q) PROVE TypeOK'
  <2>1. CallsOK'  BY <1>0, <1>1, <1>9, PutCall DEF DetailsPolled
  <2>2. selectedTask' \in [id : Task, revision : Revision] \cup {None}
    BY <1>0, <1>9, SelectTypes DEF DetailsPolled, Answered, PageOK
  <2> QED  BY <1>0, <1>9, <2>1, <2>2 DEF DetailsPolled, TypeOK, CallsOK
<1>10. ASSUME NEW q \in Slot, TaskCanceled(q) PROVE TypeOK'
  <2>1. call[q].id \in Task /\ call[q].mine \in BOOLEAN
    BY <1>0, <1>10 DEF TaskCanceled, Answered, CallsOK, Call
  <2>2. GoodCall(NewCall("relist", call[q].id, call[q].mine))
    BY <2>1, NewCallIsGood DEF Kind
  <2>3. CallsOK'  BY <1>0, <1>1, <1>10, <2>2, PutCall DEF TaskCanceled
  <2> QED  BY <1>10, <2>3 DEF TaskCanceled, TypeOK, CallsOK
<1>11. ASSUME NEW q \in Slot, LoadTasks(q) PROVE TypeOK'
  <2>1. CallsOK'  BY <1>2, <1>11 DEF LoadTasks
  <2> QED  BY <1>11, <2>1 DEF LoadTasks, TypeOK, CallsOK
<1>12. ASSUME NEW q \in Slot, PollDetails(q) PROVE TypeOK'
  <2>1. selectedTask.id \in Task  BY <1>0, <1>12 DEF PollDetails, PageOK
  <2>2. CallsOK'  BY <1>3, <1>12, <2>1 DEF PollDetails
  <2> QED  BY <1>12, <2>2 DEF PollDetails, TypeOK, CallsOK
<1>13. ASSUME NEW q \in Slot, NEW t \in Task, ViewTaskDetails(q, t) PROVE TypeOK'
  <2>1. CallsOK'  BY <1>3, <1>13 DEF ViewTaskDetails
  <2> QED  BY <1>13, <2>1 DEF ViewTaskDetails, TypeOK, CallsOK
<1>14. ASSUME NEW q \in Slot, NEW t \in Task, CancelTask(q, t) PROVE TypeOK'
  <2>1. GoodCall(NewCall("patch", t, selectedTask # None /\ selectedTask.id = t))
    BY NewCallIsGood DEF Kind
  <2>2. CallsOK'  BY <1>0, <1>14, <2>1, PutCall DEF CancelTask
  <2> QED  BY <1>14, <2>2 DEF CancelTask, TypeOK, CallsOK
<1>15. ASSUME ToggleAutoRefresh \/ CloseDetails PROVE TypeOK'
  BY <1>15 DEF ToggleAutoRefresh, CloseDetails, TypeOK
<1>16. ASSUME UNCHANGED vars PROVE TypeOK'
  BY <1>16 DEF vars, TypeOK
<1> QED
  BY <1>4, <1>5, <1>6, <1>7, <1>8, <1>9, <1>10, <1>11, <1>12, <1>13,
     <1>14, <1>15, <1>16
  DEF Next, Handle

(* The page and its calls keep their types; an answer about a task is      *)
(* about the task that was asked for.                                      *)
THEOREM DashboardTypes == Spec => []TypeOK
<1>1. Init => TypeOK
  <2> SUFFICES ASSUME Init PROVE TypeOK  OBVIOUS
  <2>1. GoodCall(NoCall)  BY NewCallIsGood DEF NoCall
  <2>2. CallsOK  BY <2>1 DEF Init, CallsOK, GoodCall
  <2>3. revision \in [Task -> Revision]
    BY DashboardAssumption DEF Init, Revision
  <2>4. PageOK  BY NoData DEF Init, PageOK
  <2> QED  BY <2>2, <2>3, <2>4 DEF TypeOK, CallsOK, PageOK
<1> QED  BY <1>1, TypeNext, PTL DEF Spec

-----------------------------------------------------------------------------
(* The dialog.                                                             *)

LEMMA NotBlankNext == TypeOK /\ NeverBlank /\ [Next]_vars => NeverBlank'
<1> SUFFICES ASSUME TypeOK, NeverBlank, [Next]_vars PROVE NeverBlank'  OBVIOUS
<1> USE DEF detail, NeverBlank
<1>1. ASSUME NEW q \in Slot, call[q].kind \in {"view", "poll"}, Succeeded(q), Select(q)
      PROVE  selectedTask' # None
  <2>1. selectedTask' \in [id : Task, revision : Nat]
    BY <1>1, SelectTypes, DashboardAssumption DEF Revision
  <2> QED  BY <2>1, DashboardAssumption
<1>2. ASSUME NEW q \in Slot, DetailsLoaded(q) PROVE NeverBlank'
  <2>1. CASE Succeeded(q)
    BY <1>1, <1>2, <2>1 DEF DetailsLoaded, Answered
  <2>2. CASE ~Succeeded(q)  BY <1>2, <2>2 DEF DetailsLoaded
  <2> QED  BY <2>1, <2>2
<1>3. ASSUME NEW q \in Slot, DetailsPolled(q) PROVE NeverBlank'
  <2>1. CASE Succeeded(q)
    BY <1>1, <1>3, <2>1 DEF DetailsPolled, Answered
  <2>2. CASE ~Succeeded(q)  BY <1>3, <2>2 DEF DetailsPolled
  <2> QED  BY <2>1, <2>2
<1>4. ASSUME NEW q \in Slot, NEW t \in Task, ViewTaskDetails(q, t)
      PROVE  NeverBlank'
  BY <1>4 DEF ViewTaskDetails
<1>5. ASSUME CloseDetails PROVE NeverBlank'
  BY <1>5 DEF CloseDetails
<1>6. ASSUME UNCHANGED detail PROVE NeverBlank'
  BY <1>6
<1> QED
  BY <1>2, <1>3, <1>4, <1>5, <1>6
  DEF Next, Handle, vars, TaskChanges, Serve, Fail, TasksLoaded, TaskCanceled,
      LoadTasks, PollDetails, CancelTask, ToggleAutoRefresh

(* The dialog is never open with neither a spinner nor a task in it, in    *)
(* whatever order the answers for this and for earlier dialogs come.       *)
THEOREM NotBlank == Spec => []NeverBlank
<1>1. Init => NeverBlank  BY DEF Init, NeverBlank
<1> QED  BY <1>1, NotBlankNext, DashboardTypes, PTL DEF Spec
=============================================================================
