--------------------------- MODULE AdmissionProofs ---------------------------
(***************************************************************************)
(* Theorems about Admission, for any number of requests, keys and rows.    *)
(***************************************************************************)
EXTENDS Admission, TaskStoreProofs

-----------------------------------------------------------------------------
(* Who writes the table.                                                   *)

Writes(t, row) == table' = [table EXCEPT ![t] = row]

(* The engine answers no request, and requests hold no copy of a row.      *)
LEMMA TwoSides ==
  /\ \A s \in Scan : EngineStep(s) => UNCHANGED <<now, requests>>
  /\ [Next]_vars => UNCHANGED engine \/ \E s \in Scan : EngineStep(s)
<1>1. ASSUME NEW s \in Scan, EngineStep(s) PROVE UNCHANGED <<now, requests>>
  BY <1>1 DEF EngineStep, Claim, FindStuck, ReadClaimed, SettleSuccess,
              SettleFailure, ScanFails
<1>2. [Next]_vars => UNCHANGED engine \/ \E s \in Scan : EngineStep(s)
  BY DEF Next, vars, Tick, Submit, FindByIdempotencyKey, Insert, SubmissionFails,
         RequestCancel, ReadForCancel, CancelPendingTask, RereadTask,
         CancellationFails
<1> QED  BY <1>1, <1>2

(* An insert that does not clash, two conditional updates, and two updates *)
(* by id.                                                                  *)
EngineWrites(s, t) ==
  /\ Stored(t)
  /\ \/ Claim(s, t) /\ Writes(t, ClaimSet(table[t], now))
     \/ /\ hand[s].id = t
        /\ SettleSuccess(s) /\ Writes(t, SucceededRow(t, table[t], now))
     \/ /\ hand[s].id = t /\ SettleFailure(s)
        /\ Writes(t, FailedRow(t, table[t], hand[s].attempt, now))

LEMMA TableWriters ==
  ASSUME TypeOK, [Next]_vars
  PROVE  \/ UNCHANGED <<table, contested>>
         \/ \E t \in Task :
              \/ /\ UNCHANGED engine
                 /\ Insert(t) /\ ~Clashes(t) /\ Writes(t, CreatedRow(t, now))
              \/ /\ UNCHANGED engine
                 /\ Stored(t)
                 /\ CancelWhere(table[t]) /\ Writes(t, CancelSet(table[t]))
              \/ \E s \in Scan : EngineWrites(s, t)
<1>1. ASSUME NEW c \in Cancellation, CancelPendingTask(c)
      PROVE  /\ UNCHANGED engine
             /\ \/ table' = table
                \/ /\ target[c] \in Task /\ Stored(target[c])
                   /\ CancelWhere(table[target[c]])
                   /\ Writes(target[c], CancelSet(table[target[c]]))
  BY <1>1 DEF CancelPendingTask, TypeOK, Writes
<1>2. ASSUME NEW t \in Task, Insert(t), table' # table
      PROVE  UNCHANGED engine /\ ~Clashes(t) /\ Writes(t, CreatedRow(t, now))
  BY <1>2 DEF Insert, Writes
<1>3. ASSUME NEW s \in Scan, NEW t \in Task, Claim(s, t)
      PROVE  EngineWrites(s, t)
  BY <1>3 DEF Claim, Writes, EngineWrites
<1>4. ASSUME NEW s \in Scan, SettleSuccess(s) \/ SettleFailure(s)
      PROVE  \E t \in Task : EngineWrites(s, t)
  <2>1. hand[s].id \in Task /\ Stored(hand[s].id)
    BY <1>4 DEF SettleSuccess, SettleFailure, TypeOK
  <2>2. EngineWrites(s, hand[s].id)
    BY <1>4, <2>1 DEF SettleSuccess, SettleFailure, EngineWrites, Writes
  <2> QED  BY <2>1, <2>2
<1>5. ASSUME NEW s \in Scan, EngineStep(s)
      PROVE  \/ UNCHANGED <<table, contested>>
             \/ \E t \in Task : EngineWrites(s, t)
  BY <1>3, <1>4, <1>5 DEF EngineStep, FindStuck, ReadClaimed, ScanFails
<1>6. \/ UNCHANGED <<table, engine>>
      \/ \E t \in Task : Insert(t)
      \/ \E s \in Scan : EngineStep(s)
      \/ \E c \in Cancellation : CancelPendingTask(c)
  BY DEF Next, vars, Tick, Submit, FindByIdempotencyKey, SubmissionFails,
         RequestCancel, ReadForCancel, RereadTask, CancellationFails
<1>7. ASSUME NEW t \in Task, Insert(t) PROVE UNCHANGED engine
  BY <1>7 DEF Insert
<1> QED  BY <1>1, <1>2, <1>5, <1>6, <1>7 DEF engine

(* Rows stay rows: none is deleted, and none loses its type. *)
LEMMA RowsStay ==
  ASSUME TypeOK, [Next]_vars
  PROVE  /\ table' \in [Task -> TaskRow \cup {NoRow}]
         /\ \A t \in Task : Stored(t) => Stored(t)'
<1>1. ASSUME NEW t \in Task, NEW row \in TaskRow, Writes(t, row)
      PROVE  /\ table' \in [Task -> TaskRow \cup {NoRow}]
             /\ \A u \in Task : Stored(u) => Stored(u)'
  BY <1>1, AdmissionAssumption DEF Writes, TypeOK, Stored
<1>2. now \in Nat /\ \A t \in Task : Stored(t) => table[t] \in TaskRow
  BY DEF TypeOK, Stored
<1>3. \A t \in Task : CreatedRow(t, now) \in TaskRow
  BY <1>2, CreatedRowType
<1>4. ASSUME NEW t \in Task, Stored(t), NEW s \in Scan
      PROVE  /\ ClaimSet(table[t], now) \in TaskRow
             /\ SucceededRow(t, table[t], now) \in TaskRow
             /\ FailedRow(t, table[t], hand[s].attempt, now) \in TaskRow
  <2>1. hand[s].attempt \in Nat  BY DEF TypeOK, Hand
  <2> QED  BY <1>2, <1>4, <2>1, RowTypes
<1>5. ASSUME NEW t \in Task, Stored(t) PROVE CancelSet(table[t]) \in TaskRow
  <2>1. table[t].attemptCount \in Nat  BY <1>2, <1>5 DEF TaskRow
  <2> QED  BY <1>2, <1>5, <2>1, RowTypes
<1>6. CASE table' = table  BY <1>6 DEF TypeOK, Stored
<1> QED  BY <1>1, <1>3, <1>4, <1>5, <1>6, TableWriters DEF EngineWrites

-----------------------------------------------------------------------------
(* Types.                                                                  *)

SubmissionOK == /\ sub \in [Task -> {"new", "lookup", "insert", "done"}]
                /\ answer \in [Task -> Answer]

CancellationOK ==
  /\ can \in [Cancellation -> {"new", "read", "update", "reread", "done"}]
  /\ target \in [Cancellation -> Task \cup {NoTask}]
  /\ \A c \in Cancellation : can[c] \notin {"new", "done"} => target[c] \in Task
  /\ verdict \in [Cancellation -> {"none", "notFound", "badRequest", "conflict",
                                   "error"} \cup Status]

Found ==
  \A c \in Cancellation : can[c] \in {"update", "reread"} => Stored(target[c])

LEMMA SubmissionStep ==
  ASSUME TypeOK, [Next]_vars
  PROVE  SubmissionOK'
<1>0. SubmissionOK  BY DEF TypeOK, SubmissionOK
<1>1. ASSUME NEW r \in Task, NEW code \in {"ok", "badRequest", "conflict", "error"},
             NEW id \in Task \cup {NoTask}, Respond(r, code, id)
      PROVE  SubmissionOK'
  <2>1. [code |-> code, id |-> id] \in Answer  BY DEF Answer
  <2> QED  BY <1>0, <1>1, <2>1 DEF Respond, SubmissionOK
<1>2. ASSUME NEW r \in Task, NEW label \in {"lookup", "insert"}, Proceed(r, label)
      PROVE  SubmissionOK'
  BY <1>0, <1>2 DEF Proceed, SubmissionOK
<1>3. ASSUME NEW r \in Task, Submit(r) \/ FindByIdempotencyKey(r)
      PROVE  SubmissionOK'
  BY <1>1, <1>2, <1>3 DEF Submit, FindByIdempotencyKey, Holders
<1>4. ASSUME NEW r \in Task, Insert(r) \/ SubmissionFails(r)
      PROVE  SubmissionOK'
  BY <1>1, <1>4 DEF Insert, SubmissionFails
<1>5. ASSUME UNCHANGED <<sub, answer>> PROVE SubmissionOK'
  BY <1>0, <1>5 DEF SubmissionOK
<1> QED
  BY <1>3, <1>4, <1>5, TwoSides
  DEF Next, vars, requests, Tick, RequestCancel, ReadForCancel, CancelPendingTask,
      RereadTask, CancellationFails

LEMMA CancellationStep ==
  ASSUME TypeOK, [Next]_vars
  PROVE  CancellationOK' /\ Found'
<1>0. CancellationOK /\ Found  BY DEF TypeOK, CancellationOK, Found
<1>1. \A t \in Task : Stored(t) => Stored(t)'  BY RowsStay
<1>2. ASSUME NEW c \in Cancellation, RequestCancel(c)
      PROVE  CancellationOK' /\ Found'
  <2>1. PICK t \in Task : target' = [target EXCEPT ![c] = t]
    BY <1>2 DEF RequestCancel
  <2>2. CancellationOK'
    BY <1>0, <1>2, <2>1 DEF RequestCancel, Continue, CancellationOK
  <2>3. Found'
    BY <1>0, <1>2, <2>1 DEF RequestCancel, Continue, CancellationOK, Found, Stored
  <2> QED  BY <2>2, <2>3
<1>3. ASSUME NEW c \in Cancellation, NEW code, Conclude(c, code),
             code \in {"notFound", "badRequest", "conflict", "error"} \cup Status,
             target' = target
      PROVE  CancellationOK' /\ Found'
  <2>1. CancellationOK'  BY <1>0, <1>3 DEF Conclude, CancellationOK
  <2>2. Found'
    BY <1>0, <1>1, <1>3 DEF Conclude, CancellationOK, Found
  <2> QED  BY <2>1, <2>2
<1>4. ASSUME NEW c \in Cancellation, NEW label \in {"update", "reread"},
             Continue(c, label), target' = target, Stored(target[c]),
             can[c] \in {"read", "update"}
      PROVE  CancellationOK' /\ Found'
  <2>1. CancellationOK'  BY <1>0, <1>4 DEF Continue, CancellationOK
  <2>2. Found'
    BY <1>0, <1>1, <1>4 DEF Continue, CancellationOK, Found
  <2> QED  BY <2>1, <2>2
<1>5. ASSUME NEW c \in Cancellation, ReadForCancel(c) \/ CancellationFails(c)
      PROVE  CancellationOK' /\ Found'
  BY <1>3, <1>4, <1>5 DEF ReadForCancel, CancellationFails
<1>6. ASSUME NEW c \in Cancellation, CancelPendingTask(c)
      PROVE  CancellationOK' /\ Found'
  <2>1. Stored(target[c])  BY <1>0, <1>6 DEF CancelPendingTask, Found
  <2> QED  BY <1>3, <1>4, <1>6, <2>1 DEF CancelPendingTask
<1>7. ASSUME NEW c \in Cancellation, RereadTask(c)
      PROVE  CancellationOK' /\ Found'
  <2>1. Stored(target[c]) /\ target[c] \in Task
    BY <1>0, <1>7 DEF RereadTask, Found, CancellationOK
  <2>2. table[target[c]].status \in Status
    BY <2>1 DEF TypeOK, Stored, TaskRow
  <2> QED  BY <1>3, <1>7, <2>2 DEF RereadTask
<1>8. ASSUME UNCHANGED <<can, target, verdict>>
      PROVE  CancellationOK' /\ Found'
  BY <1>0, <1>1, <1>8 DEF CancellationOK, Found
<1> QED
  BY <1>2, <1>5, <1>6, <1>7, <1>8, TwoSides
  DEF Next, vars, requests, Tick, Submit, FindByIdempotencyKey, Insert,
      SubmissionFails

EngineOK == /\ hand \in [Scan -> Hand]
            /\ contested \subseteq Task

(* What a scan works on is a row. *)
Held == \A s \in Scan : hand[s].step # "none" =>
                        hand[s].id \in Task /\ Stored(hand[s].id)

LEMMA EngineTypes ==
  ASSUME TypeOK, [Next]_vars
  PROVE  EngineOK' /\ Held'
<1>0. EngineOK /\ Held  BY DEF TypeOK, EngineOK, Held
<1>1. \A t \in Task : Stored(t) => Stored(t)'  BY RowsStay
<1>2. ASSUME NEW s \in Scan, NEW t \in Task, Stored(t), NEW attempt \in Nat,
             NEW step \in {"claimed", "running", "failed", "stuck"},
             Takes(s, t, attempt, step)
      PROVE  hand' \in [Scan -> Hand] /\ Held'
  <2>1. [id |-> t, attempt |-> attempt, step |-> step] \in Hand  BY DEF Hand
  <2>2. hand' \in [Scan -> Hand]  BY <1>0, <1>2, <2>1 DEF Takes, EngineOK
  <2>3. \A r \in Scan : hand'[r] = IF r = s
                          THEN [id |-> t, attempt |-> attempt, step |-> step]
                          ELSE hand[r]
    BY <1>0, <1>2 DEF Takes, EngineOK
  <2>4. Held'  BY <1>0, <1>1, <1>2, <2>3 DEF Held
  <2> QED  BY <2>2, <2>4
<1>3. ASSUME NEW s \in Scan, Release(s)
      PROVE  hand' \in [Scan -> Hand] /\ Held'
  <2>1. NoHand \in Hand /\ NoHand.step = "none"  BY DEF Hand, NoHand
  <2>2. hand' \in [Scan -> Hand]  BY <1>0, <1>3, <2>1 DEF Release, EngineOK
  <2>3. \A r \in Scan : hand'[r] = IF r = s THEN NoHand ELSE hand[r]
    BY <1>0, <1>3 DEF Release, EngineOK
  <2>4. Held'  BY <1>0, <1>1, <2>1, <2>3 DEF Held
  <2> QED  BY <2>2, <2>4
<1>4. ASSUME UNCHANGED hand PROVE hand' \in [Scan -> Hand] /\ Held'
  BY <1>0, <1>1, <1>4 DEF EngineOK, Held
<1>5. ASSUME NEW s \in Scan, NEW t \in Task, Claim(s, t) \/ FindStuck(s, t)
      PROVE  hand' \in [Scan -> Hand] /\ Held' /\ contested' = contested
  <2>1. Stored(t) => table[t].attemptCount \in Nat
    BY DEF TypeOK, Stored, TaskRow
  <2> QED  BY <1>2, <1>4, <1>5, <2>1 DEF Claim, FindStuck, EngineOK
<1>6. ASSUME NEW s \in Scan, ReadClaimed(s) \/ SettleSuccess(s)
      PROVE  EngineOK' /\ Held'
  <2>1. hand[s].id \in Task /\ Stored(hand[s].id) /\ hand[s].attempt \in Nat
    BY <1>0, <1>6 DEF ReadClaimed, SettleSuccess, Held, EngineOK, Hand
  <2>2. table[hand[s].id].attemptCount \in Nat
    BY <2>1 DEF TypeOK, Stored, TaskRow
  <2>3. hand' \in [Scan -> Hand] /\ Held'
    BY <1>2, <1>3, <1>6, <2>1, <2>2 DEF ReadClaimed, SettleSuccess
  <2> QED  BY <1>0, <1>6, <2>1, <2>3 DEF ReadClaimed, SettleSuccess, EngineOK
<1>7. ASSUME NEW s \in Scan, SettleFailure(s) \/ ScanFails(s)
      PROVE  EngineOK' /\ Held'
  <2>1. SettleFailure(s) => hand[s].id \in Task
    BY <1>0 DEF SettleFailure, Held
  <2> QED  BY <1>0, <1>3, <1>7, <2>1 DEF SettleFailure, ScanFails, EngineOK
<1> QED
  BY <1>0, <1>4, <1>5, <1>6, <1>7, TwoSides DEF EngineStep, EngineOK, engine

LEMMA TypeNext == TypeOK /\ [Next]_vars => TypeOK'
<1> SUFFICES ASSUME TypeOK, [Next]_vars PROVE TypeOK'  OBVIOUS
<1>1. now' \in Nat
  BY TwoSides
  DEF TypeOK, Next, vars, Tick, Submit, FindByIdempotencyKey, Insert,
      SubmissionFails, RequestCancel, ReadForCancel, CancelPendingTask,
      RereadTask, CancellationFails
<1> QED
  BY <1>1, RowsStay, SubmissionStep, CancellationStep, EngineTypes
  DEF TypeOK, SubmissionOK, CancellationOK, Found, EngineOK, Held

LEMMA AdmissionInitTypes == Init => TypeOK
BY DEF Init, TypeOK, Answer, NoAnswer, Hand, NoHand

(* All variables keep their types, and a cancellation past its first read  *)
(* names a row that exists, for any number of requests.                    *)
THEOREM AdmissionTypes == Spec => []TypeOK
BY AdmissionInitTypes, TypeNext, PTL DEF Spec

-----------------------------------------------------------------------------
(* Keys.                                                                   *)

(* The unique index. *)
UniqueKey ==
  \A t, u \in Task :
     Stored(t) /\ Stored(u) /\ KeyOf[t] = KeyOf[u] /\ KeyOf[t] # NoKey => t = u

(* A submission has no row before its handler inserts it, and no answer    *)
(* before its handler is done.                                             *)
Unanswered ==
  \A r \in Task : sub[r] # "done" => ~Stored(r) /\ answer[r].code = "none"

(* A client that is given a task is given one that carries its key. *)
Granted ==
  \A r \in Task : answer[r].code = "ok" =>
     /\ answer[r].id \in Task
     /\ Stored(answer[r].id)
     /\ KeyOf[answer[r].id] = KeyOf[r]

KeyInv == UniqueKey /\ Unanswered /\ Granted /\ RefusalLeavesNoRow

(* Only Insert makes a row. *)
LEMMA NewRow ==
  ASSUME TypeOK, [Next]_vars, NEW t \in Task, ~Stored(t), Stored(t)'
  PROVE  Insert(t) /\ ~Clashes(t) /\ Writes(t, CreatedRow(t, now))
<1>1. \A u \in Task : \A row : Writes(u, row) => u = t
  BY DEF Writes, Stored, TypeOK
<1>2. table' # table  BY DEF Stored
<1> QED  BY <1>1, <1>2, TableWriters DEF EngineWrites

LEMMA InsertedAlone ==
  ASSUME TypeOK, NEW t \in Task, NEW row, Writes(t, row), NEW u \in Task, u # t
  PROVE  Stored(u)' = Stored(u)
BY DEF Writes, Stored, TypeOK

LEMMA UniqueKeyNext ==
  ASSUME TypeOK, UniqueKey, [Next]_vars
  PROVE  UniqueKey'
<1> SUFFICES ASSUME NEW t \in Task, NEW u \in Task, Stored(t)', Stored(u)',
                    KeyOf[t] = KeyOf[u], KeyOf[t] # NoKey, t # u
             PROVE  FALSE
  BY DEF UniqueKey
<1>1. ASSUME NEW a \in Task, NEW b \in Task, a # b, KeyOf[a] = KeyOf[b],
             KeyOf[a] # NoKey, ~Stored(a), Stored(a)', Stored(b)'
      PROVE  FALSE
  <2>1. ~Clashes(a) /\ Writes(a, CreatedRow(a, now))  BY <1>1, NewRow
  <2>2. Stored(b)  BY <1>1, <2>1, InsertedAlone
  <2> QED  BY <1>1, <2>1, <2>2 DEF Clashes, Holders
<1> QED  BY <1>1 DEF UniqueKey

(* What a handler answers. *)
LEMMA Answers ==
  ASSUME TypeOK, [Next]_vars, NEW r \in Task,
         sub'[r] # sub[r] \/ answer'[r] # answer[r]
  PROVE  /\ sub[r] # "done"
         /\ \/ sub'[r] # "done" /\ ~Insert(r) /\ answer'[r] = answer[r]
            \/ /\ sub'[r] = "done"
               /\ \/ /\ answer'[r].code = "ok"
                     /\ \/ answer'[r].id \in Holders(KeyOf[r])
                        \/ Stored(r)' /\ answer'[r].id = r
                  \/ answer'[r].code = "badRequest" /\ ~Insert(r)
                  \/ /\ answer'[r].code = "conflict"
                     /\ Holders(KeyOf[r]) # {} /\ table' = table
                  \/ answer'[r].code = "error"
<1>1. ASSUME NEW q \in Task, NEW code, NEW id, Respond(q, code, id)
      PROVE  /\ q = r /\ sub'[r] = "done"
             /\ answer'[r].code = code /\ answer'[r].id = id
  <2>1. q = r  BY <1>1 DEF Respond, TypeOK
  <2> QED  BY <1>1, <2>1 DEF Respond, TypeOK
<1>2. ASSUME NEW q \in Task, NEW label, Proceed(q, label)
      PROVE  q = r /\ sub'[r] = label /\ answer'[r] = answer[r]
  BY <1>2 DEF Proceed, TypeOK
<1>3. ASSUME NEW q \in Task, Submit(q)
      PROVE  /\ q = r /\ sub[r] = "new"
             /\ \/ sub'[r] # "done" /\ answer'[r] = answer[r]
                \/ sub'[r] = "done" /\ answer'[r].code = "badRequest"
  BY <1>1, <1>2, <1>3 DEF Submit
<1>4. ASSUME NEW q \in Task, FindByIdempotencyKey(q)
      PROVE  /\ q = r /\ sub[r] = "lookup"
             /\ \/ sub'[r] # "done" /\ answer'[r] = answer[r]
                \/ /\ sub'[r] = "done" /\ answer'[r].code = "ok"
                   /\ answer'[r].id \in Holders(KeyOf[r])
  <2>1. sub[q] = "lookup"  BY <1>4 DEF FindByIdempotencyKey
  <2>2. CASE Proceed(q, "insert")  BY <1>2, <2>1, <2>2
  <2>3. ASSUME NEW t \in Holders(KeyOf[q]), Respond(q, "ok", t)
        PROVE  /\ q = r /\ sub'[r] = "done" /\ answer'[r].code = "ok"
               /\ answer'[r].id \in Holders(KeyOf[r])
    BY <1>1, <2>3
  <2> QED  BY <1>4, <2>1, <2>2, <2>3, <1>2 DEF FindByIdempotencyKey
<1>5. ASSUME NEW q \in Task, Insert(q)
      PROVE  /\ q = r /\ sub[r] = "insert" /\ sub'[r] = "done"
             /\ \/ /\ answer'[r].code = "conflict"
                   /\ Holders(KeyOf[r]) # {} /\ table' = table
                \/ answer'[r].code = "ok" /\ answer'[r].id = r /\ Stored(r)'
                \/ answer'[r].code = "error"
  <2>1. now \in Nat  BY DEF TypeOK
  <2>2. CreatedRow(q, now) # NoRow
    BY <2>1, CreatedRowType, AdmissionAssumption
  <2>3. ~Clashes(q) => Stored(q)'
    BY <1>5, <2>2 DEF Insert, Stored, TypeOK
  <2>4. Clashes(q) => Respond(q, "conflict", NoTask) /\ table' = table
    BY <1>5 DEF Insert
  <2>5. ~Clashes(q) => Respond(q, "ok", q) \/ Respond(q, "error", NoTask)
    BY <1>5 DEF Insert
  <2>6. Clashes(q) => Holders(KeyOf[q]) # {}  BY DEF Clashes
  <2>7. sub[q] = "insert"  BY <1>5 DEF Insert
  <2> QED  BY <1>1, <2>3, <2>4, <2>5, <2>6, <2>7
<1>6. ASSUME NEW q \in Task, SubmissionFails(q)
      PROVE  /\ q = r /\ sub[r] # "done"
             /\ sub'[r] = "done" /\ answer'[r].code = "error"
  BY <1>1, <1>6 DEF SubmissionFails
<1>7. ~UNCHANGED <<sub, answer>>  OBVIOUS
<1>8. sub[r] # "insert" => ~Insert(r)  BY DEF Insert
<1> QED
  BY <1>3, <1>4, <1>5, <1>6, <1>7, <1>8, TwoSides
  DEF Next, vars, requests, Tick, RequestCancel, ReadForCancel, CancelPendingTask,
      RereadTask, CancellationFails

LEMMA KeyInvNext == TypeOK /\ KeyInv /\ [Next]_vars => KeyInv'
<1> SUFFICES ASSUME TypeOK, KeyInv, [Next]_vars PROVE KeyInv'  OBVIOUS
<1>0. UniqueKey /\ Unanswered /\ Granted /\ RefusalLeavesNoRow  BY DEF KeyInv
<1>1. UniqueKey'  BY <1>0, UniqueKeyNext
<1>2. ASSUME NEW r \in Task
      PROVE  /\ Stored(r) => Stored(r)'
             /\ Insert(r) => sub[r] = "insert" /\ sub'[r] = "done"
             /\ Stored(r)' /\ ~Stored(r) => Insert(r)
  <2>1. Insert(r) => sub[r] = "insert" /\ sub'[r] = "done"
    BY DEF Insert, Respond, TypeOK
  <2> QED  BY <2>1, RowsStay, NewRow
<1>3. ASSUME NEW r \in Task, sub'[r] # "done"
      PROVE  ~Stored(r)' /\ answer'[r].code = "none"
  <2>1. sub[r] # "done" /\ answer'[r] = answer[r]  BY <1>3, Answers
  <2>2. ~Insert(r)  BY <1>2, <1>3
  <2> QED  BY <1>0, <1>2, <2>1, <2>2 DEF Unanswered
<1>4. ASSUME NEW r \in Task, answer'[r].code = "ok"
      PROVE  /\ answer'[r].id \in Task
             /\ Stored(answer[r].id)'
             /\ KeyOf[answer'[r].id] = KeyOf[r]
  <2>1. CASE answer'[r] = answer[r]  BY <1>0, <1>2, <1>4, <2>1 DEF Granted
  <2>2. CASE answer'[r] # answer[r]
    <3>1. \/ answer'[r].id \in Holders(KeyOf[r])
          \/ Stored(r)' /\ answer'[r].id = r
      BY <1>4, <2>2, Answers
    <3>2. CASE answer'[r].id \in Holders(KeyOf[r])
      <4>1. PICK h \in Task : h = answer'[r].id /\ Stored(h) /\ KeyOf[h] = KeyOf[r]
        BY <3>2 DEF Holders
      <4> QED  BY <1>2, <4>1
    <3>3. CASE Stored(r)' /\ answer'[r].id = r  BY <3>3
    <3> QED  BY <3>1, <3>2, <3>3
  <2> QED  BY <2>1, <2>2
<1>5. ASSUME NEW r \in Task, answer'[r].code \in {"badRequest", "conflict"}
      PROVE  ~Stored(r)'
  <2>1. CASE answer'[r] = answer[r]
    <3>1. ~Stored(r) /\ sub[r] = "done"
      BY <1>0, <1>5, <2>1 DEF RefusalLeavesNoRow, Unanswered
    <3> QED  BY <1>2, <3>1
  <2>2. CASE answer'[r] # answer[r]
    <3>1. /\ sub[r] # "done"
          /\ ~Insert(r) \/ table' = table
      BY <1>5, <2>2, Answers
    <3>2. ~Stored(r)  BY <1>0, <3>1 DEF Unanswered
    <3>3. table' = table => Stored(r)' = Stored(r)  BY DEF Stored
    <3> QED  BY <1>2, <3>1, <3>2, <3>3
  <2> QED  BY <2>1, <2>2
<1>6. ASSUME NEW r \in Task, answer'[r].code = "conflict"
      PROVE  Holders(KeyOf[r])' \ {r} # {}
  <2>1. ASSUME NEW h \in Holders(KeyOf[r]), h # r
        PROVE  Holders(KeyOf[r])' \ {r} # {}
    BY <1>2, <2>1 DEF Holders
  <2>2. CASE answer'[r] = answer[r]
    BY <1>0, <1>6, <2>1, <2>2 DEF RefusalLeavesNoRow
  <2>3. CASE answer'[r] # answer[r]
    <3>1. Holders(KeyOf[r]) # {} /\ sub[r] # "done"
      BY <1>6, <2>3, Answers
    <3>2. r \notin Holders(KeyOf[r])
      BY <1>0, <3>1 DEF Unanswered, Holders
    <3> QED  BY <2>1, <3>1, <3>2
  <2> QED  BY <2>2, <2>3
<1> QED
  BY <1>1, <1>3, <1>4, <1>5, <1>6
  DEF KeyInv, Unanswered, Granted, RefusalLeavesNoRow

LEMMA KeyInvInit == Init => KeyInv
BY DEF Init, KeyInv, UniqueKey, Unanswered, Granted, RefusalLeavesNoRow, Stored,
       NoAnswer

(* All clients that were given a task for one key were given the same one, *)
(* however many requests overlap and whichever answers are lost.           *)
THEOREM OneTaskPerKey == Spec => []KeyNamesOneTask
<1>1. TypeOK /\ KeyInv => KeyNamesOneTask
  BY DEF KeyInv, UniqueKey, Granted, KeyNamesOneTask
<1> QED  BY <1>1, KeyInvInit, KeyInvNext, AdmissionTypes, PTL DEF Spec

(* What was refused left no row, and a conflict has another row to blame.  *)
THEOREM RefusalsHonest == Spec => []RefusalLeavesNoRow
<1>1. KeyInv => RefusalLeavesNoRow  BY DEF KeyInv
<1> QED  BY <1>1, KeyInvInit, KeyInvNext, AdmissionTypes, PTL DEF Spec

-----------------------------------------------------------------------------
(* The engine.                                                             *)

(* Who writes a row that is there. *)
LEMMA RowWriters ==
  ASSUME TypeOK, Unanswered, [Next]_vars, NEW t \in Task, Stored(t),
         table'[t] # table[t]
  PROVE  \/ /\ UNCHANGED engine
            /\ CancelWhere(table[t]) /\ Writes(t, CancelSet(table[t]))
         \/ \E s \in Scan : EngineWrites(s, t)
<1>1. ASSUME NEW u \in Task, NEW row, Writes(u, row)
      PROVE  u = t
  BY <1>1 DEF Writes, TypeOK
<1>2. ~Insert(t)  BY DEF Insert, Unanswered
<1>3. ASSUME NEW s \in Scan, NEW u \in Task, EngineWrites(s, u) PROVE u = t
  BY <1>1, <1>3 DEF EngineWrites
<1> QED  BY <1>1, <1>2, <1>3, TableWriters

(* As long as a task is not contested, the scan that claimed it has it for *)
(* itself, and its copy of attemptCount is the row's.                      *)
HandInv ==
  \A t \in Task \ contested : \A s \in Scan : Owns(s, t) =>
     /\ table[t].status = "RUNNING"
     /\ hand[s].step # "failed"
     /\ hand[s].step = "running" => hand[s].attempt = table[t].attemptCount
     /\ \A r \in Scan : Owns(r, t) => r = s

LEMMA ContestedGrows == TypeOK /\ [Next]_vars => contested \subseteq contested'
BY TwoSides
DEF engine, EngineStep, Claim, FindStuck, ReadClaimed, SettleSuccess,
    SettleFailure, ScanFails

(* How a scan comes to own a task, and what it keeps as an owner. *)
LEMMA Owners ==
  ASSUME TypeOK, [Next]_vars, NEW t \in Task, NEW s \in Scan, Owns(s, t)'
  PROVE  \/ Owns(s, t) /\ hand'[s] = hand[s]
         \/ Claim(s, t) /\ hand'[s].step = "claimed"
         \/ /\ Owns(s, t) /\ ReadClaimed(s)
            /\ hand'[s].step = "running"
            /\ hand'[s].attempt = table[t].attemptCount
         \/ t \in contested'
<1>0. hand \in [Scan -> Hand]  BY DEF TypeOK
<1>1. ASSUME NEW r \in Scan, NEW u, NEW attempt, NEW step, Takes(r, u, attempt, step)
      PROVE  IF r = s THEN /\ u = t /\ hand'[s].step = step
                           /\ hand'[s].attempt = attempt
                           /\ step # "stuck"
                      ELSE Owns(s, t) /\ hand'[s] = hand[s]
  BY <1>0, <1>1 DEF Takes, Owns
<1>2. ASSUME NEW r \in Scan, Release(r)
      PROVE  Owns(s, t) /\ hand'[s] = hand[s]
  BY <1>0, <1>2 DEF Release, Owns, NoHand
<1>3. ASSUME UNCHANGED hand PROVE Owns(s, t) /\ hand'[s] = hand[s]
  BY <1>3 DEF Owns
<1>4. ASSUME NEW r \in Scan, NEW u \in Task, Claim(r, u) \/ FindStuck(r, u)
      PROVE  \/ Owns(s, t) /\ hand'[s] = hand[s]
             \/ Claim(s, t) /\ hand'[s].step = "claimed"
  BY <1>1, <1>3, <1>4 DEF Claim, FindStuck
<1>5. ASSUME NEW r \in Scan, ReadClaimed(r)
      PROVE  \/ Owns(s, t) /\ hand'[s] = hand[s]
             \/ /\ Owns(s, t) /\ ReadClaimed(s) /\ hand'[s].step = "running"
                /\ hand'[s].attempt = table[t].attemptCount
  BY <1>1, <1>5 DEF ReadClaimed, Owns
<1>6. ASSUME NEW r \in Scan, SettleSuccess(r)
      PROVE  (Owns(s, t) /\ hand'[s] = hand[s]) \/ t \in contested'
  BY <1>1, <1>2, <1>6 DEF SettleSuccess
<1>7. ASSUME NEW r \in Scan, SettleFailure(r) \/ ScanFails(r)
      PROVE  Owns(s, t) /\ hand'[s] = hand[s]
  BY <1>2, <1>7 DEF SettleFailure, ScanFails
<1> QED
  BY <1>3, <1>4, <1>5, <1>6, <1>7, TwoSides DEF EngineStep, engine

(* A write leaves nobody who owns an uncontested task, but the claimant.   *)
LEMMA WritersAlone ==
  ASSUME TypeOK, Unanswered, HandInv, [Next]_vars, NEW t \in Task \ contested',
         NEW s \in Scan, Owns(s, t), Owns(s, t)'
  PROVE  table'[t] = table[t]
<1>1. t \in Task \ contested  BY ContestedGrows
<1>2. table[t].status = "RUNNING" /\ \A r \in Scan : Owns(r, t) => r = s
  BY <1>1 DEF HandInv
<1>3. Stored(t)  BY DEF TypeOK, Owns
<1>4. ASSUME NEW r \in Scan, hand[r].id = t, SettleSuccess(r) \/ SettleFailure(r)
      PROVE  FALSE
  <2>1. Release(r)
    BY <1>4 DEF SettleSuccess, SettleFailure
  <2>2. ~Owns(r, t)'  BY <2>1 DEF Release, Owns, NoHand, TypeOK
  <2>3. ~Owns(r, t)  BY <1>2, <2>2
  <2>4. SettleFailure(r) /\ hand[r].step = "stuck"
    BY <1>4, <2>3 DEF SettleSuccess, SettleFailure, Owns
  <2> QED  BY <1>4, <2>4 DEF SettleFailure, Abandoned
<1>5. ~CancelWhere(table[t]) /\ ~ClaimWhere(t, table[t], now)
  BY <1>2 DEF CancelWhere, ClaimWhere
<1> QED  BY <1>3, <1>4, <1>5, RowWriters DEF EngineWrites, Claim

LEMMA HandInvNext == TypeOK /\ Unanswered /\ HandInv /\ [Next]_vars => HandInv'
<1> SUFFICES ASSUME TypeOK, Unanswered, HandInv, [Next]_vars,
                    NEW t \in Task \ contested', NEW s \in Scan, Owns(s, t)'
             PROVE  /\ table'[t].status = "RUNNING"
                    /\ hand'[s].step # "failed"
                    /\ hand'[s].step = "running" =>
                          hand'[s].attempt = table'[t].attemptCount
                    /\ \A r \in Scan : Owns(r, t)' => r = s
  BY DEF HandInv, Owns
<1>1. t \in Task \ contested  BY ContestedGrows
<1>2. CASE Claim(s, t) /\ hand'[s].step = "claimed"
  <2>1. \A r \in Scan : ~Owns(r, t)
    BY <1>1, <1>2 DEF HandInv, Claim, ClaimWhere
  <2>2. \A r \in Scan : r # s => hand'[r] = hand[r]
    BY <1>2 DEF Claim, Takes, TypeOK
  <2>3. table[t] \in TaskRow  BY <1>2 DEF Claim, Stored, TypeOK
  <2>4. table'[t].status = "RUNNING"
    BY <1>2, <2>3 DEF Claim, ClaimSet, TaskRow, TypeOK
  <2> QED  BY <1>2, <2>1, <2>2, <2>4 DEF Owns
<1>3. CASE Owns(s, t)
  <2>1. table'[t] = table[t]  BY <1>3, WritersAlone
  <2>2. /\ table[t].status = "RUNNING"
        /\ hand[s].step # "failed"
        /\ hand[s].step = "running" => hand[s].attempt = table[t].attemptCount
        /\ \A r \in Scan : Owns(r, t) => r = s
    BY <1>1, <1>3 DEF HandInv
  <2>3. \A r \in Scan : Owns(r, t)' => Owns(r, t)
    BY <2>2, Owners DEF Claim, ClaimWhere
  <2>4. \/ hand'[s] = hand[s]
        \/ hand'[s].step = "running" /\ hand'[s].attempt = table[t].attemptCount
    BY <2>2, Owners DEF Claim, ClaimWhere
  <2> QED  BY <2>1, <2>2, <2>3, <2>4
<1> QED  BY <1>2, <1>3, Owners

-----------------------------------------------------------------------------
(* Cancellations.                                                          *)

(* What a settlement finds in an uncontested row. *)
LEMMA SettledInTime ==
  ASSUME TypeOK, HandInv, [Next]_vars, NEW t \in Task \ contested',
         NEW s \in Scan, hand[s].id = t, SettleSuccess(s) \/ SettleFailure(s)
  PROVE  /\ table[t].status = "RUNNING"
         /\ UNCHANGED contested
         /\ SettleFailure(s) => hand[s].attempt = table[t].attemptCount
<1>1. t \in Task \ contested  BY ContestedGrows
<1>2. CASE hand[s].step \in {"running", "failed"}
  <2>1. Owns(s, t)  BY <1>2 DEF Owns
  <2>2. /\ table[t].status = "RUNNING" /\ hand[s].step # "failed"
        /\ hand[s].step = "running" => hand[s].attempt = table[t].attemptCount
    BY <1>1, <2>1 DEF HandInv
  <2> QED  BY <1>2, <2>2 DEF SettleSuccess, SettleFailure
<1>3. CASE hand[s].step = "stuck"
  <2>1. SettleFailure(s)  BY <1>3 DEF SettleSuccess
  <2>2. Abandoned(t, hand[s].attempt)  BY <1>3, <2>1 DEF SettleFailure
  <2> QED  BY <1>3, <2>1, <2>2 DEF SettleFailure, Abandoned, SettleSuccess
<1> QED  BY <1>2, <1>3 DEF SettleSuccess, SettleFailure

SafeCanceled(t) == /\ t \in Task /\ Stored(t)
                   /\ t \in contested \/ table[t].status = "CANCELED"

LEMMA SafeCanceledStays ==
  ASSUME TypeOK, Unanswered, HandInv, [Next]_vars, NEW t \in Task, SafeCanceled(t)
  PROVE  SafeCanceled(t)'
<1>1. Stored(t)' /\ contested \subseteq contested'
  BY RowsStay, ContestedGrows DEF SafeCanceled
<1>2. CASE t \in contested'  BY <1>1, <1>2 DEF SafeCanceled
<1>3. CASE t \notin contested'
  <2>1. Stored(t) /\ table[t].status = "CANCELED"  BY <1>1, <1>3 DEF SafeCanceled
  <2>2. ~CancelWhere(table[t]) /\ ~ClaimWhere(t, table[t], now)
    BY <2>1 DEF CancelWhere, ClaimWhere
  <2>3. ASSUME NEW s \in Scan, EngineWrites(s, t) PROVE FALSE
    <3>1. ~Claim(s, t)  BY <2>2 DEF Claim
    <3>2. hand[s].id = t /\ (SettleSuccess(s) \/ SettleFailure(s))
      BY <2>3, <3>1 DEF EngineWrites
    <3> QED  BY <1>3, <2>1, <3>2, SettledInTime
  <2>4. table'[t] = table[t]  BY <2>1, <2>2, <2>3, RowWriters
  <2> QED  BY <1>1, <2>1, <2>4 DEF SafeCanceled
<1> QED  BY <1>2, <1>3

(* A task at work, or done with, has been started, and its row says when.  *)
Ran ==
  \A t \in Task : Stored(t) =>
     \/ table[t].lastRunAt # NoTime
     \/ /\ table[t].status \notin {"RUNNING", "SUCCESS", "FAILED"}
        /\ \A s \in Scan : hand[s].step # "none" => hand[s].id # t

(* No statement takes back that a task was started. *)
LEMMA StartKept ==
  ASSUME TypeOK, [Next]_vars, NEW t \in Task, NEW s \in Scan,
         Stored(t), EngineWrites(s, t)
  PROVE  IF Claim(s, t) THEN table'[t].lastRunAt = now /\ now # NoTime
                        ELSE table'[t].lastRunAt = table[t].lastRunAt
<1>1. table[t] \in TaskRow /\ now \in Nat /\ now # NoTime
  BY NoTimeAssumption DEF TypeOK, Stored
<1>2. ASSUME NEW row, Writes(t, row) PROVE table'[t] = row
  BY <1>2 DEF Writes, TypeOK
<1>3. ClaimSet(table[t], now).lastRunAt = now
  BY <1>1 DEF ClaimSet, TaskRow
<1>4. ASSUME NEW n
      PROVE  /\ RetryingSet(table[t], n).lastRunAt = table[t].lastRunAt
             /\ RescheduleSet(table[t], n).lastRunAt = table[t].lastRunAt
             /\ SuccessSet(table[t]).lastRunAt = table[t].lastRunAt
             /\ FailedSet(table[t]).lastRunAt = table[t].lastRunAt
  BY <1>1 DEF RetryingSet, RescheduleSet, SuccessSet, FailedSet, TaskRow
<1>5. /\ SucceededRow(t, table[t], now).lastRunAt = table[t].lastRunAt
      /\ FailedRow(t, table[t], hand[s].attempt, now).lastRunAt = table[t].lastRunAt
  BY <1>4 DEF SucceededRow, FailedRow
<1>6. Claim(s, t) => table'[t] = ClaimSet(table[t], now)
  BY DEF Claim, TypeOK
<1> QED  BY <1>1, <1>2, <1>3, <1>5, <1>6 DEF EngineWrites

LEMMA RanNext == TypeOK /\ Unanswered /\ Ran /\ [Next]_vars => Ran'
<1> SUFFICES ASSUME TypeOK, Unanswered, Ran, [Next]_vars, NEW t \in Task, Stored(t)'
             PROVE  \/ table'[t].lastRunAt # NoTime
                    \/ /\ table'[t].status \notin {"RUNNING", "SUCCESS", "FAILED"}
                       /\ \A s \in Scan : hand'[s].step # "none" => hand'[s].id # t
  BY DEF Ran
<1>1. ASSUME NEW s \in Scan, hand'[s].step # "none", hand'[s].id = t
      PROVE  \/ hand[s].step # "none" /\ hand[s].id = t
             \/ Claim(s, t)
             \/ Stored(t) /\ table[t].status = "RUNNING"
  <2>1. ASSUME NEW r \in Scan, NEW u, NEW attempt, NEW step, Takes(r, u, attempt, step)
        PROVE  IF r = s THEN u = t ELSE hand'[s] = hand[s]
    BY <1>1, <2>1 DEF Takes, TypeOK
  <2>2. ASSUME NEW r \in Scan, Release(r) PROVE hand'[s] = hand[s]
    BY <1>1, <2>2 DEF Release, NoHand, TypeOK
  <2>3. ASSUME NEW r \in Scan, NEW u \in Task, Claim(r, u) \/ FindStuck(r, u)
        PROVE  \/ hand'[s] = hand[s]
               \/ Claim(s, t)
               \/ Stored(t) /\ table[t].status = "RUNNING"
    BY <2>1, <2>3 DEF Claim, FindStuck, StuckWhere
  <2>4. ASSUME NEW r \in Scan, ReadClaimed(r) \/ SettleSuccess(r)
        PROVE  \/ hand'[s] = hand[s]
               \/ hand[s].step # "none" /\ hand[s].id = t
    BY <2>1, <2>2, <2>4 DEF ReadClaimed, SettleSuccess
  <2>5. ASSUME NEW r \in Scan, SettleFailure(r) \/ ScanFails(r)
        PROVE  hand'[s] = hand[s]
    BY <2>2, <2>5 DEF SettleFailure, ScanFails
  <2> QED  BY <1>1, <2>3, <2>4, <2>5, TwoSides DEF EngineStep, engine
<1>2. CASE ~Stored(t)
  <2>1. Insert(t) /\ Writes(t, CreatedRow(t, now))  BY <1>2, NewRow
  <2>2. table'[t].status = "PENDING"
    BY <2>1 DEF Writes, TypeOK, CreatedRow
  <2>3. UNCHANGED engine /\ \A s \in Scan : hand[s].step # "none" => hand[s].id # t
    BY <1>2, <2>1 DEF Insert, TypeOK
  <2> QED  BY <2>2, <2>3 DEF engine
<1>3. CASE Stored(t) /\ table[t].lastRunAt # NoTime
  <2>1. table[t] \in TaskRow  BY <1>3 DEF TypeOK, Stored
  <2>2. CancelSet(table[t]).lastRunAt = table[t].lastRunAt
    BY <2>1 DEF CancelSet, TaskRow
  <2>3. Writes(t, CancelSet(table[t])) => table'[t] = CancelSet(table[t])
    BY DEF Writes, TypeOK
  <2> QED  BY <1>3, <2>2, <2>3, RowWriters, StartKept
<1>4. CASE /\ Stored(t)
           /\ table[t].status \notin {"RUNNING", "SUCCESS", "FAILED"}
           /\ \A s \in Scan : hand[s].step # "none" => hand[s].id # t
  <2>1. ASSUME NEW s \in Scan, EngineWrites(s, t)
        PROVE  Claim(s, t)
    BY <1>4, <2>1 DEF EngineWrites, SettleSuccess, SettleFailure
  <2>2. ASSUME NEW s \in Scan, Claim(s, t)
        PROVE  table'[t].lastRunAt # NoTime
    BY <1>4, <2>2, StartKept DEF EngineWrites, Claim, Writes
  <2>3. table[t] \in TaskRow  BY <1>4 DEF TypeOK, Stored
  <2>4. Writes(t, CancelSet(table[t])) => table'[t].status = "CANCELED"
    BY <2>3 DEF Writes, TypeOK, CancelSet, TaskRow
  <2> QED  BY <1>1, <1>4, <2>1, <2>2, <2>4, RowWriters
<1> QED  BY <1>2, <1>3, <1>4 DEF Ran

(* Too late to cancel. *)
TooLate(t) ==
  /\ t \in Task /\ Stored(t)
  /\ table[t].lastRunAt # NoTime \/ table[t].status = "CANCELED"

LEMMA TooLateStays ==
  ASSUME TypeOK, Unanswered, Ran, [Next]_vars, NEW t \in Task, TooLate(t)
  PROVE  TooLate(t)'
<1>1. Stored(t) /\ Stored(t)'  BY RowsStay DEF TooLate
<1>2. table[t] \in TaskRow  BY <1>1 DEF TypeOK, Stored
<1>3. Writes(t, CancelSet(table[t])) => table'[t].status = "CANCELED"
  BY <1>2 DEF Writes, TypeOK, CancelSet, TaskRow
<1>4. ASSUME NEW s \in Scan, EngineWrites(s, t)
      PROVE  table'[t].lastRunAt # NoTime
  <2>1. CASE Claim(s, t)  BY <1>1, <1>4, <2>1, StartKept
  <2>2. CASE ~Claim(s, t)
    <3>1. hand[s].step # "none" /\ hand[s].id = t
      BY <1>4, <2>2 DEF EngineWrites, SettleSuccess, SettleFailure
    <3>2. table[t].lastRunAt # NoTime  BY <1>1, <3>1 DEF Ran
    <3> QED  BY <1>1, <1>4, <2>2, <3>2, StartKept
  <2> QED  BY <2>1, <2>2
<1> QED  BY <1>1, <1>3, <1>4, RowWriters DEF TooLate

(* What a handler knows of its task, until it is done and afterwards. *)
CancelInv ==
  \A c \in Cancellation :
     /\ can[c] # "done" => verdict[c] = "none"
     /\ can[c] = "reread" => SafeCanceled(target[c])
     /\ verdict[c] \in Status =>
           /\ SafeCanceled(target[c])
           /\ target[c] \in contested \/ verdict[c] = "CANCELED"
     /\ verdict[c] \in {"badRequest", "conflict"} => TooLate(target[c])

LEMMA CancelInvNext ==
  TypeOK /\ Unanswered /\ HandInv /\ Ran /\ CancelInv /\ [Next]_vars => CancelInv'
<1> SUFFICES ASSUME TypeOK, Unanswered, HandInv, Ran, CancelInv, [Next]_vars
             PROVE  CancelInv'
  OBVIOUS
<1> DEFINE Kept(c) == /\ can'[c] = can[c]
                      /\ verdict'[c] = verdict[c]
                      /\ target'[c] = target[c]
           Good(c) == /\ can'[c] # "done" => verdict'[c] = "none"
                      /\ can'[c] = "reread" => SafeCanceled(target[c])'
                      /\ verdict'[c] \in Status =>
                           /\ SafeCanceled(target[c])'
                           /\ target'[c] \in contested' \/ verdict'[c] = "CANCELED"
                      /\ verdict'[c] \in {"badRequest", "conflict"} =>
                           TooLate(target[c])'
<1>0. "none" \notin Status /\ "notFound" \notin Status
      /\ "badRequest" \notin Status /\ "conflict" \notin Status
      /\ "error" \notin Status
  BY DEF Status
<1>1. ASSUME NEW c \in Cancellation, target'[c] = target[c]
      PROVE  /\ SafeCanceled(target[c]) => SafeCanceled(target[c])'
             /\ TooLate(target[c]) => TooLate(target[c])'
  <2>1. SafeCanceled(target[c]) \/ TooLate(target[c]) => target[c] \in Task
    BY DEF SafeCanceled, TooLate
  <2>2. ASSUME SafeCanceled(target[c]) PROVE SafeCanceled(target[c])'
    <3> DEFINE t == target[c]
    <3>1. t \in Task /\ SafeCanceled(t) /\ target'[c] = t  BY <1>1, <2>1, <2>2
    <3> HIDE DEF t
    <3>2. SafeCanceled(t)' /\ t' = t
      BY <1>1, <3>1, SafeCanceledStays DEF t
    <3> QED  BY <3>2 DEF SafeCanceled, Stored, t
  <2>3. ASSUME TooLate(target[c]) PROVE TooLate(target[c])'
    <3> DEFINE t == target[c]
    <3>1. t \in Task /\ TooLate(t) /\ target'[c] = t  BY <1>1, <2>1, <2>3
    <3> HIDE DEF t
    <3>2. TooLate(t)' /\ t' = t
      BY <1>1, <3>1, TooLateStays DEF t
    <3> QED  BY <3>2 DEF TooLate, Stored, t
  <2> QED  BY <2>2, <2>3
<1>2. ASSUME NEW c \in Cancellation, Kept(c)
      PROVE  Good(c)
  BY <1>1, <1>2, ContestedGrows DEF CancelInv
<1>3. ASSUME NEW c \in Cancellation, NEW d \in Cancellation, c # d,
             \E code : Conclude(d, code) \/ Continue(d, code),
             target' = target
      PROVE  Kept(c)
  BY <1>3 DEF Conclude, Continue, TypeOK
<1>4. ASSUME NEW c \in Cancellation, NEW code, Conclude(c, code), target' = target
      PROVE  can'[c] = "done" /\ verdict'[c] = code
  BY <1>4 DEF Conclude, TypeOK
<1>5. ASSUME NEW c \in Cancellation, NEW label, Continue(c, label)
      PROVE  can'[c] = label /\ verdict'[c] = verdict[c]
  BY <1>5 DEF Continue, TypeOK
<1>6. ASSUME NEW c \in Cancellation, RequestCancel(c), NEW d \in Cancellation
      PROVE  Good(d)
  <2>1. CASE d = c
    BY <1>0, <1>5, <1>6, <2>1 DEF RequestCancel, CancelInv
  <2>2. CASE d # c
    <3>1. Kept(d)  BY <1>6, <2>2 DEF RequestCancel, Continue, TypeOK
    <3> QED  BY <1>2, <3>1
  <2> QED  BY <2>1, <2>2
<1>7. ASSUME NEW c \in Cancellation, can[c] \in {"read", "update"},
             target[c] \in Task, Stored(target[c]), ~CancelWhere(table[target[c]])
      PROVE  TooLate(target[c])
  <2>1. table[target[c]].status \in Status
    BY <1>7 DEF TypeOK, Stored, TaskRow
  <2>2. table[target[c]].status \in {"RUNNING", "SUCCESS", "FAILED", "CANCELED"}
    BY <1>7, <2>1 DEF CancelWhere, Status
  <2> QED  BY <1>7, <2>2 DEF Ran, TooLate
<1>8. ASSUME NEW c \in Cancellation, ReadForCancel(c) \/ CancellationFails(c),
             NEW d \in Cancellation
      PROVE  Good(d)
  <2>1. /\ target' = target /\ can[c] # "done"
        /\ \/ \E code \in {"notFound", "error"} : Conclude(c, code)
           \/ TooLate(target[c]) /\ Conclude(c, "badRequest")
           \/ Continue(c, "update")
    <3>1. CASE CancellationFails(c)  BY <3>1 DEF CancellationFails
    <3>2. CASE ReadForCancel(c)
      <4>1. target[c] \in Task  BY <3>2 DEF ReadForCancel, TypeOK
      <4> QED  BY <1>7, <3>2, <4>1 DEF ReadForCancel
    <3> QED  BY <1>8, <3>1, <3>2
  <2>2. CASE d # c
    <3>1. Kept(d)  BY <1>3, <2>1, <2>2
    <3> QED  BY <1>2, <3>1
  <2>3. CASE d = c
    <3>1. target'[c] = target[c] /\ verdict[c] = "none"
      BY <2>1 DEF CancelInv
    <3> QED  BY <1>0, <1>1, <1>4, <1>5, <2>1, <2>3, <3>1
  <2> QED  BY <2>2, <2>3
<1>9. ASSUME NEW c \in Cancellation, CancelPendingTask(c), NEW d \in Cancellation
      PROVE  Good(d)
  <2>1. target[c] \in Task /\ Stored(target[c])
    BY <1>9 DEF CancelPendingTask, TypeOK
  <2>2. /\ target' = target /\ can[c] = "update"
        /\ \/ Conclude(c, "error")
           \/ TooLate(target[c]) /\ Conclude(c, "conflict")
           \/ /\ Continue(c, "reread")
              /\ table' = [table EXCEPT ![target[c]] = CancelSet(@)]
    BY <1>7, <1>9, <2>1 DEF CancelPendingTask
  <2>3. CASE d # c
    <3>1. Kept(d)  BY <1>3, <2>2, <2>3
    <3> QED  BY <1>2, <3>1
  <2>4. CASE d = c /\ ~Continue(c, "reread")
    <3>1. target'[c] = target[c]  BY <2>2
    <3> QED  BY <1>0, <1>1, <1>4, <2>2, <2>4, <3>1
  <2>5. CASE /\ d = c /\ Continue(c, "reread")
             /\ table' = [table EXCEPT ![target[c]] = CancelSet(@)]
    <3>2. table[target[c]] \in TaskRow  BY <2>1 DEF TypeOK, Stored
    <3>3. CancelSet(table[target[c]]) \in TaskRow
          /\ CancelSet(table[target[c]]).status = "CANCELED"
      BY <3>2 DEF CancelSet, TaskRow, Status
    <3>4. table'[target[c]] = CancelSet(table[target[c]])
      BY <2>1, <2>5 DEF TypeOK
    <3>5. SafeCanceled(target[c])'
      BY <2>1, <2>2, <3>3, <3>4, AdmissionAssumption DEF SafeCanceled, Stored
    <3>6. can'[c] = "reread" /\ verdict'[c] = "none"
      BY <1>5, <2>2, <2>5 DEF CancelInv
    <3> QED  BY <1>0, <2>5, <3>5, <3>6
  <2>6. Continue(c, "reread") => ~Conclude(c, "error") /\ ~Conclude(c, "conflict")
    BY <1>4, <1>5, <2>2 DEF Continue, Conclude, TypeOK
  <2> QED  BY <2>2, <2>3, <2>4, <2>5, <2>6
<1>10. ASSUME NEW c \in Cancellation, RereadTask(c), NEW d \in Cancellation
      PROVE  Good(d)
  <2>1. /\ target' = target /\ SafeCanceled(target[c])
        /\ Conclude(c, table[target[c]].status)
    BY <1>10 DEF RereadTask, CancelInv
  <2>2. CASE d # c
    <3>1. Kept(d)  BY <1>3, <2>1, <2>2
    <3> QED  BY <1>2, <3>1
  <2>3. CASE d = c
    <3>1. can'[c] = "done" /\ verdict'[c] = table[target[c]].status
      BY <1>4, <2>1
    <3>2. target'[c] = target[c] /\ SafeCanceled(target[c])'  BY <1>1, <2>1
    <3>3. target'[c] \in contested' \/ verdict'[c] = "CANCELED"
      BY <2>1, <3>1, <3>2, ContestedGrows DEF SafeCanceled
    <3>4. verdict'[c] \in Status
      BY <2>1, <3>1 DEF SafeCanceled, Stored, TypeOK, TaskRow
    <3> QED  BY <1>0, <2>3, <3>1, <3>2, <3>3, <3>4
  <2> QED  BY <2>2, <2>3
<1>11. ASSUME UNCHANGED <<can, target, verdict>>, NEW d \in Cancellation
       PROVE  Good(d)
  <2>1. Kept(d)  BY <1>11
  <2> QED  BY <1>2, <2>1
<1>12. \A d \in Cancellation : Good(d)
  <2> HIDE DEF Good
  <2> QED
    BY <1>6, <1>8, <1>9, <1>10, <1>11, TwoSides
    DEF Next, vars, requests, Tick, Submit, FindByIdempotencyKey, Insert,
        SubmissionFails
<1> QED  BY <1>12 DEF CancelInv

(* What the steps of all actors keep, and every theorem below rests on.    *)
AdmissionInv == TypeOK /\ KeyInv /\ HandInv /\ Ran /\ CancelInv

LEMMA AdmissionInvariant == Spec => []AdmissionInv
<1>1. Init => HandInv  BY DEF Init, HandInv, Owns, NoHand
<1>2. Init => Ran /\ CancelInv
  BY DEF Init, Ran, CancelInv, Stored, Status
<1>3. AdmissionInv /\ [Next]_vars => AdmissionInv'
  BY TypeNext, KeyInvNext, HandInvNext, RanNext, CancelInvNext
  DEF AdmissionInv, KeyInv
<1>4. Init => AdmissionInv
  BY <1>1, <1>2, AdmissionInitTypes, KeyInvInit DEF AdmissionInv
<1> QED  BY <1>3, <1>4, PTL DEF Spec

(* Whoever is told that a task is canceled is told the truth, for as long  *)
(* as nobody contests the task, and a cancellation that is refused comes   *)
(* after the task was started or canceled.                                 *)
THEOREM CancellationsHonest == Spec => []CancelIsHonest
<1>1. AdmissionInv => CancelIsHonest
  BY DEF AdmissionInv, CancelInv, CancelIsHonest, SafeCanceled, TooLate
<1> QED  BY <1>1, AdmissionInvariant, PTL

-----------------------------------------------------------------------------
(* The life of a task.                                                     *)

Unpaused == \A t \in Task : Stored(t) => table[t].status # "PAUSED"

(* A row that is written, as module Lifecycle sees it. *)
LEMMA RowWritten ==
  ASSUME TypeOK, NEW t \in Task, NEW row \in TaskRow, Writes(t, row)
  PROVE  /\ UNCHANGED contested => L!Becomes(t, row.status, row.attemptCount)
         /\ contested' = contested \cup {t} => L!Contest(t)
         /\ row.status # "PAUSED" /\ Unpaused => Unpaused'
<1>1. \A u \in Task : table'[u] = IF u = t THEN row ELSE table[u]
  BY DEF Writes, TypeOK
<1>2. row # NoRow  BY AdmissionAssumption
<1>3. \A u \in Task :
         /\ StatusOf(u)' = IF u = t THEN row.status ELSE StatusOf(u)
         /\ AttemptsOf(u)' = IF u = t THEN row.attemptCount ELSE AttemptsOf(u)
  BY <1>1, <1>2 DEF StatusOf, AttemptsOf, Stored
<1>4. UNCHANGED contested => L!Becomes(t, row.status, row.attemptCount)
  BY <1>3 DEF L!Becomes
<1>5. contested' = contested \cup {t} => L!Contest(t)  BY <1>3 DEF L!Contest
<1>6. row.status # "PAUSED" /\ Unpaused => Unpaused'
  BY <1>1, <1>2 DEF Unpaused, Stored
<1> QED  BY <1>4, <1>5, <1>6

(* No statement of the engine pauses a task. *)
LEMMA NonePauses ==
  ASSUME NEW t \in Task, NEW r \in TaskRow, r.status # "PAUSED",
         NEW n \in Nat, NEW attempt \in Nat
  PROVE  /\ SucceededRow(t, r, n).status # "PAUSED"
         /\ FailedRow(t, r, attempt, n).status # "PAUSED"
<1>1. \A m : /\ RetryingSet(r, m).status = "RETRYING"
             /\ RescheduleSet(r, m).status = "PENDING"
  BY DEF RetryingSet, RescheduleSet, TaskRow
<1>2. SuccessSet(r).status = "SUCCESS" /\ FailedSet(r).status = "FAILED"
  BY DEF SuccessSet, FailedSet, TaskRow
<1> QED  BY <1>1, <1>2 DEF SucceededRow, FailedRow

(* A row that a request or a scan writes in time takes a step of its life. *)
LEMMA TimelyWrites ==
  ASSUME TypeOK, Unpaused, UNCHANGED contested, NEW t \in Task, Stored(t),
         \/ CancelWhere(table[t]) /\ Writes(t, CancelSet(table[t]))
         \/ /\ ClaimWhere(t, table[t], now)
            /\ Writes(t, ClaimSet(table[t], now))
         \/ /\ table[t].status = "RUNNING"
            /\ \/ Writes(t, SucceededRow(t, table[t], now))
               \/ Writes(t, FailedRow(t, table[t], table[t].attemptCount, now))
  PROVE  L!Next /\ Unpaused'
<1>0. now \in Nat  BY DEF TypeOK
<1> DEFINE r == table[t]
<1>1. r \in TaskRow /\ r.attemptCount \in Nat /\ r.status # "PAUSED"
  BY DEF TypeOK, Stored, Unpaused, TaskRow
<1>2. /\ CancelSet(r) \in TaskRow /\ ClaimSet(r, now) \in TaskRow
      /\ SucceededRow(t, r, now) \in TaskRow
      /\ FailedRow(t, r, r.attemptCount, now) \in TaskRow
  BY <1>0, <1>1, RowTypes
<1>3. StatusOf(t) = r.status /\ AttemptsOf(t) = r.attemptCount
  BY DEF StatusOf, AttemptsOf
<1> HIDE DEF r
<1>4. CASE CancelWhere(r) /\ Writes(t, CancelSet(r))
  <2>1. L!Becomes(t, "CANCELED", r.attemptCount) /\ Unpaused'
    BY <1>0, <1>1, <1>2, <1>4, RowWritten, RowEffects
  <2>2. r.status \in {"PENDING", "RETRYING"}  BY <1>1, <1>4 DEF CancelWhere
  <2>3. L!Cancel(t)  BY <1>3, <2>1, <2>2 DEF L!Cancel
  <2> QED  BY <2>1, <2>3 DEF L!Next
<1>5. CASE ClaimWhere(t, r, now) /\ Writes(t, ClaimSet(r, now))
  <2>1. L!Becomes(t, "RUNNING", r.attemptCount + 1) /\ Unpaused'
    BY <1>0, <1>1, <1>2, <1>5, RowWritten, RowEffects
  <2>2. r.status \in {"PENDING", "RETRYING"}  BY <1>5 DEF ClaimWhere
  <2>3. L!Claim(t)  BY <1>3, <2>1, <2>2 DEF L!Claim
  <2> QED  BY <2>1, <2>3 DEF L!Next
<1>6. CASE r.status = "RUNNING" /\ Writes(t, SucceededRow(t, r, now))
  <2>1. /\ IF ScheduleKind(t) = "CRON" THEN L!Becomes(t, "PENDING", 0)
                                       ELSE L!Becomes(t, "SUCCESS", r.attemptCount)
        /\ Unpaused'
    BY <1>0, <1>1, <1>2, <1>6, RowWritten, RowEffects
  <2>2. L!Succeed(t)  BY <1>3, <1>6, <2>1 DEF L!Succeed
  <2> QED  BY <2>1, <2>2 DEF L!Next
<1>7. CASE r.status = "RUNNING" /\ Writes(t, FailedRow(t, r, r.attemptCount, now))
  <2>1. /\ IF r.attemptCount <= MaxRetries[t]
           THEN L!Becomes(t, "RETRYING", r.attemptCount)
           ELSE IF ScheduleKind(t) = "CRON"
           THEN L!Becomes(t, "PENDING", 0)
           ELSE L!Becomes(t, "FAILED", r.attemptCount)
        /\ Unpaused'
    BY <1>0, <1>1, <1>2, <1>7, RowWritten, RowEffects
  <2>2. L!Fail(t)  BY <1>3, <1>7, <2>1 DEF L!Fail
  <2> QED  BY <2>1, <2>2 DEF L!Next
<1> QED  BY <1>4, <1>5, <1>6, <1>7 DEF r

LEMMA RowLife ==
  ASSUME TypeOK, Unanswered, HandInv, Unpaused, [Next]_vars
  PROVE  [L!Next]_(L!vars) /\ Unpaused'
<1>0. now \in Nat  BY DEF TypeOK
<1>1. CASE UNCHANGED <<table, contested>>
  BY <1>1 DEF L!vars, StatusOf, AttemptsOf, Stored, Unpaused
<1>2. ASSUME NEW t \in Task, Insert(t), Writes(t, CreatedRow(t, now)),
             UNCHANGED contested
      PROVE  UNCHANGED L!vars /\ Unpaused'
  <2>1. ~Stored(t)  BY <1>2 DEF Insert, Unanswered
  <2>2. CreatedRow(t, now) \in TaskRow  BY <1>0, CreatedRowType
  <2>3. /\ CreatedRow(t, now).status = "PENDING"
        /\ CreatedRow(t, now).attemptCount = 0
    BY DEF CreatedRow
  <2>4. \A u \in Task : table'[u] = IF u = t THEN CreatedRow(t, now) ELSE table[u]
    BY <1>2 DEF Writes, TypeOK
  <2>5. \A u \in Task : StatusOf(u)' = StatusOf(u) /\ AttemptsOf(u)' = AttemptsOf(u)
    BY <2>1, <2>3, <2>4 DEF StatusOf, AttemptsOf, Stored
  <2>6. UNCHANGED L!vars  BY <1>2, <2>5 DEF L!vars
  <2> QED  BY <1>2, <2>2, <2>3, <2>6, RowWritten
<1>3. ASSUME NEW t \in Task, NEW s \in Scan, EngineWrites(s, t)
      PROVE  L!Next /\ Unpaused'
  <2>1. /\ Stored(t) /\ table[t] \in TaskRow /\ table[t].status # "PAUSED"
        /\ hand[s].attempt \in Nat
    BY <1>3 DEF EngineWrites, TypeOK, Hand, Stored, Unpaused
  <2>2. CASE Claim(s, t)
    BY <1>3, <2>1, <2>2, TimelyWrites DEF Claim, EngineWrites, Writes
  <2>3. CASE ~Claim(s, t) /\ t \notin contested'
    <3>1. hand[s].id = t /\ (SettleSuccess(s) \/ SettleFailure(s))
      BY <1>3, <2>3 DEF EngineWrites
    <3>2. /\ table[t].status = "RUNNING" /\ UNCHANGED contested
          /\ SettleFailure(s) => hand[s].attempt = table[t].attemptCount
      BY <2>3, <3>1, SettledInTime
    <3>3. \/ Writes(t, SucceededRow(t, table[t], now))
          \/ Writes(t, FailedRow(t, table[t], table[t].attemptCount, now))
      BY <1>3, <2>3, <3>2 DEF EngineWrites
    <3> QED  BY <2>1, <3>2, <3>3, TimelyWrites
  <2>4. CASE ~Claim(s, t) /\ t \in contested'
    <3>1. /\ SucceededRow(t, table[t], now) \in TaskRow
          /\ FailedRow(t, table[t], hand[s].attempt, now) \in TaskRow
      BY <1>0, <2>1, RowTypes
    <3>2. PICK row \in TaskRow : Writes(t, row) /\ row.status # "PAUSED"
      BY <1>0, <1>3, <2>1, <2>4, <3>1, NonePauses DEF EngineWrites
    <3>3. contested' = contested \cup {t}
      BY <1>3, <2>4 DEF EngineWrites, SettleSuccess, SettleFailure
    <3>4. L!Contest(t) /\ Unpaused'  BY <3>2, <3>3, RowWritten
    <3> QED  BY <3>4 DEF L!Next
  <2> QED  BY <2>2, <2>3, <2>4
<1> QED  BY <1>1, <1>2, <1>3, TableWriters, TimelyWrites DEF engine

(* However requests and the engine interleave, the table shows the life of *)
(* each task as module Lifecycle describes it, up to the moment the task   *)
(* is contested: before that, no write by id is made with a stale copy.    *)
THEOREM AdmissionImplementsLifecycle == Spec => ImplementsLifecycle
<1>1. Init => L!Init /\ Unpaused
  BY DEF Init, L!Init, Unpaused, StatusOf, AttemptsOf, Stored
<1>2. AdmissionInv /\ Unpaused /\ [Next]_vars => [L!Next]_(L!vars) /\ Unpaused'
  BY RowLife DEF AdmissionInv, KeyInv
<1> QED
  BY <1>1, <1>2, AdmissionInvariant, PTL DEF Spec, ImplementsLifecycle, L!Spec

-----------------------------------------------------------------------------
(* What every row has from the life cycle alone.                           *)

Over(t) == StatusOf(t) \in {"SUCCESS", "FAILED", "CANCELED"}

AttemptsBounded ==
  \A t \in Task \ contested :
     /\ AttemptsOf(t) \in 0 .. MaxRetries[t] + 1
     /\ StatusOf(t) = "PENDING" => AttemptsOf(t) = 0
     /\ StatusOf(t) = "RETRYING" => AttemptsOf(t) <= MaxRetries[t]

OverForGood ==
  [][\A t \in Task \ contested' :
       Over(t) => UNCHANGED <<StatusOf(t), AttemptsOf(t)>>]_vars

(* What a step of the life cycle does to the columns of any task. *)
LEMMA LifeSteps ==
  ASSUME [L!Next]_(L!vars), NEW t \in Task, t \notin contested'
  PROVE  /\ t \notin contested
         /\ \/ UNCHANGED <<StatusOf(t), AttemptsOf(t)>>
            \/ /\ StatusOf(t) \in {"PENDING", "RETRYING"}
               /\ \/ StatusOf(t)' = "RUNNING" /\ AttemptsOf(t)' = AttemptsOf(t) + 1
                  \/ StatusOf(t)' = "CANCELED" /\ AttemptsOf(t)' = AttemptsOf(t)
            \/ /\ StatusOf(t) = "RUNNING"
               /\ \/ StatusOf(t)' = "PENDING" /\ AttemptsOf(t)' = 0
                  \/ /\ StatusOf(t)' \in {"SUCCESS", "FAILED"}
                     /\ AttemptsOf(t)' = AttemptsOf(t)
                  \/ /\ StatusOf(t)' = "RETRYING" /\ AttemptsOf(t)' = AttemptsOf(t)
                     /\ AttemptsOf(t) <= MaxRetries[t]
<1>1. CASE UNCHANGED L!vars  BY <1>1 DEF L!vars
<1>2. ASSUME NEW u \in Task, NEW st, NEW n, L!Becomes(u, st, n)
      PROVE  /\ t \notin contested
             /\ IF u = t THEN StatusOf(t)' = st /\ AttemptsOf(t)' = n
                         ELSE UNCHANGED <<StatusOf(t), AttemptsOf(t)>>
  BY <1>2 DEF L!Becomes
<1>3. ASSUME NEW u \in Task, L!Contest(u)
      PROVE  t \notin contested /\ UNCHANGED <<StatusOf(t), AttemptsOf(t)>>
  BY <1>3 DEF L!Contest
<1>4. ASSUME NEW u \in Task,
             L!Claim(u) \/ L!Succeed(u) \/ L!Fail(u) \/ L!Cancel(u)
      PROVE  /\ t \notin contested
             /\ u # t => UNCHANGED <<StatusOf(t), AttemptsOf(t)>>
  BY <1>2, <1>4 DEF L!Claim, L!Succeed, L!Fail, L!Cancel
<1>5. CASE L!Claim(t) \/ L!Cancel(t)
  BY <1>2, <1>5 DEF L!Claim, L!Cancel
<1>6. CASE L!Succeed(t) \/ L!Fail(t)
  BY <1>2, <1>6 DEF L!Succeed, L!Fail
<1> QED  BY <1>1, <1>3, <1>4, <1>5, <1>6 DEF L!Next

(* From the abstract life cycle alone: however requests and the engine     *)
(* interleave, until a task is contested its row counts no more than       *)
(* maxRetries + 1 attempts, and once finished or canceled it keeps status  *)
(* and count: no canceled task is run.                                     *)
THEOREM RowsEndOnce == Spec => []AttemptsBounded /\ OverForGood
<1>1. L!Init => AttemptsBounded
  <2> SUFFICES ASSUME L!Init, NEW t \in Task
               PROVE  StatusOf(t) = "PENDING" /\ AttemptsOf(t) = 0
    BY TaskAssumption DEF AttemptsBounded
  <2> QED  BY DEF L!Init
<1>2. AttemptsBounded /\ [L!Next]_(L!vars) => AttemptsBounded'
  <2> SUFFICES ASSUME AttemptsBounded, [L!Next]_(L!vars),
                      NEW t \in Task, t \notin contested'
               PROVE  /\ AttemptsOf(t)' \in 0 .. MaxRetries[t] + 1
                      /\ StatusOf(t)' = "PENDING" => AttemptsOf(t)' = 0
                      /\ StatusOf(t)' = "RETRYING" => AttemptsOf(t)' <= MaxRetries[t]
    BY DEF AttemptsBounded
  <2>1. t \notin contested  BY LifeSteps
  <2>2. /\ AttemptsOf(t) \in 0 .. MaxRetries[t] + 1
        /\ StatusOf(t) = "PENDING" => AttemptsOf(t) = 0
        /\ StatusOf(t) = "RETRYING" => AttemptsOf(t) <= MaxRetries[t]
        /\ MaxRetries[t] \in Nat
    BY <2>1, TaskAssumption DEF AttemptsBounded
  <2> QED  BY <2>2, LifeSteps
<1>3. [L!Next]_(L!vars) =>
        [\A t \in Task \ contested' :
           Over(t) => UNCHANGED <<StatusOf(t), AttemptsOf(t)>>]_vars
  BY LifeSteps DEF Over
<1> QED
  BY <1>1, <1>2, <1>3, AdmissionImplementsLifecycle, PTL
  DEF ImplementsLifecycle, L!Spec, OverForGood
=============================================================================
