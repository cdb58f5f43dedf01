-------------------------------- MODULE Forms --------------------------------
(***************************************************************************)
(* The two forms of the dashboard (frontend/src/App.tsx) in front of the   *)
(* backend of module Admission: what a user sees who submits, waits,       *)
(* closes, opens again and retries, while answers are late or lost and the *)
(* handler of a request the page has given up goes on.                     *)
(*                                                                         *)
(* A submission of Admission is one click on the submit button; its key    *)
(* and its schedule are those of the form at the click.  A draft is what   *)
(* the user works at from one value of the key field to the next: opening  *)
(* a form, resetFormDefaults, generating and typing a key begin one.       *)
(*                                                                         *)
(* Abstractions.  What the handlers reject by themselves sends nothing and *)
(* is left out, and so is the text of an error.  The clock of the browser  *)
(* is the backend's.  The engine and cancellations change rows but remove  *)
(* none, and no submission looks further: module Admission has them.       *)
(***************************************************************************)
EXTENDS Admission

CONSTANTS
  GeneratedKey, \* what generateIdempotencyKey returns: bound
  TypedKey,     \* what users type
  MaxDraft      \* bound: drafts begun

ASSUME FormsAssumption ==
  /\ {NoKey, EmptyKey} \cap (GeneratedKey \cup TypedKey) = {}
  /\ GeneratedKey \cap TypedKey = {}
  /\ MaxDraft \in Nat

VARIABLES
  form,           \* which form is open: "create", "push" or "none"
  idempotencyKey, \* the key field; NoKey when it is empty
  formSubmitting,
  awaited,        \* the submissions whose answer the page awaits
  origin,         \* [Task -> the form it was submitted from]
  told,           \* [Task -> what the page was told of it]
  draft,          \* history: the number of the draft in the form
  draftOf,        \* history: [Task -> the draft it was submitted with, or 0]
  generated       \* history: the keys generated so far

field == <<idempotencyKey, draft, generated>>
clicks == <<awaited, origin, told, draftOf>>
page == <<form, formSubmitting, field, clicks>>
formsVars == <<vars, page>>

FormsInit ==
  /\ Init
  /\ form = "none" /\ formSubmitting = FALSE
  /\ idempotencyKey = NoKey /\ draft = 0 /\ generated = {}
  /\ awaited = {}
  /\ origin = [r \in Task |-> "none"]
  /\ told = [r \in Task |-> "none"]
  /\ draftOf = [r \in Task |-> 0]

-----------------------------------------------------------------------------
(* The key field.                                                          *)

setIdempotencyKey(k) ==
  /\ draft < MaxDraft
  /\ draft' = draft + 1
  /\ idempotencyKey' = k

(* Math.random does not repeat itself. *)
generateIdempotencyKey ==
  \E k \in GeneratedKey \ generated :
     /\ setIdempotencyKey(k)
     /\ generated' = generated \cup {k}

(* Mutant: an empty field is sent as it is. *)
resetFormDefaultsEmpty == setIdempotencyKey(EmptyKey) /\ UNCHANGED generated

(* Of both forms at once; formSubmitting stays as it is. *)
resetFormDefaults == setIdempotencyKey(NoKey) /\ UNCHANGED generated

(* Mutant: opening a form resets it altogether. *)
OpenFormAnew ==
  /\ form = "none"
  /\ \/ form' = "push" /\ generateIdempotencyKey
     \/ form' = "create" /\ resetFormDefaults
  /\ formSubmitting' = FALSE
  /\ UNCHANGED <<vars, clicks>>

(* The button of the push form resets and generates in one go. *)
OpenForm ==
  /\ form = "none"
  /\ \/ form' = "push" /\ generateIdempotencyKey
     \/ form' = "create" /\ resetFormDefaults
  /\ UNCHANGED <<vars, formSubmitting, clicks>>

(* Another executor type, a generated key, a typed one. *)
EditForm ==
  /\ form # "none"
  /\ \/ resetFormDefaults
     \/ generateIdempotencyKey
     \/ \E k \in TypedKey \cup {NoKey} :
           setIdempotencyKey(k) /\ UNCHANGED generated
  /\ UNCHANGED <<vars, form, formSubmitting, clicks>>

CloseForm ==
  /\ form # "none" /\ form' = "none"
  /\ UNCHANGED <<vars, formSubmitting, field, clicks>>

-----------------------------------------------------------------------------
(* handlePushSubmit and handleCreateSubmit.                                *)

Click(r) ==
  /\ form # "none" /\ ~formSubmitting
  /\ origin[r] = "none"
  /\ ScheduleOk(r)    \* checked by the page too; 5 s from now if not given
  /\ form = "push" => idempotencyKey # NoKey
  /\ formSubmitting' = TRUE
  /\ awaited' = awaited \cup {r}
  /\ origin' = [origin EXCEPT ![r] = form]
  /\ draftOf' = [draftOf EXCEPT ![r] = draft]
  /\ UNCHANGED <<vars, form, told, field>>

(* Mutant: a push takes a key of its own with every click. *)
SubmitFormFresh(r) ==
  /\ Click(r)
  /\ KeyOf[r] = idempotencyKey \/ (form = "push" /\ KeyOf[r] \in GeneratedKey)

SubmitForm(r) == Click(r) /\ KeyOf[r] = idempotencyKey

Told(r, code) ==
  /\ r \in awaited
  /\ awaited' = awaited \ {r}
  /\ told' = [told EXCEPT ![r] = code]
  /\ formSubmitting' = FALSE
  /\ UNCHANGED <<vars, field, origin, draftOf>>

(* Mutant: the form stays open for the next task. *)
FormAnsweredStay(r) ==
  /\ sub[r] = "done" /\ Told(r, answer[r].code)
  /\ UNCHANGED form

(* Success closes the form of its kind, whoever opened it. *)
FormAnswered(r) ==
  /\ sub[r] = "done" /\ Told(r, answer[r].code)
  /\ form' = IF told'[r] = "ok" /\ form = origin[r] THEN "none" ELSE form

(* fetch rejects; the request may still be on its way, or be handled. *)
FetchFails(r) == MayFail /\ Told(r, "error") /\ UNCHANGED form

(* The handler of a request that was sent. *)
Backend(r) ==
  /\ origin[r] # "none"
  /\ \/ Submit(r) \/ FindByIdempotencyKey(r) \/ Insert(r) \/ SubmissionFails(r)
  /\ UNCHANGED page

-----------------------------------------------------------------------------
FormsNext ==
  \/ Tick /\ UNCHANGED page
  \/ OpenForm \/ EditForm \/ CloseForm
  \/ \E r \in Task : \/ SubmitForm(r) \/ FormAnswered(r) \/ FetchFails(r)
                     \/ Backend(r)

FormsSpec == FormsInit /\ [][FormsNext]_formsVars

-----------------------------------------------------------------------------
(* Properties.                                                             *)

FormsTypeOK ==
  /\ form \in {"none", "create", "push"} /\ formSubmitting \in BOOLEAN
  /\ idempotencyKey \in GeneratedKey \cup TypedKey \cup {NoKey}
  /\ awaited \subseteq Task
  /\ origin \in [Task -> {"none", "create", "push"}]
  /\ told \in [Task -> {"none", "ok", "badRequest", "conflict", "error"}]
  /\ draft \in Nat /\ draftOf \in [Task -> Nat]
  /\ generated \subseteq GeneratedKey

(* One submission at a time, across both forms and however they are closed *)
(* and opened while it is under way; and once there is none, the buttons   *)
(* work.                                                                   *)
OneSubmission ==
  /\ formSubmitting <=> awaited # {}
  /\ \A r, q \in awaited : r = q

(* However often the user tries again after an error, and however many of  *)
(* the requests reached a handler: a draft with a key leaves one task.     *)
DraftMakesOneTask ==
  \A r, q \in Task :
     /\ draftOf[r] = draftOf[q] /\ draftOf[r] # 0 /\ KeyOf[r] # NoKey
     /\ Stored(r) /\ Stored(q)
     => r = q

(* A success reported for a draft is about the task of that click or, if   *)
(* it is an earlier one's, of a click on the same draft that was reported  *)
(* as failed: a generated key never makes the service answer with a task   *)
(* the user has been told of before, and drop what was just submitted.     *)
SuccessIsOwn ==
  \A r \in Task : told[r] = "ok" /\ KeyOf[r] \notin TypedKey =>
     LET q == answer[r].id IN
     /\ Stored(q)
     /\ q # r => draftOf[q] = draftOf[r] /\ told[q] = "error"

(* A conflict is the answer to two overlapping requests for one key.  It   *)
(* heals: once the user was told of it, a click that carries the key is    *)
(* answered with the task.                                                 *)
ConflictHeals ==
  [][\A p, r \in Task :
        told[p] = "conflict" /\ KeyOf[r] = KeyOf[p] /\ sub[r] = "lookup" =>
           sub'[r] # "insert"]_formsVars

(* An answer that comes late may close a form that was opened since; what  *)
(* it takes away then was never submitted.                                 *)
ClosesNoOther ==
  [][\A r \in awaited \ awaited' :
        form # "none" /\ form' = "none" /\ draftOf[r] # draft =>
           \A q \in Task : draftOf[q] # draft]_formsVars
=============================================================================
