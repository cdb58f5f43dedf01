----------------------------- MODULE FormsProofs -----------------------------
(***************************************************************************)
(* Theorems about Forms, for any number of clicks, drafts and keys.        *)
(***************************************************************************)
EXTENDS Forms, AdmissionProofs

-----------------------------------------------------------------------------
(* Kinds of steps.                                                         *)

(* The key field gets its next draft. *)
FieldStep ==
  /\ UNCHANGED <<vars, formSubmitting, clicks>>
  /\ form' \in {"create", "push"}
  /\ draft' = draft + 1
  /\ \/ idempotencyKey' \in TypedKey \cup {NoKey} /\ UNCHANGED generated
     \/ /\ idempotencyKey' \in GeneratedKey \ generated
        /\ generated' = generated \cup {idempotencyKey'}

LEMMA FormSteps ==
  ASSUME TypeOK, FormsTypeOK, [FormsNext]_formsVars
  PROVE  \/ /\ [Next]_vars /\ UNCHANGED page
            /\ \A r \in Task : origin[r] = "none" => sub'[r] = sub[r]
         \/ FieldStep
         \/ CloseForm
         \/ \E r \in Task : SubmitForm(r) \/ FormAnswered(r) \/ FetchFails(r)
<1>1. ASSUME OpenForm \/ EditForm PROVE FieldStep
  <2>1. ASSUME NEW k, setIdempotencyKey(k) PROVE draft' = draft + 1 /\ idempotencyKey' = k
    BY <2>1 DEF setIdempotencyKey
  <2>2. generateIdempotencyKey =>
          /\ draft' = draft + 1 /\ idempotencyKey' \in GeneratedKey \ generated
          /\ generated' = generated \cup {idempotencyKey'}
    BY <2>1 DEF generateIdempotencyKey
  <2>3. resetFormDefaults =>
          /\ draft' = draft + 1 /\ idempotencyKey' = NoKey /\ UNCHANGED generated
    BY <2>1 DEF resetFormDefaults
  <2>4. form # "none" => form \in {"create", "push"}  BY DEF FormsTypeOK
  <2>5. CASE OpenForm  BY <2>2, <2>3, <2>5 DEF OpenForm, FieldStep
  <2>6. CASE EditForm  BY <2>1, <2>2, <2>3, <2>4, <2>6 DEF EditForm, FieldStep
  <2> QED  BY <1>1, <2>5, <2>6
<1>2. ASSUME NEW q \in Task, Backend(q)
      PROVE  /\ Next /\ UNCHANGED page
             /\ \A r \in Task : origin[r] = "none" => sub'[r] = sub[r]
  <2>1. Next  BY <1>2 DEF Backend, Next
  <2>2. \E x : sub' = [sub EXCEPT ![q] = x]
    BY <1>2 DEF Backend, Submit, FindByIdempotencyKey, Insert, SubmissionFails,
                Respond, Proceed
  <2>3. \A r \in Task : r # q => sub'[r] = sub[r]  BY <2>2 DEF TypeOK
  <2> QED  BY <1>2, <2>1, <2>3 DEF Backend
<1>3. ASSUME Tick /\ UNCHANGED page PROVE Next /\ UNCHANGED <<page, sub>>
  BY <1>3 DEF Next, Tick, requests
<1>4. CASE UNCHANGED formsVars  BY <1>4 DEF formsVars, vars, requests
<1> QED  BY <1>1, <1>2, <1>3, <1>4 DEF FormsNext

LEMMA FormsRefine ==
  ASSUME TypeOK, FormsTypeOK, [FormsNext]_formsVars
  PROVE  [Next]_vars
BY FormSteps DEF FieldStep, CloseForm, SubmitForm, Click, FormAnswered,
                 FetchFails, Told

-----------------------------------------------------------------------------
(* Types.                                                                  *)

LEMMA FormsTypeNext ==
  ASSUME TypeOK, FormsTypeOK, [FormsNext]_formsVars
  PROVE  FormsTypeOK'
<1>1. CASE UNCHANGED page
  BY <1>1 DEF page, field, clicks, FormsTypeOK
<1>2. CASE FieldStep
  BY <1>2 DEF FieldStep, clicks, FormsTypeOK
<1>3. CASE CloseForm
  BY <1>3 DEF CloseForm, field, clicks, FormsTypeOK
<1>4. ASSUME NEW r \in Task, SubmitForm(r) PROVE FormsTypeOK'
  <2>1. form \in {"create", "push"}
    BY <1>4 DEF SubmitForm, Click, FormsTypeOK
  <2>2. origin' \in [Task -> {"none", "create", "push"}] /\ draftOf' \in [Task -> Nat]
    BY <1>4, <2>1 DEF SubmitForm, Click, FormsTypeOK
  <2> QED  BY <1>4, <2>2 DEF SubmitForm, Click, field, FormsTypeOK
<1>5. ASSUME NEW r \in Task, NEW code \in {"none", "ok", "badRequest", "conflict", "error"},
             Told(r, code), form' \in {form, "none"}
      PROVE  FormsTypeOK'
  <2>1. told' \in [Task -> {"none", "ok", "badRequest", "conflict", "error"}]
    BY <1>5 DEF Told, FormsTypeOK
  <2> QED  BY <1>5, <2>1 DEF Told, field, FormsTypeOK
<1>6. ASSUME NEW r \in Task, FormAnswered(r) \/ FetchFails(r) PROVE FormsTypeOK'
  <2>1. answer[r].code \in {"none", "ok", "badRequest", "conflict", "error"}
    BY DEF TypeOK, Answer
  <2> QED  BY <1>5, <1>6, <2>1 DEF FormAnswered, FetchFails
<1> QED  BY <1>1, <1>2, <1>3, <1>4, <1>6, FormSteps

LEMMA FormsTypesInit == FormsInit => TypeOK /\ FormsTypeOK
<1> SUFFICES ASSUME FormsInit PROVE TypeOK /\ FormsTypeOK  OBVIOUS
<1>1. TypeOK  BY AdmissionInitTypes DEF FormsInit
<1>2. /\ origin \in [Task -> {"none", "create", "push"}]
      /\ told \in [Task -> {"none", "ok", "badRequest", "conflict", "error"}]
      /\ draftOf \in [Task -> Nat]
  BY DEF FormsInit
<1>3. draft \in Nat /\ awaited \subseteq Task /\ generated \subseteq GeneratedKey
  BY DEF FormsInit
<1> QED  BY <1>1, <1>2, <1>3 DEF FormsInit, FormsTypeOK

-----------------------------------------------------------------------------
(* The backend, once more: only a key makes it look for another's task.    *)

Looked ==
  \A r \in Task :
     /\ sub[r] = "done" => answer[r].code # "none"
     /\ sub[r] = "lookup" => LookedUp(r)
     /\ answer[r].code = "ok" /\ answer[r].id # r => LookedUp(r)

LEMMA LookedNext ==
  ASSUME TypeOK, Unanswered, Looked, [Next]_vars
  PROVE  Looked'
<1> SUFFICES ASSUME NEW r \in Task
             PROVE  /\ sub'[r] = "done" => answer'[r].code # "none"
                    /\ sub'[r] = "lookup" => LookedUp(r)
                    /\ answer'[r].code = "ok" /\ answer'[r].id # r => LookedUp(r)
  BY DEF Looked, LookedUp
<1>1. CASE sub'[r] = sub[r] /\ answer'[r] = answer[r]  BY <1>1 DEF Looked
<1>2. CASE sub'[r] # sub[r] \/ answer'[r] # answer[r]
  <2>1. sub'[r] = "done" => answer'[r].code # "none"  BY <1>2, Answers
  <2>2. ASSUME NEW q \in Task, Submit(q), sub'[r] # sub[r]
        PROVE  sub'[r] = "lookup" => LookedUp(r)
    BY <2>2 DEF Submit, Respond, Proceed, TypeOK
  <2>3. ASSUME NEW q \in Task, FindByIdempotencyKey(q) \/ Insert(q) \/ SubmissionFails(q)
        PROVE  sub'[r] # sub[r] => sub'[r] # "lookup"
    BY <2>3 DEF FindByIdempotencyKey, Insert, SubmissionFails, Respond, Proceed, TypeOK
  <2>4. sub'[r] = "lookup" => LookedUp(r)
    <3>1. CASE sub' = sub  BY <3>1 DEF Looked
    <3>2. CASE sub' # sub
      BY <2>2, <2>3, <3>2, TwoSides
      DEF Looked, Next, vars, requests, Tick, RequestCancel, ReadForCancel, CancelPendingTask,
          RereadTask, CancellationFails
    <3> QED  BY <3>1, <3>2
  <2>5. ASSUME answer'[r].code = "ok", answer'[r].id # r PROVE LookedUp(r)
    <3>1. sub[r] # "done" /\ sub'[r] = "done"
      BY <1>2, <2>5, Answers DEF Unanswered
    <3>2. ASSUME NEW q \in Task, Submit(q) \/ Insert(q) \/ SubmissionFails(q)
          PROVE  FALSE
      BY <2>5, <3>1, <3>2 DEF Submit, Insert, SubmissionFails, Respond, Proceed, TypeOK
    <3>3. ASSUME NEW q \in Task, FindByIdempotencyKey(q) PROVE sub[r] = "lookup"
      BY <3>1, <3>3 DEF FindByIdempotencyKey, Respond, Proceed, TypeOK
    <3>4. sub' # sub  BY <3>1
    <3> QED
      BY <3>2, <3>3, <3>4, TwoSides
      DEF Looked, Next, vars, requests, Tick, RequestCancel, ReadForCancel, CancelPendingTask,
          RereadTask, CancellationFails
  <2> QED  BY <2>1, <2>4, <2>5
<1> QED  BY <1>1, <1>2

-----------------------------------------------------------------------------
(* One click after the other.                                              *)

Awaiting ==
  /\ OneSubmission
  /\ form # "none" => draft > 0
  /\ \A r \in awaited : /\ origin[r] # "none" /\ told[r] = "none"
                        /\ \A q \in Task : draftOf[q] <= draftOf[r]
  /\ \A r \in Task : /\ draftOf[r] <= draft
                     /\ origin[r] = "none" => draftOf[r] = 0 /\ told[r] = "none"
                     /\ origin[r] # "none" => draftOf[r] > 0
                     /\ origin[r] # "none" /\ told[r] = "none" => r \in awaited

LEMMA ToldWhat ==
  ASSUME TypeOK, FormsTypeOK, Looked, OneSubmission, NEW r \in Task,
         FormAnswered(r) \/ FetchFails(r)
  PROVE  /\ awaited = {r} /\ awaited' = {}
         /\ told'[r] # "none" /\ \A q \in Task : q # r => told'[q] = told[q]
         /\ \/ told'[r] = "error"
            \/ sub[r] = "done" /\ told'[r] = answer[r].code
         /\ form' = IF told'[r] = "ok" /\ form = origin[r] THEN "none" ELSE form
         /\ formSubmitting' = FALSE
         /\ UNCHANGED <<vars, field, origin, draftOf>>
<1>1. ASSUME NEW code, Told(r, code)
      PROVE  /\ awaited = {r} /\ awaited' = {} /\ formSubmitting' = FALSE
             /\ told'[r] = code /\ \A q \in Task : q # r => told'[q] = told[q]
             /\ UNCHANGED <<vars, field, origin, draftOf>>
  BY <1>1 DEF Told, OneSubmission, FormsTypeOK
<1>2. CASE FormAnswered(r)
  <2>1. /\ sub[r] = "done" /\ Told(r, answer[r].code)
        /\ form' = IF told'[r] = "ok" /\ form = origin[r] THEN "none" ELSE form
    BY <1>2 DEF FormAnswered
  <2>2. answer[r].code # "none"  BY <2>1 DEF Looked
  <2> QED  BY <1>1, <2>1, <2>2
<1>3. CASE FetchFails(r)
  <2>1. Told(r, "error") /\ form' = form  BY <1>3 DEF FetchFails
  <2>2. told'[r] = "error"  BY <1>1, <2>1
  <2>3. form' = IF told'[r] = "ok" /\ form = origin[r] THEN "none" ELSE form
    BY <2>1, <2>2
  <2> QED  BY <1>1, <2>1, <2>2, <2>3
<1> QED  BY <1>2, <1>3

LEMMA ClickWhat ==
  ASSUME FormsTypeOK, OneSubmission, NEW r \in Task, SubmitForm(r)
  PROVE  /\ form # "none" /\ origin[r] = "none" /\ KeyOf[r] = idempotencyKey
         /\ awaited = {} /\ awaited' = {r} /\ formSubmitting' = TRUE
         /\ origin'[r] = form /\ draftOf'[r] = draft
         /\ \A q \in Task : q # r => origin'[q] = origin[q] /\ draftOf'[q] = draftOf[q]
         /\ UNCHANGED <<vars, form, told, field>>
BY DEF SubmitForm, Click, OneSubmission, FormsTypeOK

LEMMA AwaitingNext ==
  ASSUME TypeOK, FormsTypeOK, Looked, Awaiting, [FormsNext]_formsVars
  PROVE  Awaiting'
<1>0. draft \in Nat /\ \A r \in Task : draftOf[r] \in Nat
  BY DEF FormsTypeOK
<1>1. CASE UNCHANGED page
  BY <1>1 DEF page, field, clicks, Awaiting, OneSubmission
<1>2. CASE FieldStep
  BY <1>0, <1>2 DEF FieldStep, clicks, Awaiting, OneSubmission
<1>3. CASE CloseForm
  BY <1>3 DEF CloseForm, field, clicks, Awaiting, OneSubmission
<1>4. ASSUME NEW r \in Task, SubmitForm(r) PROVE Awaiting'
  <2>1. OneSubmission'
    BY <1>4, ClickWhat DEF Awaiting, OneSubmission
  <2>2. /\ form # "none" /\ form' = form /\ draft > 0 /\ draft' = draft
        /\ awaited = {} /\ awaited' = {r} /\ told' = told
        /\ origin[r] = "none" /\ origin'[r] = form /\ draftOf'[r] = draft
        /\ \A q \in Task : q # r => origin'[q] = origin[q] /\ draftOf'[q] = draftOf[q]
    BY <1>4, ClickWhat DEF Awaiting, field
  <2>3. \A q \in Task : draftOf'[q] <= draft  BY <1>0, <2>2 DEF Awaiting
  <2>4. origin'[r] # "none" /\ told'[r] = "none" /\ draftOf'[r] > 0
    BY <2>2 DEF Awaiting
  <2>5. ASSUME NEW q \in Task, q # r
        PROVE  /\ origin'[q] = "none" => draftOf'[q] = 0 /\ told'[q] = "none"
               /\ origin'[q] # "none" => draftOf'[q] > 0 /\ told'[q] # "none"
    BY <2>2, <2>5 DEF Awaiting
  <2> QED  BY <2>1, <2>2, <2>3, <2>4, <2>5 DEF Awaiting
<1>5. ASSUME NEW r \in Task, FormAnswered(r) \/ FetchFails(r) PROVE Awaiting'
  <2>1. /\ awaited = {r} /\ awaited' = {} /\ formSubmitting' = FALSE
        /\ form' \in {form, "none"} /\ draft' = draft
        /\ origin' = origin /\ draftOf' = draftOf
        /\ told'[r] # "none" /\ \A q \in Task : q # r => told'[q] = told[q]
    BY <1>5, ToldWhat DEF Awaiting, field
  <2>2. OneSubmission'  BY <2>1 DEF OneSubmission
  <2> QED  BY <2>1, <2>2 DEF Awaiting
<1> QED  BY <1>1, <1>2, <1>3, <1>4, <1>5, FormSteps

-----------------------------------------------------------------------------
(* Drafts and keys.                                                        *)

Asked(r) == origin[r] # "none"

(* A key is generated for one draft. *)
KeysDrawn ==
  /\ idempotencyKey \in generated \cup TypedKey \cup {NoKey}
  /\ \A r \in Task : Asked(r) =>
        /\ KeyOf[r] \in generated \cup TypedKey \cup {NoKey}
        /\ KeyOf[r] \in GeneratedKey /\ KeyOf[r] = idempotencyKey => draftOf[r] = draft

(* What the page knows of the draft it shows. *)
Shown ==
  form # "none" =>
     \A r \in Task : Asked(r) /\ draftOf[r] = draft =>
        KeyOf[r] = idempotencyKey /\ origin[r] = form /\ told[r] # "ok"

(* Two clicks have a key in common if they have the draft; when one of     *)
(* them was successful, the other had failed before.                       *)
Drafts ==
  \A r, q \in Task : Asked(r) /\ Asked(q) =>
     /\ draftOf[r] = draftOf[q] => KeyOf[r] = KeyOf[q]
     /\ KeyOf[r] = KeyOf[q] /\ KeyOf[r] \in GeneratedKey => draftOf[r] = draftOf[q]
     /\ told[q] = "ok" /\ draftOf[r] = draftOf[q] /\ r # q =>
           told[r] # "ok" /\ r \notin awaited

DraftInv == KeysDrawn /\ Shown /\ Drafts

LEMMA NewDraft ==
  ASSUME FormsTypeOK, Awaiting, DraftInv, FieldStep
  PROVE  DraftInv'
<1>0. /\ vars' = vars /\ origin' = origin /\ told' = told
      /\ draftOf' = draftOf /\ awaited' = awaited /\ draft' = draft + 1
  BY DEF FieldStep, clicks
<1>1. \A r \in Task : Asked(r)' = Asked(r) /\ draftOf'[r] # draft'
  <2> TAKE r \in Task
  <2>1. draftOf[r] \in Nat /\ draft \in Nat /\ draftOf[r] <= draft
    BY DEF FormsTypeOK, Awaiting
  <2> QED  BY <1>0, <2>1 DEF Asked
<1>2. Drafts'  BY <1>0, <1>1 DEF DraftInv, Drafts
<1>3. Shown'  BY <1>1 DEF Shown
<1>4. /\ generated \subseteq generated'
      /\ idempotencyKey' \in generated' \cup TypedKey \cup {NoKey}
      /\ idempotencyKey' \in GeneratedKey => idempotencyKey' \notin generated
  BY FormsAssumption DEF FieldStep
<1>5. KeysDrawn'
  <2>1. ASSUME NEW r \in Task, Asked(r)'
        PROVE  /\ KeyOf[r] \in generated' \cup TypedKey \cup {NoKey}
               /\ ~(KeyOf[r] \in GeneratedKey /\ KeyOf[r] = idempotencyKey')
    <3>1. KeyOf[r] \in generated \cup TypedKey \cup {NoKey}
      BY <1>1, <2>1 DEF DraftInv, KeysDrawn
    <3>2. KeyOf[r] \in GeneratedKey => KeyOf[r] \in generated
      BY <3>1, FormsAssumption
    <3> QED  BY <1>4, <3>1, <3>2
  <2> QED  BY <1>4, <2>1 DEF KeysDrawn
<1> QED  BY <1>2, <1>3, <1>5 DEF DraftInv

LEMMA NewClick ==
  ASSUME FormsTypeOK, Awaiting, DraftInv, NEW r \in Task, SubmitForm(r)
  PROVE  DraftInv'
<1>0. /\ form # "none" /\ KeyOf[r] = idempotencyKey
      /\ origin'[r] = form /\ draftOf'[r] = draft
      /\ awaited' = {r} /\ told[r] = "none"
      /\ \A q \in Task : q # r => origin'[q] = origin[q] /\ draftOf'[q] = draftOf[q]
      /\ UNCHANGED <<form, told, idempotencyKey, draft, generated>>
  BY ClickWhat DEF Awaiting, field
<1>1. Asked(r)' /\ \A q \in Task : q # r => Asked(q)' = Asked(q)
  BY <1>0 DEF Asked
<1>2. KeysDrawn'
  <2>1. idempotencyKey' \in generated' \cup TypedKey \cup {NoKey}
    BY <1>0 DEF DraftInv, KeysDrawn
  <2>2. ASSUME NEW q \in Task, Asked(q)', q # r
        PROVE  /\ KeyOf[q] \in generated' \cup TypedKey \cup {NoKey}
               /\ KeyOf[q] \in GeneratedKey /\ KeyOf[q] = idempotencyKey' =>
                    draftOf'[q] = draft'
    BY <1>0, <1>1, <2>2 DEF DraftInv, KeysDrawn
  <2> QED  BY <1>0, <2>1, <2>2 DEF KeysDrawn
<1>3. \A q \in Task : Asked(q)' /\ draftOf'[q] = draft =>
         KeyOf[q] = idempotencyKey /\ origin'[q] = form /\ told'[q] # "ok"
  BY <1>0, <1>1 DEF DraftInv, Shown
<1>4. Shown'  BY <1>0, <1>3 DEF Shown
<1>5. ASSUME NEW q \in Task, Asked(q)', q # r
      PROVE  /\ draftOf'[q] = draft => KeyOf[q] = idempotencyKey
             /\ KeyOf[q] \in GeneratedKey /\ KeyOf[q] = idempotencyKey =>
                  draftOf'[q] = draft
             /\ told'[q] = "ok" => draftOf'[q] # draft
  <2>1. KeyOf[q] \in GeneratedKey /\ KeyOf[q] = idempotencyKey => draftOf'[q] = draft
    BY <1>0, <1>1, <1>5 DEF DraftInv, KeysDrawn
  <2> QED  BY <1>3, <1>5, <2>1
<1>6. Drafts'
  <2> SUFFICES ASSUME NEW a \in Task, NEW b \in Task, Asked(a)', Asked(b)'
               PROVE  /\ draftOf'[a] = draftOf'[b] => KeyOf[a] = KeyOf[b]
                      /\ KeyOf[a] = KeyOf[b] /\ KeyOf[a] \in GeneratedKey =>
                            draftOf'[a] = draftOf'[b]
                      /\ told'[b] = "ok" /\ draftOf'[a] = draftOf'[b] /\ a # b =>
                            told'[a] # "ok" /\ a \notin awaited'
    BY DEF Drafts
  <2>1. CASE a # r /\ b # r
    BY <1>0, <1>1, <2>1 DEF DraftInv, Drafts
  <2>2. CASE a = r /\ b = r  BY <2>2
  <2>3. CASE a = r /\ b # r  BY <1>0, <1>5, <2>3
  <2>4. CASE a # r /\ b = r  BY <1>0, <1>5, <2>4
  <2> QED  BY <2>1, <2>2, <2>3, <2>4
<1> QED  BY <1>2, <1>4, <1>6 DEF DraftInv

LEMMA AnswerToClick ==
  ASSUME TypeOK, FormsTypeOK, Looked, Awaiting, DraftInv, NEW r \in Task,
         FormAnswered(r) \/ FetchFails(r)
  PROVE  DraftInv'
<1>0. /\ awaited = {r} /\ awaited' = {} /\ Asked(r)
      /\ \A q \in Task : q # r => told'[q] = told[q]
      /\ form' = IF told'[r] = "ok" /\ form = origin[r] THEN "none" ELSE form
      /\ UNCHANGED <<idempotencyKey, draft, generated, origin, draftOf>>
  BY ToldWhat DEF Awaiting, Asked, field
<1>1. \A q \in Task : Asked(q)' = Asked(q)  BY <1>0 DEF Asked
<1>2. KeysDrawn'  BY <1>0, <1>1 DEF DraftInv, KeysDrawn
<1>3. Shown'
  <2> SUFFICES ASSUME form' # "none", NEW q \in Task, Asked(q), draftOf[q] = draft
               PROVE  KeyOf[q] = idempotencyKey /\ origin[q] = form' /\ told'[q] # "ok"
    BY <1>0, <1>1 DEF Shown
  <2>1. form' = form  BY <1>0
  <2>2. KeyOf[q] = idempotencyKey /\ origin[q] = form /\ told[q] # "ok"
    BY <2>1 DEF DraftInv, Shown
  <2>3. q = r => told'[q] # "ok"  BY <1>0, <2>1, <2>2
  <2> QED  BY <1>0, <2>1, <2>2, <2>3
<1>4. Drafts'
  <2> SUFFICES ASSUME NEW a \in Task, NEW b \in Task, Asked(a), Asked(b)
               PROVE  /\ draftOf[a] = draftOf[b] => KeyOf[a] = KeyOf[b]
                      /\ KeyOf[a] = KeyOf[b] /\ KeyOf[a] \in GeneratedKey =>
                            draftOf[a] = draftOf[b]
                      /\ told'[b] = "ok" /\ draftOf[a] = draftOf[b] /\ a # b =>
                            told'[a] # "ok"
    BY <1>0, <1>1 DEF Drafts
  <2>1. /\ draftOf[a] = draftOf[b] => KeyOf[a] = KeyOf[b]
        /\ KeyOf[a] = KeyOf[b] /\ KeyOf[a] \in GeneratedKey => draftOf[a] = draftOf[b]
    BY DEF DraftInv, Drafts
  <2>2. ASSUME told'[b] = "ok", draftOf[a] = draftOf[b], a # b, told'[a] = "ok"
        PROVE  FALSE
    <3>1. CASE a = r
      <4>1. told[b] = "ok"  BY <1>0, <2>2, <3>1
      <4>2. a \in awaited  BY <1>0, <3>1
      <4> QED  BY <2>2, <4>1, <4>2 DEF DraftInv, Drafts
    <3>2. CASE b = r
      <4>1. told[a] = "ok"  BY <1>0, <2>2, <3>2
      <4>2. b \in awaited  BY <1>0, <3>2
      <4> QED  BY <2>2, <4>1, <4>2 DEF DraftInv, Drafts
    <3>3. CASE a # r /\ b # r
      <4>1. told[a] = "ok" /\ told[b] = "ok"  BY <1>0, <2>2, <3>3
      <4> QED  BY <2>2, <4>1 DEF DraftInv, Drafts
    <3> QED  BY <3>1, <3>2, <3>3
  <2> QED  BY <2>1, <2>2
<1> QED  BY <1>2, <1>3, <1>4 DEF DraftInv

LEMMA DraftNext ==
  ASSUME TypeOK, FormsTypeOK, Looked, Awaiting, DraftInv, [FormsNext]_formsVars
  PROVE  DraftInv'
<1>1. CASE UNCHANGED page
  BY <1>1 DEF page, field, clicks, DraftInv, KeysDrawn, Shown, Drafts, Asked
<1>2. CASE CloseForm
  BY <1>2 DEF CloseForm, field, clicks, DraftInv, KeysDrawn, Shown, Drafts, Asked
<1> QED  BY <1>1, <1>2, NewDraft, NewClick, AnswerToClick, FormSteps

-----------------------------------------------------------------------------
(* What the page is told is what was answered.                             *)

ToldTrue ==
  \A r \in Task :
     /\ origin[r] = "none" => sub[r] = "new"
     /\ told[r] \in {"ok", "badRequest", "conflict"} =>
           sub[r] = "done" /\ answer[r].code = told[r]

LEMMA ToldTrueNext ==
  ASSUME TypeOK, FormsTypeOK, Looked, Awaiting, ToldTrue, [FormsNext]_formsVars
  PROVE  ToldTrue'
<1>1. CASE /\ [Next]_vars /\ UNCHANGED page
           /\ \A r \in Task : origin[r] = "none" => sub'[r] = sub[r]
  <2>1. \A r \in Task : sub[r] = "done" => sub'[r] = sub[r] /\ answer'[r] = answer[r]
    BY <1>1, Answers
  <2> QED  BY <1>1, <2>1 DEF ToldTrue, page, clicks
<1>2. CASE FieldStep \/ CloseForm
  BY <1>2 DEF FieldStep, CloseForm, clicks, vars, requests, ToldTrue
<1>3. ASSUME NEW r \in Task, SubmitForm(r) PROVE ToldTrue'
  <2>1. /\ origin'[r] # "none" /\ \A q \in Task : q # r => origin'[q] = origin[q]
        /\ sub' = sub /\ answer' = answer /\ told' = told
    BY <1>3, ClickWhat DEF Awaiting, vars, requests
  <2> QED  BY <2>1 DEF ToldTrue
<1>4. ASSUME NEW r \in Task, FormAnswered(r) \/ FetchFails(r) PROVE ToldTrue'
  <2>1. /\ \A q \in Task : q # r => told'[q] = told[q]
        /\ \/ told'[r] = "error"
           \/ sub[r] = "done" /\ told'[r] = answer[r].code
        /\ sub' = sub /\ answer' = answer /\ origin' = origin
    BY <1>4, ToldWhat DEF Awaiting, vars, requests
  <2> QED  BY <2>1 DEF ToldTrue
<1> QED  BY <1>1, <1>2, <1>3, <1>4, FormSteps

-----------------------------------------------------------------------------
(* The theorems.                                                           *)

FormsInv == /\ TypeOK /\ KeyInv /\ FormsTypeOK
            /\ Looked /\ Awaiting /\ DraftInv /\ ToldTrue

LEMMA FormsInvInit == FormsInit => FormsInv
<1> SUFFICES ASSUME FormsInit PROVE FormsInv  OBVIOUS
<1>1. TypeOK /\ FormsTypeOK /\ KeyInv
  BY FormsTypesInit, KeyInvInit DEF FormsInit
<1>2. Looked /\ ToldTrue
  BY DEF FormsInit, Init, NoAnswer, Looked, ToldTrue
<1>3. Awaiting  BY DEF FormsInit, Awaiting, OneSubmission
<1>4. DraftInv
  BY DEF FormsInit, DraftInv, KeysDrawn, Shown, Drafts, Asked
<1> QED  BY <1>1, <1>2, <1>3, <1>4 DEF FormsInv

LEMMA FormsInvNext == FormsInv /\ [FormsNext]_formsVars => FormsInv'
<1> SUFFICES ASSUME FormsInv, [FormsNext]_formsVars PROVE FormsInv'  OBVIOUS
<1>0. /\ TypeOK /\ KeyInv /\ FormsTypeOK
      /\ Looked /\ Awaiting /\ DraftInv /\ ToldTrue /\ Unanswered
  BY DEF FormsInv, KeyInv
<1>1. [Next]_vars  BY <1>0, FormsRefine
<1>2. TypeOK' /\ KeyInv' /\ FormsTypeOK'
  BY <1>0, <1>1, TypeNext, KeyInvNext, FormsTypeNext
<1>3. Looked' /\ Awaiting'  BY <1>0, <1>1, LookedNext, AwaitingNext
<1>4. DraftInv' /\ ToldTrue'  BY <1>0, DraftNext, ToldTrueNext
<1> QED  BY <1>2, <1>3, <1>4 DEF FormsInv

LEMMA FormsSafe == FormsSpec => []FormsInv
BY FormsInvInit, FormsInvNext, PTL DEF FormsSpec

(* The page and the backend behind it keep their types.                    *)
THEOREM FormsTypes == FormsSpec => []FormsTypeOK
<1>1. FormsInv => FormsTypeOK  BY DEF FormsInv
<1> QED  BY <1>1, FormsSafe, PTL

(* One submission is under way at most, and the buttons are disabled       *)
(* exactly while one is.                                                   *)
THEOREM OneAtATime == FormsSpec => []OneSubmission
<1>1. FormsInv => OneSubmission  BY DEF FormsInv, Awaiting
<1> QED  BY <1>1, FormsSafe, PTL

(* However often the user clicks again, a draft with a key leaves one row. *)
THEOREM OneTaskPerDraft == FormsSpec => []DraftMakesOneTask
<1>1. FormsInv => DraftMakesOneTask
  <2> SUFFICES ASSUME FormsInv, NEW r \in Task, NEW q \in Task,
                      draftOf[r] = draftOf[q], draftOf[r] # 0, KeyOf[r] # NoKey,
                      Stored(r), Stored(q)
               PROVE  r = q
    BY DEF DraftMakesOneTask
  <2>1. Asked(r) /\ Asked(q)  BY DEF FormsInv, Awaiting, Asked
  <2>2. KeyOf[r] = KeyOf[q]  BY <2>1 DEF FormsInv, DraftInv, Drafts
  <2> QED  BY <2>2 DEF FormsInv, KeyInv, UniqueKey
<1> QED  BY <1>1, FormsSafe, PTL

(* A success the page reports is the user's own.                           *)
THEOREM SuccessesOwn == FormsSpec => []SuccessIsOwn
<1>1. FormsInv => SuccessIsOwn
  <2> SUFFICES ASSUME FormsInv, NEW r \in Task, told[r] = "ok", KeyOf[r] \notin TypedKey
               PROVE  /\ Stored(answer[r].id)
                      /\ answer[r].id # r =>
                           /\ draftOf[answer[r].id] = draftOf[r]
                           /\ told[answer[r].id] = "error"
    BY DEF SuccessIsOwn
  <2>1. answer[r].code = "ok" /\ Asked(r)
    BY DEF FormsInv, ToldTrue, Awaiting, Asked
  <2>2. PICK q \in Task : q = answer[r].id /\ Stored(q) /\ KeyOf[q] = KeyOf[r]
    BY <2>1 DEF FormsInv, KeyInv, Granted
  <2>3. ASSUME q # r PROVE draftOf[q] = draftOf[r] /\ told[q] = "error"
    <3>1. sub[q] = "done" /\ answer[q].code \notin {"badRequest", "conflict"}
      BY <2>2 DEF FormsInv, KeyInv, Unanswered, RefusalLeavesNoRow, TypeOK
    <3>2. Asked(q)  BY <3>1 DEF FormsInv, ToldTrue, Asked
    <3>3. KeyOf[r] \in GeneratedKey
      <4>1. LookedUp(r)  BY <2>1, <2>2, <2>3 DEF FormsInv, Looked
      <4>2. KeyOf[r] \in generated \cup TypedKey \cup {NoKey}
        BY <2>1 DEF FormsInv, DraftInv, KeysDrawn
      <4> QED  BY <4>1, <4>2 DEF LookedUp, FormsInv, FormsTypeOK
    <3>4. draftOf[q] = draftOf[r]
      BY <2>1, <2>2, <3>2, <3>3 DEF FormsInv, DraftInv, Drafts
    <3>5. told[q] # "ok" /\ q \notin awaited
      BY <2>1, <2>3, <3>2, <3>4 DEF FormsInv, DraftInv, Drafts
    <3>6. told[q] # "none"  BY <3>2, <3>5 DEF FormsInv, Awaiting, Asked
    <3>7. told[q] \notin {"badRequest", "conflict"}
      BY <3>1 DEF FormsInv, ToldTrue
    <3> QED  BY <3>4, <3>5, <3>6, <3>7 DEF FormsInv, FormsTypeOK
  <2> QED  BY <2>2, <2>3
<1> QED  BY <1>1, FormsSafe, PTL

(* Trying again after a conflict finds the task.                           *)
THEOREM ConflictsHeal == FormsSpec => ConflictHeals
<1>1. FormsInv /\ [FormsNext]_formsVars =>
        [\A p, r \in Task :
            told[p] = "conflict" /\ KeyOf[r] = KeyOf[p] /\ sub[r] = "lookup" =>
               sub'[r] # "insert"]_formsVars
  <2> SUFFICES ASSUME FormsInv, [FormsNext]_formsVars,
                      NEW p \in Task, NEW r \in Task, told[p] = "conflict",
                      KeyOf[r] = KeyOf[p], sub[r] = "lookup", sub'[r] = "insert"
               PROVE  FALSE
    OBVIOUS
  <2>1. Holders(KeyOf[r]) # {}
    BY DEF FormsInv, ToldTrue, KeyInv, RefusalLeavesNoRow
  <2>2. ASSUME NEW q \in Task, Backend(q) PROVE FALSE
    <3>1. q = r
      BY <2>2 DEF Backend, Submit, FindByIdempotencyKey, Insert, SubmissionFails,
                  Respond, Proceed, FormsInv, TypeOK
    <3>2. FindByIdempotencyKey(r)
      BY <2>2, <3>1 DEF Backend, Submit, Insert, SubmissionFails, Respond,
                        FormsInv, TypeOK
    <3> QED  BY <2>1, <3>2 DEF FindByIdempotencyKey, Respond, FormsInv, TypeOK
  <2>3. sub' # sub  OBVIOUS
  <2> QED
    BY <2>2, <2>3
    DEF FormsNext, formsVars, vars, requests, Tick, OpenForm, EditForm, CloseForm,
        SubmitForm, Click, FormAnswered, FetchFails, Told
<1> QED  BY <1>1, FormsSafe, PTL DEF FormsSpec, ConflictHeals

(* An answer never closes a form whose draft was submitted meanwhile.      *)
THEOREM ClosesOwn == FormsSpec => ClosesNoOther
<1>1. FormsInv /\ [FormsNext]_formsVars =>
        [\A r \in awaited \ awaited' :
            form # "none" /\ form' = "none" /\ draftOf[r] # draft =>
               \A q \in Task : draftOf[q] # draft]_formsVars
  <2> SUFFICES ASSUME FormsInv, NEW r \in awaited, form # "none",
                      draftOf[r] # draft, NEW q \in Task
               PROVE  draftOf[q] # draft
    OBVIOUS
  <2>1. /\ r \in Task /\ draftOf[r] \in Nat /\ draftOf[q] \in Nat /\ draft \in Nat
        /\ draftOf[q] <= draftOf[r] /\ draftOf[r] <= draft
    BY DEF FormsInv, FormsTypeOK, Awaiting
  <2> QED  BY <2>1
<1> QED  BY <1>1, FormsSafe, PTL DEF FormsSpec, ClosesNoOther
=============================================================================
