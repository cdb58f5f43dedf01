------------------------------ MODULE Executors ------------------------------
(***************************************************************************)
(* The way of one payload: create validates it, the registry finds the     *)
(* executor for its type, and the executor runs, while files change.       *)
(* What surrounds an execution (claims, timers, retries) is module         *)
(* Scheduler, where an executor returns, throws or hangs.                  *)
(***************************************************************************)
EXTENDS FileImport

CONSTANTS
  Inputs,       \* bound: the requests [type, payload] that are made
  Fill(_, _)    \* fillTemplate of module FormFill

(* A payload is an object: @IsObject of the DTOs refuses arrays and null.  *)
ASSUME InputAssumption ==
  \A input \in Inputs :
    /\ isPlainObject(input.payload)
    /\ Get(input.payload, "paths").is = "array" =>
          Get(input.payload, "paths").items \in Seq(Raw)

VARIABLES type, payload, result

vars == <<type, payload, result, importVars>>

NoResult == << >>
Field(key) == Get(payload, key)

Init ==
  /\ \E input \in Inputs : type = input.type /\ payload = input.payload
  /\ FilesInit /\ NothingImported
  /\ type \in {"FILE_READ", "FILE_IMPORT"} \/ disk = [f \in Path |-> Missing]
  /\ paths = << >>
  /\ result = NoResult
  /\ pc = "submitted"

Goto(there) == pc' = there /\ UNCHANGED <<type, payload, files>>
NoImport == UNCHANGED <<paths, fileStat, results>>

(* create: 400, or a row. *)
Validate ==
  /\ pc = "submitted"
  /\ Goto(IF validate(type, payload) THEN "stored" ELSE "refused")
  /\ NoImport /\ UNCHANGED result

(* An executor that does not take its payload throws at once. *)
Dispatch(executor) == pc = "stored" /\ type = executor

ExecuteFileRead ==
  /\ Dispatch("FILE_READ")
  /\ Goto(IF FileReadTakes(payload) THEN "readStat" ELSE "rejected")
  /\ NoImport /\ UNCHANGED result

ExecuteFileImport ==
  /\ Dispatch("FILE_IMPORT")
  /\ IF FileImportTakes(payload)
     THEN paths' = Field("paths").items /\ Goto("importStat")
     ELSE Goto("rejected") /\ UNCHANGED paths
  /\ UNCHANGED <<result, fileStat, results>>

ExecuteFormFill ==
  /\ Dispatch("FORM_FILL")
  /\ IF FormFillTakes(payload)
     THEN /\ result' = Fill(Field("template"), Field("data"))
          /\ Goto("returned")
     ELSE Goto("rejected") /\ UNCHANGED result
  /\ NoImport

ExecuteEmail ==
  /\ Dispatch("EMAIL")
  /\ Goto(IF EmailTakes(payload) THEN "sending" ELSE "rejected")
  /\ NoImport /\ UNCHANGED result

(* The mail server takes the message or does not. *)
SendMail ==
  /\ pc = "sending"
  /\ \/ Goto("returned") /\ result' = [to |-> Field("to"), subject |-> Field("subject")]
     \/ Goto("failed") /\ UNCHANGED result
  /\ NoImport

(* The path as it is, where the import trims it. *)
ReadStat ==
  /\ pc = "readStat"
  /\ LET found == At(Field("path").of) IN
     IF Present(found) THEN fileStat' = found /\ Goto("readFile")
                       ELSE Goto("failed") /\ UNCHANGED fileStat
  /\ UNCHANGED <<result, paths, results>>

ReadFile ==
  /\ pc = "readFile"
  /\ LET content == At(Field("path").of) IN
     IF Readable(content)
     THEN result' = [size |-> fileStat, data |-> content] /\ Goto("returned")
     ELSE Goto("failed") /\ UNCHANGED result
  /\ NoImport

Import == (ImportStat \/ ImportRead \/ ImportReturns) /\ UNCHANGED <<type, payload, result>>

DiskChanges == /\ \E f \in Path, c \in Content \cup {Missing} : FileChanges(f, c)
               /\ pc \notin {"submitted", "refused", "rejected", "returned", "failed"}
               /\ UNCHANGED <<type, payload, result>>

Next == \/ Validate
        \/ ExecuteFileRead \/ ReadStat \/ ReadFile
        \/ ExecuteFileImport \/ Import
        \/ ExecuteFormFill
        \/ ExecuteEmail \/ SendMail
        \/ DiskChanges

Spec == Init /\ [][Next]_vars

-----------------------------------------------------------------------------
(* Properties.                                                             *)

(* What create has accepted, the executor can work with: it is not thrown  *)
(* back as invalid, days later and on every retry, and an execution fails  *)
(* only for what no guard looks at: what the mail server answers, or a     *)
(* file that was in some moment missing or unreadable.  Filling and        *)
(* importing never fail.                                                   *)
AcceptedRuns ==
  /\ pc # "rejected"
  /\ pc = "failed" =>
       \/ type = "EMAIL"
       \/ type = "FILE_READ" /\ \E c \in Past(Field("path").of) : ~Readable(c)
=============================================================================
