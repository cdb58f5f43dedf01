------------------------------- MODULE Payload -------------------------------
(***************************************************************************)
(* Payloads as JSON values, what TaskPayloadValidator accepts of them when *)
(* a task is created, and what each executor asks of its payload again     *)
(* when it runs, days later perhaps and possibly on another version.       *)
(*                                                                         *)
(* A string is a sequence of pieces: text, blanks, and the placeholders    *)
(* {{a.b}} of a template.  Numbers and booleans are one scalar; nothing    *)
(* tells them apart.                                                       *)
(***************************************************************************)
EXTENDS Naturals, FiniteSetsExt, Sequences

Null == [is |-> "null"]
Undefined == [is |-> "undefined"]       \* what an absent field reads as
Scalar == [is |-> "number"]
Str(pieces) == [is |-> "string", of |-> pieces]
Arr(items)  == [is |-> "array", items |-> items]
Obj(fields) == [is |-> "object", fields |-> fields]

Blank == [text |-> " "]

(* record[key]; keys that every object inherits are not used. *)
Get(v, key) == IF key \in DOMAIN v.fields THEN v.fields[key] ELSE Undefined

Visible(s) == {i \in DOMAIN s : s[i] # Blank}
Trim(s) == IF Visible(s) = {} THEN << >>
                              ELSE SubSeq(s, Min(Visible(s)), Max(Visible(s)))

isNonEmptyString(v) == v.is = "string" /\ Trim(v.of) # << >>
isPlainObject(v) == v.is = "object"
every(v, P(_)) == \A i \in DOMAIN v.items : P(v.items[i])

-----------------------------------------------------------------------------
(* TaskPayloadValidator.                                                   *)

(* Mutant: the path is not trimmed before its length is looked at. *)
validateFileReadUntrimmed(p) ==
  Get(p, "path").is = "string" /\ Get(p, "path").of # << >>

validateFileRead(p) == isNonEmptyString(Get(p, "path"))

NonEmptyStrings(v) == /\ v.is = "array" /\ v.items # << >>
                      /\ every(v, isNonEmptyString)

validateFileImport(p) == NonEmptyStrings(Get(p, "paths"))

validateFormFill(p) == /\ isPlainObject(Get(p, "template"))
                       /\ isPlainObject(Get(p, "data"))

validateEmail(p) == /\ NonEmptyStrings(Get(p, "to"))
                    /\ isNonEmptyString(Get(p, "subject"))
                    /\ isNonEmptyString(Get(p, "body"))

validate(type, p) ==
  \/ type = "FILE_READ"   /\ validateFileRead(p)
  \/ type = "FILE_IMPORT" /\ validateFileImport(p)
  \/ type = "FORM_FILL"   /\ validateFormFill(p)
  \/ type = "EMAIL"       /\ validateEmail(p)

-----------------------------------------------------------------------------
(* The executors' own guards, before they do anything.                     *)

FileReadTakes(p) == LET path == Get(p, "path") IN
  isPlainObject(p) /\ path.is = "string" /\ Trim(path.of) # << >>

FileImportTakes(p) == isPlainObject(p) /\ Get(p, "paths").is = "array"

FormFillTakes(p) == /\ isPlainObject(p)
                    /\ Get(p, "template").is = "object"
                    /\ Get(p, "data").is = "object"

EmailTakes(p) == LET to == Get(p, "to") IN
  /\ isPlainObject(p)
  /\ to.is = "array" /\ Len(to.items) > 0
  /\ every(to, LAMBDA r : r.is = "string" /\ Trim(r.of) # << >>)
  /\ \A key \in {"subject", "body"} :
       Get(p, key).is = "string" /\ Trim(Get(p, key).of) # << >>

Takes(type, p) ==
  \/ type = "FILE_READ"   /\ FileReadTakes(p)
  \/ type = "FILE_IMPORT" /\ FileImportTakes(p)
  \/ type = "FORM_FILL"   /\ FormFillTakes(p)
  \/ type = "EMAIL"       /\ EmailTakes(p)
=============================================================================
