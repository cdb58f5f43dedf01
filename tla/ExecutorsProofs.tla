--------------------------- MODULE ExecutorsProofs ---------------------------
(***************************************************************************)
(* Theorems of Executors, for any requests, files and changes of them.     *)
(***************************************************************************)
EXTENDS Executors, FiniteSetTheorems, TLAPS

(* What the validator accepts, the executor's own guard lets pass.         *)
LEMMA ValidIsTaken ==
  ASSUME NEW kind, NEW p, isPlainObject(p), validate(kind, p)
  PROVE  Takes(kind, p)
<1>1. CASE kind = "FILE_READ"
  BY <1>1 DEF validate, Takes, validateFileRead, FileReadTakes, isNonEmptyString
<1>2. CASE kind = "FILE_IMPORT"
  BY <1>2 DEF validate, Takes, validateFileImport, FileImportTakes, NonEmptyStrings
<1>3. CASE kind = "FORM_FILL"
  BY <1>3 DEF validate, Takes, validateFormFill, FormFillTakes, isPlainObject
<1>4. CASE kind = "EMAIL"
  BY <1>4 DEF validate, Takes, validateEmail, EmailTakes, NonEmptyStrings,
              every, isNonEmptyString
<1> QED BY <1>1, <1>2, <1>3, <1>4 DEF validate

-----------------------------------------------------------------------------
(* The way of a payload.                                                   *)

FilesOK ==
  /\ disk \in [Path -> Content \cup {Missing}]
  /\ seen \in [Path -> SUBSET (Content \cup {Missing})]
  /\ \A f \in Path : disk[f] \in seen[f]

Accepted == pc \notin {"submitted", "refused"} => Takes(type, payload)

OnItsWay ==
  /\ pc \in {"readStat", "readFile"} => type = "FILE_READ"
  /\ pc = "sending" => type = "EMAIL"

RequestTyped ==
  Field("paths").is = "array" => Field("paths").items \in Seq(Raw)

WayInv ==
  /\ isPlainObject(payload) /\ RequestTyped
  /\ FilesOK /\ Accepted /\ OnItsWay /\ AcceptedRuns

LEMMA NowIsPast ==
  ASSUME FilesOK, NEW p PROVE At(p) \in Past(p)
BY DEF FilesOK, At, Past

LEMMA PastStays ==
  ASSUME FilesOK, NEW f \in Path, NEW c, FileChanges(f, c), NEW p
  PROVE  \A x \in Past(p) : x \in Past(p)'
BY DEF FilesOK, FileChanges, Past

LEMMA FilesKept ==
  ASSUME FilesOK, [Next]_vars PROVE FilesOK'
<1>1. CASE UNCHANGED files
  BY <1>1 DEF files, FilesOK
<1>2. CASE DiskChanges
  <2>1. PICK f \in Path, c \in Content \cup {Missing} : FileChanges(f, c)
    BY <1>2 DEF DiskChanges
  <2> QED BY <2>1 DEF FileChanges, FilesOK
<1> QED
  BY <1>1, <1>2
  DEF Next, vars, importVars, files, Goto, NoImport, Validate, ExecuteFileRead, ReadStat,
      ReadFile, ExecuteFileImport, ExecuteFormFill, ExecuteEmail, SendMail,
      Import, ImportStat, ImportRead, ImportReturns

LEMMA WayStep == WayInv /\ [Next]_vars => WayInv'
<1> SUFFICES ASSUME WayInv, [Next]_vars PROVE WayInv'
  OBVIOUS
<1>0. FilesOK' /\ RequestTyped'
  <2>1. UNCHANGED payload
    BY DEF Next, vars, Goto, Validate, ExecuteFileRead, ReadStat, ReadFile, ExecuteFileImport,
           ExecuteFormFill, ExecuteEmail, SendMail, Import, DiskChanges
  <2> QED BY <2>1, FilesKept DEF WayInv, RequestTyped, Field
<1>1. CASE Validate
  BY <1>0, <1>1, ValidIsTaken
  DEF Validate, Goto, WayInv, Accepted, OnItsWay, AcceptedRuns
<1>2. CASE ExecuteFileRead
  BY <1>0, <1>2
  DEF ExecuteFileRead, Dispatch, Goto, WayInv, Accepted, OnItsWay, AcceptedRuns, Takes
<1>3. CASE ExecuteFileImport
  BY <1>0, <1>3
  DEF ExecuteFileImport, Dispatch, Goto, WayInv, Accepted, OnItsWay, AcceptedRuns, Takes
<1>4. CASE ExecuteFormFill
  BY <1>0, <1>4
  DEF ExecuteFormFill, Dispatch, Goto, WayInv, Accepted, OnItsWay, AcceptedRuns, Takes
<1>5. CASE ExecuteEmail
  BY <1>0, <1>5
  DEF ExecuteEmail, Dispatch, Goto, WayInv, Accepted, OnItsWay, AcceptedRuns, Takes
<1>6. CASE SendMail
  BY <1>0, <1>6 DEF SendMail, Goto, WayInv, Accepted, OnItsWay, AcceptedRuns
<1>7. CASE ReadStat \/ ReadFile
  <2> DEFINE path == Field("path").of
  <2>1. At(path) \in Past(path)
    BY NowIsPast DEF WayInv
  <2>2. UNCHANGED <<type, payload, files>>
    BY <1>7 DEF ReadStat, ReadFile, Goto
  <2>3. Past(path)' = Past(path)
    BY <2>2 DEF Past, Field, files
  <2>4. pc' = "failed" => ~Readable(At(path))
    BY <1>7 DEF ReadStat, ReadFile, Goto, Present, Readable
  <2>5. pc' \in {"readFile", "returned", "failed"} /\ pc \in {"readStat", "readFile"}
    BY <1>7 DEF ReadStat, ReadFile, Goto
  <2>6. AcceptedRuns'
    BY <2>1, <2>2, <2>3, <2>4, <2>5 DEF AcceptedRuns, WayInv, OnItsWay
  <2> QED BY <1>0, <2>2, <2>5, <2>6 DEF WayInv, Accepted, OnItsWay
<1>8. CASE Import
  BY <1>0, <1>8
  DEF Import, ImportStat, ImportRead, ImportReturns, WayInv, Accepted, OnItsWay, AcceptedRuns
<1>9. CASE DiskChanges
  BY <1>0, <1>9 DEF DiskChanges, FileChanges, WayInv, Accepted, OnItsWay, AcceptedRuns
<1>10. CASE UNCHANGED vars
  BY <1>0, <1>10 DEF vars, importVars, files, WayInv, FilesOK, Accepted, OnItsWay,
               AcceptedRuns, Past, Field
<1> QED
  BY <1>1, <1>2, <1>3, <1>4, <1>5, <1>6, <1>7, <1>8, <1>9, <1>10 DEF Next

LEMMA WayAlways == Spec => []WayInv
<1>1. Init => WayInv
  BY InputAssumption
  DEF Init, FilesInit, WayInv, FilesOK, RequestTyped, Field, Accepted, OnItsWay, AcceptedRuns
<1> QED BY <1>1, WayStep, PTL DEF Spec

(* A payload that create accepts is never thrown back by its executor, and *)
(* executions fail for outside causes only, whatever the payload: the      *)
(* validator and the four executors state their rules independently.      *)
THEOREM AcceptedPayloadsRun == Spec => []AcceptedRuns
BY WayAlways, PTL DEF WayInv

-----------------------------------------------------------------------------
(* The results of an import.                                               *)

PathName == {PathOf(raw) : raw \in Raw}
Failure == [path : PathName, status : {"failed"}]
Success == [path : PathName, status : {"success"},
            size : Content \cup {Missing}, data : Content \cup {Missing}]
Result == Failure \cup Success

With(s, st) == {k \in DOMAIN s : s[k].status = st}

LEMMA AppendCounts ==
  ASSUME NEW s \in Seq(Result), NEW e \in Result, NEW st
  PROVE  /\ Append(s, e) \in Seq(Result)
         /\ Len(Append(s, e)) = Len(s) + 1
         /\ \A k \in DOMAIN s : k \in DOMAIN Append(s, e) /\ Append(s, e)[k] = s[k]
         /\ \A k \in DOMAIN Append(s, e) : k \in DOMAIN s \/ k = Len(s) + 1
         /\ Append(s, e)[Len(s) + 1] = e
         /\ Cardinality(With(s, st)) \in Nat
         /\ Cardinality(With(Append(s, e), st)) =
              IF e.status = st THEN Cardinality(With(s, st)) + 1
                               ELSE Cardinality(With(s, st))
<1> DEFINE t == Append(s, e)
           n == Len(s) + 1
<1>1. /\ t \in Seq(Result) /\ Len(t) = n /\ n \in Nat
      /\ \A k \in 1 .. Len(s) : t[k] = s[k]
      /\ t[n] = e
  OBVIOUS
<1>2. DOMAIN s = 1 .. Len(s) /\ DOMAIN t = 1 .. n /\ Len(s) \in Nat
  BY <1>1
<1>3. n \notin DOMAIN s /\ DOMAIN t = DOMAIN s \cup {n}
  BY <1>2
<1>4. IsFiniteSet(With(s, st))
  <2>1. IsFiniteSet(DOMAIN s)
    BY <1>2, FS_Interval
  <2> QED BY <2>1, FS_Subset DEF With
<1>5. With(t, st) = IF e.status = st THEN With(s, st) \cup {n} ELSE With(s, st)
  BY <1>1, <1>2, <1>3 DEF With
<1>6. n \notin With(s, st)
  BY <1>3 DEF With
<1>7. Cardinality(With(s, st)) \in Nat
  BY <1>4, FS_CardinalityType
<1>8. Cardinality(With(s, st) \cup {n}) = Cardinality(With(s, st)) + 1
  BY <1>4, <1>6, FS_AddElement
<1> QED BY <1>1, <1>2, <1>3, <1>5, <1>7, <1>8

Importing == pc \in {"importStat", "importRead"}

(* Beside ImportFaithful: how far the loop is, and that the file at hand   *)
(* was there when its stat was taken.                                      *)
ImportInv ==
  /\ paths \in Seq(Raw) /\ filesResults \in Seq(Result)
  /\ fileStat \in Content \cup {Missing}
  /\ successCount = Cardinality(With(filesResults, "success"))
  /\ failedCount = Cardinality(With(filesResults, "failed"))
  /\ successCount \in Nat /\ failedCount \in Nat
  /\ successCount + failedCount = Len(filesResults)
  /\ Len(filesResults) <= Len(paths)
  /\ pc \notin {"importStat", "importRead", "returned"} => paths = << >> /\ filesResults = << >>
  /\ pc = "importRead" => /\ Len(filesResults) < Len(paths)
                          /\ fileStat \in Past(PathOf(Current)) \ {Missing}
  /\ pc = "returned" => Len(filesResults) = Len(paths)
  /\ \A k \in DOMAIN filesResults : EntryFaithful(k)

LEMMA SameEntries ==
  ASSUME UNCHANGED <<paths, filesResults>>,
         \A k \in DOMAIN filesResults : EntryFaithful(k),
         \A p : \A x \in Past(p) : x \in Past(p)'
  PROVE  \A k \in DOMAIN filesResults' : EntryFaithful(k)'
BY DEF EntryFaithful

(* One more result, faithful itself, of unchanged files and paths. *)
LEMMA OneMore ==
  ASSUME ImportInv, WayInv, NEW e \in Result,
         Importing, Len(filesResults) < Len(paths),
         UNCHANGED <<files, paths>>,
         filesResults' = Append(filesResults, e),
         successCount' = IF e.status = "success" THEN successCount + 1 ELSE successCount,
         failedCount' = IF e.status = "failed" THEN failedCount + 1 ELSE failedCount,
         pc' = "importStat", UNCHANGED fileStat,
         e.path = PathOf(Current),
         e.status = "success" => /\ e.size \in Past(PathOf(Current)) \ {Missing}
                                 /\ e.data \in Past(PathOf(Current))
                                 /\ Importable(PathOf(Current), e.data),
         e.status = "failed" => \E c \in Past(PathOf(Current)) : ~Importable(PathOf(Current), c)
  PROVE  ImportInv'
<1> DEFINE s == filesResults
<1>1. s \in Seq(Result) /\ Len(s) \in Nat /\ Len(paths) \in Nat
  BY DEF ImportInv
<1>2. /\ s' \in Seq(Result) /\ Len(s') = Len(s) + 1
      /\ \A k \in DOMAIN s : s'[k] = s[k]
      /\ \A k \in DOMAIN s' : k \in DOMAIN s \/ k = Len(s) + 1
      /\ s'[Len(s) + 1] = e
  BY <1>1, AppendCounts
<1>3. \A st : Cardinality(With(s', st)) = IF e.status = st THEN Cardinality(With(s, st)) + 1
                                                          ELSE Cardinality(With(s, st))
  BY <1>1, AppendCounts
<1>4. e.status \in {"success", "failed"}
  BY DEF Result, Success, Failure
<1>5. \A p : Past(p)' = Past(p)
  BY DEF Past, files
<1>6. \A k \in DOMAIN s' : EntryFaithful(k)'
  <2> SUFFICES ASSUME NEW k \in DOMAIN s' PROVE EntryFaithful(k)'
    OBVIOUS
  <2>1. CASE k \in DOMAIN s
    <3>1. EntryFaithful(k)
      BY <2>1 DEF ImportInv
    <3> QED BY <1>2, <1>5, <2>1, <3>1 DEF EntryFaithful
  <2>2. CASE k = Len(s) + 1
    BY <1>2, <1>5, <2>2 DEF EntryFaithful, Current
  <2> QED BY <1>2, <2>1, <2>2
<1>7. /\ successCount' = Cardinality(With(s', "success"))
      /\ failedCount' = Cardinality(With(s', "failed"))
  BY <1>3 DEF ImportInv
<1>8. /\ successCount' \in Nat /\ failedCount' \in Nat
      /\ successCount' + failedCount' = Len(s')
      /\ Len(s') <= Len(paths')
  <2>1. Len(s') <= Len(paths')
    BY <1>1, <1>2
  <2>2. successCount \in Nat /\ failedCount \in Nat /\ successCount + failedCount = Len(s)
    BY DEF ImportInv
  <2>3. CASE e.status = "success"
    <3>1. successCount' = successCount + 1 /\ failedCount' = failedCount
      BY <2>3
    <3> QED BY <1>1, <1>2, <2>1, <2>2, <3>1
  <2>4. CASE e.status = "failed"
    <3>1. successCount' = successCount /\ failedCount' = failedCount + 1
      BY <2>4
    <3> QED BY <1>1, <1>2, <2>1, <2>2, <3>1
  <2> QED BY <1>4, <2>3, <2>4
<1> QED BY <1>2, <1>6, <1>7, <1>8 DEF ImportInv

LEMMA CurrentPath ==
  ASSUME ImportInv, Len(filesResults) < Len(paths)
  PROVE  PathOf(Current) \in PathName
<1>1. Len(filesResults) + 1 \in 1 .. Len(paths)
  BY DEF ImportInv
<1> QED BY <1>1 DEF ImportInv, Current, PathName

LEMMA FileTypes ==
  ASSUME FilesOK, NEW p PROVE At(p) \in Content \cup {Missing}
BY DEF FilesOK, At

LEMMA ImportFails ==
  ASSUME ImportInv, WayInv, Importing, Len(filesResults) < Len(paths), Fails,
         UNCHANGED <<files, paths, fileStat>>, pc' = "importStat",
         ~Importable(PathOf(Current), At(PathOf(Current)))
  PROVE  ImportInv'
<1> DEFINE e == [path |-> PathOf(Current), status |-> "failed"]
<1>1. e \in Result /\ e.status = "failed" /\ e.path = PathOf(Current)
  BY CurrentPath DEF Result, Failure
<1>2. \E c \in Past(PathOf(Current)) : ~Importable(PathOf(Current), c)
  BY NowIsPast DEF WayInv
<1>3. /\ filesResults' = Append(filesResults, e)
      /\ failedCount' = failedCount + 1 /\ successCount' = successCount
  BY DEF Fails
<1> HIDE DEF e
<1> QED BY <1>1, <1>2, <1>3, OneMore

LEMMA ImportSucceeds ==
  ASSUME ImportInv, WayInv, pc = "importRead",
         Succeeds(At(PathOf(Current))),
         UNCHANGED <<files, paths, fileStat>>, pc' = "importStat",
         Importable(PathOf(Current), At(PathOf(Current)))
  PROVE  ImportInv'
<1> DEFINE e == [path |-> PathOf(Current), status |-> "success",
                 size |-> fileStat, data |-> At(PathOf(Current))]
<1>1. Len(filesResults) < Len(paths) /\ fileStat \in Past(PathOf(Current)) \ {Missing}
  BY DEF ImportInv
<1>2. e \in Result
  BY <1>1, CurrentPath, FileTypes DEF Result, Success, ImportInv, WayInv
<1>3. /\ e.path = PathOf(Current) /\ e.status = "success"
      /\ e.size = fileStat /\ e.data = At(PathOf(Current))
  OBVIOUS
<1>4. At(PathOf(Current)) \in Past(PathOf(Current))
  BY NowIsPast DEF WayInv
<1>5. /\ filesResults' = Append(filesResults, e)
      /\ successCount' = successCount + 1 /\ failedCount' = failedCount
  BY DEF Succeeds
<1> HIDE DEF e
<1> QED BY <1>1, <1>2, <1>3, <1>4, <1>5, OneMore DEF Importing

LEMMA ImportStep == ImportInv /\ WayInv /\ [Next]_vars => ImportInv'
<1> SUFFICES ASSUME ImportInv, WayInv, [Next]_vars PROVE ImportInv'
  OBVIOUS
<1>1. CASE ImportStat
  <2>1. CASE isNonEmptyString(Current) /\ Present(At(PathOf(Current)))
    <3>1. /\ fileStat' = At(PathOf(Current)) /\ pc' = "importRead"
          /\ UNCHANGED <<files, paths, results>> /\ Len(filesResults) < Len(paths)
      BY <1>1, <2>1 DEF ImportStat
    <3>2. At(PathOf(Current)) \in (Content \cup {Missing}) /\ At(PathOf(Current)) # Missing
      BY <2>1, FileTypes DEF WayInv, Present
    <3>3. At(PathOf(Current)) \in Past(PathOf(Current))
      BY NowIsPast DEF WayInv
    <3>4. Past(PathOf(Current))' = Past(PathOf(Current))
      BY <3>1 DEF Past, files, Current, results
    <3>5. \A k \in DOMAIN filesResults' : EntryFaithful(k)'
      BY <3>1, SameEntries DEF ImportInv, results, files, Past
    <3> QED BY <3>1, <3>2, <3>3, <3>4, <3>5 DEF ImportInv, results
  <2>2. CASE ~(isNonEmptyString(Current) /\ Present(At(PathOf(Current))))
    <3>1. /\ Fails /\ UNCHANGED <<files, paths, fileStat, pc>>
          /\ pc = "importStat" /\ Len(filesResults) < Len(paths)
      BY <1>1, <2>2 DEF ImportStat
    <3>2. ~Importable(PathOf(Current), At(PathOf(Current)))
      BY <2>2, FileAssumption
      DEF Importable, Readable, Present, isNonEmptyString, PathOf, At
    <3> QED BY <3>1, <3>2, ImportFails DEF Importing
  <2> QED BY <2>1, <2>2
<1>2. CASE ImportRead
  BY <1>2, ImportFails, ImportSucceeds DEF ImportRead, Importing, ImportInv
<1>3. CASE ImportReturns
  <2>1. \A k \in DOMAIN filesResults' : EntryFaithful(k)'
    BY <1>3, SameEntries DEF ImportReturns, ImportInv, results, files, Past
  <2> QED BY <1>3, <2>1 DEF ImportReturns, ImportInv, results
<1>4. CASE ExecuteFileImport
  <2>1. filesResults = << >> /\ UNCHANGED <<results, fileStat>>
    BY <1>4 DEF ExecuteFileImport, Dispatch, ImportInv
  <2>2. /\ paths' \in Seq(Raw) /\ pc' \in {"importStat", "rejected"}
        /\ pc' = "rejected" => paths' = << >>
    BY <1>4 DEF ExecuteFileImport, Dispatch, Goto, ImportInv, WayInv, RequestTyped,
                FileImportTakes, Field
  <2>3. 0 <= Len(paths') /\ Len(filesResults') = 0
    BY <2>1, <2>2 DEF results
  <2>4. \A k \in DOMAIN filesResults' : EntryFaithful(k)'
    BY <2>1 DEF results
  <2>5. /\ filesResults' \in Seq(Result)
        /\ fileStat' \in Content \cup {Missing}
        /\ successCount' = Cardinality(With(filesResults', "success"))
        /\ failedCount' = Cardinality(With(filesResults', "failed"))
        /\ successCount' \in Nat /\ failedCount' \in Nat
        /\ successCount' + failedCount' = Len(filesResults')
    BY <2>1 DEF ImportInv, results
  <2>6. Len(filesResults') <= Len(paths')
    BY <2>3
  <2> QED BY <2>1, <2>2, <2>3, <2>4, <2>5, <2>6 DEF ImportInv, results
<1>5. CASE Validate \/ ExecuteFileRead \/ ReadStat \/ ReadFile \/ ExecuteFormFill
           \/ ExecuteEmail \/ SendMail
  <2>1. /\ UNCHANGED <<paths, results>> /\ fileStat' \in Content \cup {Missing}
        /\ pc' \notin {"importStat", "importRead"}
        /\ pc \notin {"importStat", "importRead", "returned"}
    BY <1>5, FileTypes
    DEF Validate, ExecuteFileRead, ReadStat, ReadFile, ExecuteFormFill, ExecuteEmail,
        SendMail, Goto, NoImport, Dispatch, ImportInv, WayInv
  <2>2. paths = << >> /\ filesResults = << >>
    BY <2>1 DEF ImportInv, results
  <2> QED BY <2>1, <2>2 DEF ImportInv, results
<1>6. CASE DiskChanges
  <2>1. PICK f \in Path, c \in Content \cup {Missing} : FileChanges(f, c)
    BY <1>6 DEF DiskChanges
  <2>2. \A p : \A x \in Past(p) : x \in Past(p)'
    BY <2>1, PastStays DEF WayInv
  <2>3. UNCHANGED <<pc, paths, fileStat, results>>
    BY <2>1 DEF FileChanges
  <2>4. \A k \in DOMAIN filesResults' : EntryFaithful(k)'
    BY <2>2, <2>3, SameEntries DEF ImportInv, results
  <2> QED BY <2>2, <2>3, <2>4 DEF ImportInv, results, Current
<1>7. CASE UNCHANGED vars
  <2>1. \A k \in DOMAIN filesResults' : EntryFaithful(k)'
    BY <1>7, SameEntries DEF vars, importVars, ImportInv, results, files, Past
  <2> QED BY <1>7, <2>1 DEF vars, importVars, files, results, ImportInv, Current, Past
<1> QED BY <1>1, <1>2, <1>3, <1>4, <1>5, <1>6, <1>7 DEF Next, Import

LEMMA ImportAlways == Spec => []ImportInv
<1>1. Init => ImportInv
  <2> SUFFICES ASSUME Init PROVE ImportInv
    OBVIOUS
  <2>1. /\ paths = << >> /\ filesResults = << >> /\ pc = "submitted"
        /\ successCount = 0 /\ failedCount = 0 /\ fileStat = Missing
    BY DEF Init, NothingImported
  <2>2. \A st : Cardinality(With(filesResults, st)) = 0
    BY <2>1, FS_EmptySet DEF With
  <2> QED BY <2>1, <2>2 DEF ImportInv
<1> QED BY <1>1, ImportStep, WayAlways, PTL DEF Spec

(* However many paths there are and however often files come and go while  *)
(* the import is under way, its counts add up, every path has its entry in *)
(* its place, and every entry is true of some moment of the import.        *)
THEOREM ImportsFaithful == Spec => []ImportFaithful
<1>1. ImportInv => ImportFaithful
  BY DEF ImportInv, ImportFaithful, With
<1> QED BY <1>1, ImportAlways, PTL
=============================================================================
