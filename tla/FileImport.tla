----------------------------- MODULE FileImport -----------------------------
(***************************************************************************)
(* The loop of file-import.executor.ts: for each path a stat, a read and a *)
(* parse, with an await before each of the first two, during which the     *)
(* files may change.  A failure of one file is recorded and the loop goes  *)
(* on.  What is in a file is an element of Content; sizes and parsed rows  *)
(* are left out: a size is named by the content it was taken of.           *)
(***************************************************************************)
EXTENDS Payload

CONSTANTS
  Raw,           \* bound: what stands in the arrays of paths
  Path,          \* bound: the paths that may have a file, trimmed
  JsonPath,      \* those that end in .json, in any case
  Content,
  Json,          \* the contents that parse as JSON
  Unreadable,    \* what stat finds and readFile refuses: a directory
  Missing,
  Changes        \* bound: how often files change

ASSUME FileAssumption ==
  /\ JsonPath \subseteq Path
  /\ << >> \notin Path           \* no file has the empty name
  /\ Json \subseteq Content
  /\ Unreadable \in Content \ Json
  /\ Missing \notin Content
  /\ Changes \in Nat

VARIABLES
  disk,          \* [Path -> Content \cup {Missing}]
  changes,
  seen,          \* history: what each path has held since the start
  pc,
  paths,         \* payload.paths
  fileStat,      \* the content the last stat was of
  filesResults, successCount, failedCount

files == <<disk, changes, seen>>
results == <<filesResults, successCount, failedCount>>
importVars == <<files, pc, paths, fileStat, results>>

Present(c) == c # Missing
Readable(c) == c \notin {Missing, Unreadable}
(* .json must parse; .csv and everything else takes any text. *)
Parses(path, c) == path \in JsonPath => c \in Json
Importable(path, c) == Readable(c) /\ Parses(path, c)

At(path) == IF path \in Path THEN disk[path] ELSE Missing
Past(path) == IF path \in Path THEN seen[path] ELSE {Missing}

FilesInit ==
  /\ disk \in [Path -> Content \cup {Missing}]
  /\ changes = 0
  /\ seen = [f \in Path |-> {disk[f]}]

NothingImported ==
  /\ fileStat = Missing
  /\ filesResults = << >> /\ successCount = 0 /\ failedCount = 0

(* Somebody writes, replaces or removes a file. *)
FileChanges(f, c) ==
  /\ changes < Changes /\ c # disk[f]
  /\ disk' = [disk EXCEPT ![f] = c]
  /\ changes' = changes + 1
  /\ seen' = [seen EXCEPT ![f] = @ \cup {c}]
  /\ UNCHANGED <<pc, paths, fileStat, results>>

Current == paths[Len(filesResults) + 1]
PathOf(raw) == IF raw.is = "string" THEN Trim(raw.of) ELSE << >>

Fails ==
  /\ filesResults' = Append(filesResults, [path |-> PathOf(Current), status |-> "failed"])
  /\ failedCount' = failedCount + 1
  /\ UNCHANGED successCount

Succeeds(content) ==
  /\ filesResults' = Append(filesResults, [path |-> PathOf(Current), status |-> "success",
                                           size |-> fileStat, data |-> content])
  /\ successCount' = successCount + 1
  /\ UNCHANGED failedCount

(* The head of the loop and the stat.  A path that is no text is recorded  *)
(* as failed.                                                              *)
ImportStat ==
  /\ pc = "importStat" /\ Len(filesResults) < Len(paths)
  /\ LET found == At(PathOf(Current)) IN
     IF isNonEmptyString(Current) /\ Present(found)
     THEN fileStat' = found /\ pc' = "importRead" /\ UNCHANGED results
     ELSE Fails /\ UNCHANGED <<fileStat, pc>>
  /\ UNCHANGED <<files, paths>>

(* Mutant: the failure of a read is not counted. *)
ImportReadSilently ==
  /\ pc = "importRead"
  /\ LET content == At(PathOf(Current)) IN
     IF Importable(PathOf(Current), content) THEN Succeeds(content)
     ELSE /\ filesResults' = Append(filesResults, [path |-> PathOf(Current), status |-> "failed"])
          /\ UNCHANGED <<successCount, failedCount>>
  /\ pc' = "importStat"
  /\ UNCHANGED <<files, paths, fileStat>>

ImportRead ==
  /\ pc = "importRead"
  /\ LET content == At(PathOf(Current)) IN
     IF Importable(PathOf(Current), content) THEN Succeeds(content) ELSE Fails
  /\ pc' = "importStat"
  /\ UNCHANGED <<files, paths, fileStat>>

ImportReturns ==
  /\ pc = "importStat" /\ Len(filesResults) = Len(paths)
  /\ pc' = "returned"
  /\ UNCHANGED <<files, paths, fileStat, results>>

-----------------------------------------------------------------------------
EntryFaithful(k) ==
  LET path == PathOf(paths[k])
      entry == filesResults[k]
  IN /\ entry.path = path
     /\ entry.status = "success" => /\ entry.size \in Past(path) \ {Missing}
                                    /\ entry.data \in Past(path)
                                    /\ Importable(path, entry.data)
     /\ entry.status = "failed" => \E c \in Past(path) : ~Importable(path, c)

(* The result accounts for every path in its place, and each entry for     *)
(* itself: a success carries what the file was in some moment of the       *)
(* import and could be parsed, a failure is of a file that was missing,    *)
(* unreadable or malformed in some moment.  One file's failure does not    *)
(* show in another's entry.  (Size and data need not be of one moment.)    *)
ImportFaithful ==
  /\ successCount = Cardinality({k \in DOMAIN filesResults :
                                   filesResults[k].status = "success"})
  /\ failedCount = Cardinality({k \in DOMAIN filesResults :
                                  filesResults[k].status = "failed"})
  /\ \A k \in DOMAIN filesResults : EntryFaithful(k)
  /\ pc = "returned" /\ paths # << >> => successCount + failedCount = Len(paths)
=============================================================================
