------------------------------ MODULE FormFill ------------------------------
(***************************************************************************)
(* The template filling of form-fill.executor.ts.  A placeholder is the    *)
(* piece [hole |-> path], path being its name split at the dots; both      *)
(* notations, {{a.b}} and ${a.b}, are one.  [json |-> v] is v stringified. *)
(***************************************************************************)
EXTENDS Payload, SequencesExt

Hole(path) == [hole |-> path]
IsHole(piece) == "hole" \in DOMAIN piece

(* The walk stops at anything that is no plain object, an array included. *)
getValueByPath(obj, path) ==
  FoldLeft(LAMBDA current, part :
             IF current.is = "object" THEN Get(current, part) ELSE Undefined,
           obj, path)

(* Mutant: null is taken for undefined. *)
AsTextNullish(v) ==
  CASE v.is \in {"undefined", "null"} -> << >>
    [] v.is = "string" -> v.of
    [] v.is \in {"object", "array"} -> <<[json |-> v]>>
    [] OTHER -> <<[text |-> v.is]>>

(* What a value becomes inside a longer string. *)
AsText(v) ==
  CASE v.is = "undefined" -> << >>
    [] v.is = "string" -> v.of
    [] v.is \in {"object", "array"} -> <<[json |-> v]>>
    [] OTHER -> <<[text |-> v.is]>>       \* String(v), of null for one

SinglePlaceholder(s) == Len(s) = 1 /\ IsHole(s[1])

FillString(s, data) ==
  IF SinglePlaceholder(s)
  THEN LET resolved == getValueByPath(data, s[1].hole) IN
       IF resolved.is = "undefined" THEN Str(<< >>) ELSE resolved
  ELSE Str(FlattenSeq([i \in DOMAIN s |->
             IF IsHole(s[i]) THEN AsText(getValueByPath(data, s[i].hole))
                             ELSE <<s[i]>>]))

RECURSIVE fillTemplate(_, _)
fillTemplate(template, data) ==
  CASE template.is = "array" ->
         Arr([i \in DOMAIN template.items |-> fillTemplate(template.items[i], data)])
    [] template.is = "object" ->
         Obj([k \in DOMAIN template.fields |-> fillTemplate(template.fields[k], data)])
    [] template.is = "string" -> FillString(template.of, data)
    [] OTHER -> template

-----------------------------------------------------------------------------
(* The reference: values by position.  A position is a sequence of keys,   *)
(* those of an array being its indices as strings.                         *)

Children(v) ==
  CASE v.is = "object" -> v.fields
    [] v.is = "array"  -> [k \in {ToString(i) : i \in DOMAIN v.items} |->
                             v.items[CHOOSE i \in DOMAIN v.items : ToString(i) = k]]
    [] OTHER -> << >>

RECURSIVE Tree(_)
(* All <<position, value>> of a value and its parts. *)
Tree(v) == {<< << >>, v >>} \cup
           UNION {{<< <<k>> \o node[1], node[2] >> : node \in Tree(Children(v)[k])} :
                    k \in DOMAIN Children(v)}

(* A name finds what stands at it with nothing but objects above. *)
Named(data, path) ==
  {node[2] : node \in {m \in Tree(data) :
     /\ m[1] = path
     /\ \A above \in Tree(data) :
          IsStrictPrefix(above[1], path) => above[2].is = "object"}}

(* A string of the data is written as it is, its placeholders included,    *)
(* and an absent value as nothing.                                         *)
WrittenAs(v, text) ==
  \/ v.is = "string" /\ text = v.of
  \/ v.is \in {"object", "array"} /\ text = <<[json |-> v]>>
  \/ v.is \in {"number", "null"} /\ text = <<[text |-> v.is]>>

BecomesText(piece, data, text) ==
  IF IsHole(piece)
  THEN LET found == Named(data, piece.hole) IN
       \/ found = {} /\ text = << >>
       \/ \E v \in found : WrittenAs(v, text)
  ELSE text = <<piece>>

(* The result can be cut into what each piece of the string has become.    *)
BecomesPieceByPiece(s, data, text) ==
  \E cut \in [0 .. Len(s) -> 0 .. Len(text)] :
     /\ cut[0] = 0 /\ cut[Len(s)] = Len(text)
     /\ \A i \in DOMAIN s :
          /\ cut[i - 1] <= cut[i]
          /\ BecomesText(s[i], data, SubSeq(text, cut[i - 1] + 1, cut[i]))

(* What stands at a position of the filled template, in terms of what      *)
(* stood there before.                                                     *)
FilledAt(before, after, data) ==
  CASE before.is \in {"object", "array"} ->
         after.is = before.is /\ DOMAIN Children(after) = DOMAIN Children(before)
    [] before.is = "string" /\ Len(before.of) = 1 /\ IsHole(before.of[1]) ->
         LET found == Named(data, before.of[1].hole) IN
         after \in IF found = {} THEN {Str(<< >>)} ELSE found
    [] before.is = "string" /\ ~(Len(before.of) = 1 /\ IsHole(before.of[1])) ->
         after.is = "string" /\ BecomesPieceByPiece(before.of, data, after.of)
    [] OTHER -> after = before

FilledAsReferred(template, data, filled) ==
  \A before \in Tree(template) :
    \E after \in Tree(filled) :
       after[1] = before[1] /\ FilledAt(before[2], after[2], data)
=============================================================================
