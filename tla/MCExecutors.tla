---------------------------- MODULE MCExecutors ----------------------------
(***************************************************************************)
(* Executors with FormFill for TLC: the requests and files of its run.     *)
(***************************************************************************)
EXTENDS Executors, FormFill

Text(x) == [text |-> x]
NamedFile == <<Text("a.json")>>
PlainFile == <<Text("b")>>
MCPath == {NamedFile, PlainFile}
MCJsonPath == {NamedFile}

Request(kind, fields) == [type |-> kind, payload |-> Obj(fields)]

(* Strings and what may stand in their place. *)
Strings == {Str(<< >>), Str(<<Blank>>), Str(NamedFile), Str(<<Blank>> \o PlainFile)}
AnyValue == Strings \cup {Undefined, Null, Scalar}
Lists == {Arr(<< >>), Undefined, Str(NamedFile), Obj([x |-> Str(PlainFile)])}
         \cup {Arr(<<x>>) : x \in AnyValue}
         \cup {Arr(<<Str(NamedFile), x>>) : x \in AnyValue}

Reads == {Request("FILE_READ", [path |-> x]) : x \in AnyValue}
Imports == {Request("FILE_IMPORT", [paths |-> x]) : x \in Lists}
Mails == {Request("EMAIL", [to |-> x, subject |-> y, body |-> Str(PlainFile)]) :
            x \in Lists, y \in AnyValue}
         \cup {Request("EMAIL", [to |-> Arr(<<Str(NamedFile)>>), subject |-> Str(NamedFile),
                                 body |-> x]) : x \in AnyValue}

(* Placeholders that name a field, a nested one, none, and one below an    *)
(* array; data that contains placeholders itself.                          *)
Holes == {Hole(<<"x">>), Hole(<<"y", "x">>), Hole(<<"z">>)}
Values == {Null, Scalar, Str(<<Text("v")>>), Str(<<Hole(<<"x">>)>>), Arr(<<Scalar>>)}
Data == {Obj([x |-> v]) : v \in Values}
        \cup {Obj([x |-> v, y |-> Obj([x |-> w])]) : v \in Values, w \in Values}
        \cup {Obj([y |-> Arr(<<v>>)]) : v \in Values}
Leaves == {Null, Scalar, Str(<< >>), Str(<<Text("t")>>)}
          \cup {Str(<<h>>) : h \in Holes}
          \cup {Str(<<h, Text("t")>>) : h \in Holes}
          \cup {Str(<<Text("t"), h, g>>) : h \in Holes, g \in Holes}
Templates == {Obj([a |-> u]) : u \in Leaves}
             \cup {Obj([a |-> Arr(<<u, Obj([b |-> u])>>), b |-> Obj(<< >>)]) : u \in Leaves}
Fills == {Request("FORM_FILL", [template |-> t, data |-> d]) : t \in Templates, d \in Data}
         \cup {Request("FORM_FILL", [template |-> x, data |-> y]) :
                 x \in {Undefined, Null, Arr(<< >>), Obj(<< >>)},
                 y \in {Undefined, Null, Arr(<< >>), Obj(<< >>)}}

MCInputs == Reads \cup Imports \cup Mails \cup Fills

-----------------------------------------------------------------------------
(* The filled template has the shape of the template; each lone            *)
(* placeholder has become the value of that name, with its type.  A longer *)
(* string is, piece by piece and in order, its own text and the text of    *)
(* the values it names: nothing is dropped, and nothing that the data      *)
(* brings in is filled again.                                              *)
FilledAsAsked ==
  pc = "returned" /\ type = "FORM_FILL" =>
    FilledAsReferred(Field("template"), Field("data"), result)
=============================================================================
