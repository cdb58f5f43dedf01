------------------------------- MODULE MCForms -------------------------------
(***************************************************************************)
(* Forms for TLC.  one, two and three are clicks with the first generated  *)
(* key, other one with the second, bare ones without a key and typed ones  *)
(* with a key of the user's.                                               *)
(***************************************************************************)
EXTENDS Forms, TLC

CONSTANTS bare, typed, other, key1, key2, word

MCKeyOf == [r \in Task |-> IF r = bare THEN NoKey ELSE IF r = typed THEN word
                           ELSE IF r = other THEN key2 ELSE key1]
MCScheduleAt == [r \in Task |-> 1]
MCWellFormed == [r \in Task |-> TRUE]
MCCronPeriod == [r \in Task |-> 1]
MCMaxRetries == [r \in Task |-> 1]
MCTimeout    == [r \in Task |-> 1]
MCRetryDelay == [r \in Task |-> 1]

ClickSymmetry == Permutations(Task \ {bare, typed, other})
=============================================================================
