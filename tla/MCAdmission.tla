----------------------------- MODULE MCAdmission -----------------------------
(***************************************************************************)
(* Admission for TLC.  first and again are a POST and its repetition: one  *)
(* ONCE task under one key.  blank, a cron task, carries the empty key.    *)
(* A request that is not well formed takes the way of one that is late.    *)
(***************************************************************************)
EXTENDS Admission, TLC

CONSTANTS first, again, blank, key

MCKeyOf      == [r \in Task |-> IF r = blank THEN EmptyKey ELSE key]
MCScheduleAt == [r \in Task |-> IF r = blank THEN NoTime ELSE 1]
MCWellFormed == [r \in Task |-> TRUE]
MCCronPeriod == [r \in Task |-> 1]
MCMaxRetries == [r \in Task |-> 1]
MCTimeout    == [r \in Task |-> 1]
MCRetryDelay == [r \in Task |-> 1]

ClientSymmetry == {p @@ q : p \in Permutations({first, again}), q \in Permutations(Scan)}
=============================================================================
