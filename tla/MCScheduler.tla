----------------------------- MODULE MCScheduler -----------------------------
(***************************************************************************)
(* Scheduler for TLC: the columns of the tasks, and symmetry.  The kinds   *)
(* of task are chosen by model value: once is a ONCE task, cron a CRON     *)
(* task; the clock of node fast is ahead of the others.                    *)
(***************************************************************************)
EXTENDS Scheduler, TLC

CONSTANTS once, cron, Retries, OnceTimeout, CronTimeout, DelayOf,
          fast, Ahead

MCScheduleAt == [t \in Task |-> IF t = cron THEN NoTime ELSE 1]
MCCronPeriod == [t \in Task |-> 2]
MCMaxRetries == [t \in Task |-> Retries]
MCTimeout    == [t \in Task |-> IF t = cron THEN CronTimeout ELSE OnceTimeout]
MCRetryDelay == [t \in Task |-> DelayOf]
MCSkew       == [n \in Node |-> IF n = fast THEN Ahead ELSE 0]

NodeSymmetry == Permutations(Node)
ScanSymmetry == {p @@ q : p \in Permutations(Node), q \in Permutations(Slot)}
=============================================================================
