------------------------------ MODULE Lifecycle ------------------------------
(***************************************************************************)
(* What the engine promises about one task, without scans, nodes, leases   *)
(* or statements: a task is claimed, the attempt ends in one of three ways *)
(* and maxRetries bounds the attempts of one occurrence.  It is the state  *)
(* diagram of docs/architecture.md, section 4, with the statuses that the  *)
(* code writes.                                                            *)
(*                                                                         *)
(* The promise has one exception, and it is explicit: a task may become    *)
(* contested, and nothing is promised of it from then on.  Scheduler says  *)
(* exactly when that happens.                                              *)
(***************************************************************************)
EXTENDS Integers

CONSTANTS
  Task,
  Recurring,    \* the tasks with a cron expression
  MaxRetries    \* [Task -> Nat]

VARIABLES status, attempts, contested

vars == <<status, attempts, contested>>

Init ==
  /\ status = [t \in Task |-> "PENDING"]
  /\ attempts = [t \in Task |-> 0]
  /\ contested = {}

Becomes(t, st, n) ==
  /\ status' = [status EXCEPT ![t] = st]
  /\ attempts' = [attempts EXCEPT ![t] = n]
  /\ UNCHANGED contested

Claim(t) ==
  /\ status[t] \in {"PENDING", "RETRYING"}
  /\ Becomes(t, "RUNNING", attempts[t] + 1)

Succeed(t) ==
  /\ status[t] = "RUNNING"
  /\ IF t \in Recurring THEN Becomes(t, "PENDING", 0)
                        ELSE Becomes(t, "SUCCESS", attempts[t])

(* The attempt failed, timed out, or was abandoned by its node. *)
Fail(t) ==
  /\ status[t] = "RUNNING"
  /\ IF attempts[t] <= MaxRetries[t] THEN Becomes(t, "RETRYING", attempts[t])
     ELSE IF t \in Recurring         THEN Becomes(t, "PENDING", 0)
                                     ELSE Becomes(t, "FAILED", attempts[t])

Cancel(t) ==
  /\ status[t] \in {"PENDING", "RETRYING"}
  /\ Becomes(t, "CANCELED", attempts[t])

(* Two parties settle the task, or have done so before. *)
Contest(t) ==
  /\ contested' = contested \cup {t}
  /\ status' = [status EXCEPT ![t] = status'[t]]
  /\ attempts' = [attempts EXCEPT ![t] = attempts'[t]]

Next == \E t \in Task :
          Claim(t) \/ Succeed(t) \/ Fail(t) \/ Cancel(t) \/ Contest(t)

Spec == Init /\ [][Next]_vars
=============================================================================
