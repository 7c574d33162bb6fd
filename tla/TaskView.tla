------------------------------ MODULE TaskView ------------------------------
(***************************************************************************)
(* What a reader of the API may rely on: the status served for a task is   *)
(* one the chain has justified, perhaps an old one, and a task once served *)
(* is not forgotten.  TaskCache implements it.                             *)
(***************************************************************************)
CONSTANT Tasks

VARIABLES
    past,                \* task -> statuses the chain has given it
    served               \* task -> status the API has cached, or "absent"

vars == <<past, served>>

\* TaskStatus of the API, by the status of the TaskRecord.
Served(status) ==
    CASE status = "Pending"                   -> "pending"
      [] status \in {"Completed", "Dismissed"} -> "completed"
      [] status = "Challenged"                -> "disputed"
      [] status = "Slashed"                   -> "failed"

Init ==
    /\ past = [t \in Tasks |-> {}]
    /\ served = [t \in Tasks |-> "absent"]

\* The chain moves on; a TaskRecord never returns to a status.
Advance(t) ==
    /\ \E s \in {"Pending", "Completed", "Challenged", "Dismissed", "Slashed"} :
         s \notin past[t] /\ past' = [past EXCEPT ![t] = @ \cup {s}]
    /\ UNCHANGED served

\* The cache shows any status of the past.
Show(t) ==
    /\ \E s \in past[t] : served' = [served EXCEPT ![t] = Served(s)]
    /\ UNCHANGED past

Next == \E t \in Tasks : Advance(t) \/ Show(t)

Spec == Init /\ [][Next]_vars

=============================================================================
