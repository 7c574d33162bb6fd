------------------------------ MODULE Dispute -------------------------------
(***************************************************************************)
(* What adjudication promises an agent and those who challenge it, without *)
(* clocks and accounts: a task can be disputed once it is assigned, only   *)
(* once, and at most one verdict follows, on the evidence as it was when   *)
(* the dispute was opened.  Adjudication implements it.                    *)
(***************************************************************************)
CONSTANT Tasks

VARIABLES
    work,                \* task -> what the agent has done about it
    dispute,             \* task -> how far its dispute has come
    claim                \* task -> what the challenger holds against the agent

vars == <<work, dispute, claim>>

Work == {"unassigned", "due", "in time", "late"}

\* A breach of the agent's scope is shown by what the challenger hands in, or not.
Claims == {"missed deadline", "shown", "not shown"}

Init ==
    /\ work = [t \in Tasks |-> "unassigned"]
    /\ dispute = [t \in Tasks |-> "none"]
    /\ claim = [t \in Tasks |-> "none"]

-----------------------------------------------------------------------------

Assign(t) ==
    /\ work[t] = "unassigned"
    /\ work' = [work EXCEPT ![t] = "due"]
    /\ UNCHANGED <<dispute, claim>>

\* Nothing is delivered once the task is in dispute.
Deliver(t) ==
    /\ work[t] = "due" /\ dispute[t] = "none"
    /\ \E w \in {"in time", "late"} : work' = [work EXCEPT ![t] = w]
    /\ UNCHANGED <<dispute, claim>>

Open(t) ==
    /\ work[t] # "unassigned" /\ dispute[t] = "none"
    /\ dispute' = [dispute EXCEPT ![t] = "open"]
    /\ \E c \in Claims : claim' = [claim EXCEPT ![t] = c]
    /\ UNCHANGED work

\* Of a task that is still due, time decides whether the deadline was missed.
MayUphold(t) ==
    \/ claim[t] = "shown"
    \/ claim[t] = "missed deadline" /\ work[t] \in {"due", "late"}

MayDismiss(t) ==
    \/ claim[t] = "not shown"
    \/ claim[t] = "missed deadline" /\ work[t] \in {"due", "in time"}

Uphold(t) ==
    /\ dispute[t] = "open" /\ MayUphold(t)
    /\ dispute' = [dispute EXCEPT ![t] = "upheld"]
    /\ UNCHANGED <<work, claim>>

Dismiss(t) ==
    /\ dispute[t] = "open" /\ MayDismiss(t)
    /\ dispute' = [dispute EXCEPT ![t] = "dismissed"]
    /\ UNCHANGED <<work, claim>>

-----------------------------------------------------------------------------

Next ==
    \E t \in Tasks :
      Assign(t) \/ Deliver(t) \/ Open(t) \/ Uphold(t) \/ Dismiss(t)

Spec == Init /\ [][Next]_vars

=============================================================================
