------------------------- MODULE AdjudicationProofs -------------------------
(***************************************************************************)
(* Proofs about Adjudication, for every set of tasks and wallets.          *)
(***************************************************************************)
EXTENDS Adjudication, TLAPS

\* The disputes are consistent and nobody was slashed against the record.
DisputeInv == TypeOK /\ StatusesAgree /\ InTimeNeverSlashed

-----------------------------------------------------------------------------

\* Initial states are well typed.
LEMMA TypeInit == Init => TypeOK
BY WalletsAssumption, TimeAssumption
DEF Init, TypeOK, NoTask, NoChallenge, TaskRecord, Challenge, TaskStatus,
    ChallengeStatus, FailureType, Time

\* Every instruction writes well-typed accounts.
LEMMA TypeStep == TypeOK /\ [Next]_vars => TypeOK'
<1> SUFFICES ASSUME TypeOK, [Next]_vars PROVE TypeOK'
  OBVIOUS
<1> USE DEF TypeOK, TaskRecord, Challenge
<1>1. ASSUME NEW t \in Tasks, NEW d \in Time, RegisterTask(t, d)
      PROVE  TypeOK'
  BY <1>1 DEF RegisterTask, NoTask, TaskStatus
<1>2. ASSUME NEW t \in Tasks, CompleteTask(t)
      PROVE  TypeOK'
  BY <1>2 DEF CompleteTask, TaskStatus
<1>3. ASSUME NEW t \in Tasks, NEW w \in Wallets, NEW f \in FailureType,
             NEW p \in ProofLengths, FileChallenge(t, w, f, p)
      PROVE  TypeOK'
  BY <1>3 DEF FileChallenge, TaskStatus, ChallengeStatus
<1>4. ASSUME NEW t \in Tasks, SlashAgent(t)
      PROVE  TypeOK'
  BY <1>4 DEF SlashAgent, TaskStatus, ChallengeStatus
<1>5. ASSUME NEW t \in Tasks, DismissChallenge(t)
      PROVE  TypeOK'
  BY <1>5 DEF DismissChallenge, TaskStatus, ChallengeStatus
<1>6. CASE Tick
  BY <1>6, TimeAssumption DEF Tick, Time
<1>7. CASE UNCHANGED vars
  BY <1>7 DEF vars
<1> QED  BY <1>1, <1>2, <1>3, <1>4, <1>5, <1>6, <1>7 DEF Next

\* No dispute is open, and nobody slashed, before the first instruction.
LEMMA DisputeInit == Init => DisputeInv
BY TypeInit
DEF Init, DisputeInv, NoTask, NoChallenge, StatusesAgree, InTimeNeverSlashed

\* Every instruction keeps task and challenge in agreement, and slashes for a
\* missed deadline only a task whose completion is late or missing.
LEMMA DisputeStep == DisputeInv /\ [Next]_vars => DisputeInv'
<1> SUFFICES ASSUME DisputeInv, [Next]_vars PROVE DisputeInv'
  OBVIOUS
<1> USE DEF DisputeInv, StatusesAgree, InTimeNeverSlashed
<1>0. /\ TypeOK'
      /\ tasks \in [Tasks -> TaskRecord] /\ challenges \in [Tasks -> Challenge]
  BY TypeStep DEF TypeOK
<1>1. ASSUME NEW t \in Tasks, NEW d \in Time, RegisterTask(t, d)
      PROVE  DisputeInv'
  BY <1>0, <1>1 DEF RegisterTask, NoTask
<1>2. ASSUME NEW t \in Tasks, CompleteTask(t)
      PROVE  DisputeInv'
  BY <1>0, <1>2 DEF CompleteTask, TaskRecord
<1>3. ASSUME NEW t \in Tasks, NEW w \in Wallets, NEW f \in FailureType,
             NEW p \in ProofLengths, FileChallenge(t, w, f, p)
      PROVE  DisputeInv'
  BY <1>0, <1>3 DEF FileChallenge, Challengeable, TaskRecord, Challenge
<1>4. ASSUME NEW t \in Tasks, SlashAgent(t)
      PROVE  DisputeInv'
  <2>1. StatusesAgree'
    BY <1>0, <1>4 DEF SlashAgent, TaskRecord, Challenge
  <2>2. InTimeNeverSlashed'
    <3> SUFFICES ASSUME NEW u \in Tasks,
                        tasks'[u].status = "Slashed",
                        challenges'[u].failure_type = "MissedDeadline"
                 PROVE  ~ tasks'[u].completed_at \in 0..tasks'[u].deadline
      OBVIOUS
    <3>1. /\ tasks'[u].completed_at = tasks[u].completed_at
          /\ tasks'[u].deadline = tasks[u].deadline
          /\ challenges[u].failure_type = "MissedDeadline"
          /\ u # t => tasks[u].status = "Slashed"
      BY <1>0, <1>4 DEF SlashAgent, TaskRecord, Challenge
    <3>2. CASE u # t
      BY <3>1, <3>2
    <3>3. CASE u = t
      <4>1. Missed(t)
        BY <1>4, <3>1, <3>3 DEF SlashAgent, ValidProof
      <4>2. /\ tasks[t].completed_at \in Time \cup {None}
            /\ tasks[t].deadline \in Time
        BY <1>0 DEF TaskRecord
      <4> QED
        BY <3>1, <3>3, <4>1, <4>2, TimeAssumption DEF Missed, None, Time
    <3> QED  BY <3>2, <3>3
  <2> QED  BY <1>0, <2>1, <2>2
<1>5. ASSUME NEW t \in Tasks, DismissChallenge(t)
      PROVE  DisputeInv'
  BY <1>0, <1>5 DEF DismissChallenge, TaskRecord, Challenge
<1>6. CASE Tick
  BY <1>0, <1>6 DEF Tick
<1>7. CASE UNCHANGED vars
  BY <1>0, <1>7 DEF vars
<1> QED  BY <1>1, <1>2, <1>3, <1>4, <1>5, <1>6, <1>7 DEF Next

\* Both accounts of every dispute are always well typed.
THEOREM TypeCorrect == Spec => []TypeOK
<1>1. DisputeInv => TypeOK
  BY DEF DisputeInv
<1> QED  BY <1>1, DisputeInit, DisputeStep, PTL DEF Spec

\* The status of a task and that of its challenge, which different instructions
\* look at, tell the same story.
THEOREM StatusesCorrect == Spec => []StatusesAgree
<1>1. DisputeInv => StatusesAgree
  BY DEF DisputeInv
<1> QED  BY <1>1, DisputeInit, DisputeStep, PTL DEF Spec

\* No agent that completed by its deadline is slashed for missing it.
THEOREM DisputeCorrect == Spec => []InTimeNeverSlashed
<1>1. DisputeInv => InTimeNeverSlashed
  BY DEF DisputeInv
<1> QED  BY <1>1, DisputeInit, DisputeStep, PTL DEF Spec

\* A verdict is final: the agreement of the two statuses is what keeps the
\* instructions that look only at the task from touching a judged challenge.
THEOREM VerdictCorrect == Spec => VerdictIsFinal
<1> DEFINE Final == \A t \in Tasks :
                      challenges[t].status \in {"Resolved", "Dismissed"}
                        => /\ tasks'[t] = tasks[t]
                           /\ challenges'[t] = challenges[t]
<1>1. DisputeInv /\ [Next]_vars => [Final]_vars
  <2> SUFFICES ASSUME DisputeInv, Next, NEW t \in Tasks,
                      challenges[t].status \in {"Resolved", "Dismissed"}
               PROVE  tasks'[t] = tasks[t] /\ challenges'[t] = challenges[t]
    OBVIOUS
  <2>0. /\ tasks \in [Tasks -> TaskRecord] /\ challenges \in [Tasks -> Challenge]
        /\ tasks[t].status \in {"Slashed", "Dismissed"}
    BY DEF DisputeInv, TypeOK, StatusesAgree
  <2>1. ASSUME NEW u \in Tasks, NEW d \in Time, RegisterTask(u, d)
        PROVE  u # t /\ tasks'[t] = tasks[t] /\ challenges'[t] = challenges[t]
    BY <2>0, <2>1 DEF RegisterTask
  <2>2. ASSUME NEW u \in Tasks, CompleteTask(u)
        PROVE  u # t /\ tasks'[t] = tasks[t] /\ challenges'[t] = challenges[t]
    BY <2>0, <2>2 DEF CompleteTask
  <2>3. ASSUME NEW u \in Tasks, NEW w \in Wallets, NEW f \in FailureType,
               NEW p \in ProofLengths, FileChallenge(u, w, f, p)
        PROVE  u # t /\ tasks'[t] = tasks[t] /\ challenges'[t] = challenges[t]
    BY <2>0, <2>3 DEF FileChallenge, Challengeable
  <2>4. ASSUME NEW u \in Tasks, SlashAgent(u) \/ DismissChallenge(u)
        PROVE  u # t /\ tasks'[t] = tasks[t] /\ challenges'[t] = challenges[t]
    BY <2>0, <2>4 DEF SlashAgent, DismissChallenge
  <2>5. CASE Tick
    BY <2>5 DEF Tick
  <2> QED  BY <2>1, <2>2, <2>3, <2>4, <2>5 DEF Next
<1>2. Init => DisputeInv
  BY DisputeInit
<1>3. DisputeInv /\ [Next]_vars => DisputeInv'
  BY DisputeStep
<1> QED  BY <1>1, <1>2, <1>3, PTL DEF Spec, VerdictIsFinal

-----------------------------------------------------------------------------
(* Adjudication implements Dispute                                          *)

\* What lets a late completion never be dismissed: no task was completed after
\* the reading of the clock, so the deadline it missed has passed.
CompletionsArePast ==
    \A t \in Tasks :
      /\ tasks[t].status \in {"Unregistered", "Pending"}
           => tasks[t].completed_at = None
      /\ tasks[t].completed_at <= now

EvidenceInv == TypeOK /\ StatusesAgree /\ CompletionsArePast

\* Nothing is completed before the first instruction.
LEMMA CompletionsInit == Init => CompletionsArePast
<1> SUFFICES ASSUME Init, NEW t \in Tasks
             PROVE  tasks[t].completed_at = None /\ tasks[t].completed_at <= now
  BY DEF CompletionsArePast
<1>1. tasks[t] = NoTask /\ now = 0
  BY DEF Init
<1>2. tasks[t].completed_at = None
  BY <1>1 DEF NoTask
<1> QED  BY <1>1, <1>2 DEF None

\* A completion is entered with the reading of the clock, and time goes forward.
LEMMA CompletionsStep ==
  TypeOK /\ CompletionsArePast /\ [Next]_vars => CompletionsArePast'
<1> SUFFICES ASSUME TypeOK, CompletionsArePast, [Next]_vars
             PROVE  CompletionsArePast'
  OBVIOUS
<1>0. now \in Nat /\ tasks \in [Tasks -> TaskRecord]
  BY TimeAssumption DEF TypeOK, Time
<1> SUFFICES ASSUME NEW u \in Tasks
             PROVE  /\ tasks'[u].status \in {"Unregistered", "Pending"}
                         => tasks'[u].completed_at = None
                    /\ tasks'[u].completed_at <= now'
  BY DEF CompletionsArePast
<1>a. /\ tasks[u].status \in {"Unregistered", "Pending"}
           => tasks[u].completed_at = None
      /\ tasks[u].completed_at <= now /\ tasks[u].completed_at \in Int
  BY <1>0, TimeAssumption DEF CompletionsArePast, TaskRecord, Time, None
<1> DEFINE Kept == /\ tasks'[u].status \in {"Unregistered", "Pending"}
                        => tasks'[u].completed_at = None
                   /\ tasks'[u].completed_at <= now'
<1>1. ASSUME NEW t \in Tasks, NEW d \in Time, RegisterTask(t, d)
      PROVE  Kept
  BY <1>0, <1>a, <1>1 DEF RegisterTask, NoTask, None
<1>2. ASSUME NEW t \in Tasks, CompleteTask(t)
      PROVE  Kept
  BY <1>0, <1>a, <1>2 DEF CompleteTask, TaskRecord
<1>3. ASSUME NEW t \in Tasks, NEW w \in Wallets, NEW f \in FailureType,
             NEW p \in ProofLengths, FileChallenge(t, w, f, p)
      PROVE  Kept
  BY <1>0, <1>a, <1>3 DEF FileChallenge, TaskRecord
<1>4. ASSUME NEW t \in Tasks, SlashAgent(t) \/ DismissChallenge(t)
      PROVE  Kept
  BY <1>0, <1>a, <1>4 DEF SlashAgent, DismissChallenge, TaskRecord
<1>5. CASE Tick
  BY <1>0, <1>a, <1>5 DEF Tick
<1>6. CASE UNCHANGED vars
  BY <1>a, <1>6 DEF vars
<1> QED  BY <1>1, <1>2, <1>3, <1>4, <1>5, <1>6 DEF Next

\* What Dispute sees of the work on a task.
LEMMA SeenWork ==
  ASSUME NEW k \in TaskRecord
  PROVE  /\ WorkOf(k) \in {"unassigned", "due", "in time", "late"}
         /\ WorkOf(k) = "unassigned" <=> k.status = "Unregistered"
         /\ WorkOf(k) = "due" <=> k.status # "Unregistered" /\ k.completed_at = None
         /\ WorkOf(k) = "late" <=> /\ k.status # "Unregistered"
                                  /\ k.completed_at > k.deadline
<1> DEFINE done == k.completed_at
<1>1. done \in Nat \cup {None} /\ k.deadline \in Nat
  BY TimeAssumption DEF TaskRecord, Time
<1>2. CASE k.status = "Unregistered"
  <2>1. WorkOf(k) = "unassigned"
    BY <1>2 DEF WorkOf
  <2> QED  BY <1>2, <2>1
<1>3. CASE k.status # "Unregistered" /\ done = None
  <2>1. ~ done \in 0..k.deadline /\ ~ done > k.deadline
    BY <1>1, <1>3 DEF None
  <2>2. WorkOf(k) = "due"
    BY <1>3, <2>1 DEF WorkOf
  <2> QED  BY <1>3, <2>1, <2>2
<1>4. CASE k.status # "Unregistered" /\ done \in 0..k.deadline
  <2>1. done # None /\ ~ done > k.deadline
    BY <1>1, <1>4 DEF None
  <2>2. WorkOf(k) = "in time"
    BY <1>4, <2>1 DEF WorkOf
  <2> QED  BY <1>4, <2>1, <2>2
<1>5. CASE k.status # "Unregistered" /\ done > k.deadline
  <2>1. done # None /\ ~ done \in 0..k.deadline
    BY <1>1, <1>5 DEF None
  <2>2. WorkOf(k) = "late"
    BY <1>5, <2>1 DEF WorkOf
  <2> QED  BY <1>5, <2>1, <2>2
<1>6. done = None \/ done \in 0..k.deadline \/ done > k.deadline
  BY <1>1
<1> QED  BY <1>2, <1>3, <1>4, <1>5, <1>6

\* What Dispute sees of a challenge.
LEMMA SeenDispute ==
  ASSUME NEW c \in Challenge
  PROVE  /\ DisputeOf(c) = "none" <=> c.status = "Unfiled"
         /\ DisputeOf(c) = "open" <=> c.status = "Filed"
         /\ DisputeOf(c) = "upheld" <=> c.status = "Resolved"
         /\ DisputeOf(c) = "dismissed" <=> c.status = "Dismissed"
<1>1. c.status \in ChallengeStatus
  BY DEF Challenge
<1> QED  BY <1>1 DEF ChallengeStatus, DisputeOf

\* What the challenger holds against the agent.
LEMMA SeenClaim ==
  ASSUME NEW c \in Challenge, c.status # "Unfiled"
  PROVE  /\ ClaimOf(c) \in D!Claims
         /\ ClaimOf(c) = "missed deadline" <=> c.failure_type = "MissedDeadline"
         /\ ClaimOf(c) = "shown"
              <=> c.failure_type = "OutOfScopeCall" /\ c.has_proof
         /\ ClaimOf(c) = "not shown"
              <=> c.failure_type = "OutOfScopeCall" /\ ~c.has_proof
<1>1. c.failure_type \in FailureType /\ c.has_proof \in BOOLEAN
  BY DEF Challenge
<1> QED  BY <1>1 DEF FailureType, ClaimOf, D!Claims

\* Before the first instruction nothing is assigned or disputed.
LEMMA InitMaps == Init => D!Init
<1> SUFFICES ASSUME Init PROVE D!Init
  OBVIOUS
<1>1. WorkOf(NoTask) = "unassigned"
  BY DEF WorkOf, NoTask
<1>2. DisputeOf(NoChallenge) = "none" /\ ClaimOf(NoChallenge) = "none"
  BY DEF DisputeOf, ClaimOf, NoChallenge
<1> QED
  BY <1>1, <1>2 DEF Init, D!Init, WorkDone, DisputeState, ClaimMade

\* What both paths of auto_adjudicate do to the two accounts.
Verdict(t, taskStatus, challengeStatus) ==
    /\ challenges[t].status = "Filed"
    /\ challenges' = [challenges EXCEPT ![t].status = challengeStatus]
    /\ tasks' = [tasks EXCEPT ![t].status = taskStatus]

\* A verdict ends the dispute and touches neither work nor claim.
LEMMA VerdictMaps ==
  ASSUME EvidenceInv, NEW t \in Tasks,
         NEW ts \in {"Slashed", "Dismissed"},
         NEW cs \in {"Resolved", "Dismissed"}, Verdict(t, ts, cs)
  PROVE  /\ UNCHANGED <<WorkDone, ClaimMade>>
         /\ DisputeState[t] = "open"
         /\ cs = "Resolved" =>
              DisputeState' = [DisputeState EXCEPT ![t] = "upheld"]
         /\ cs = "Dismissed" =>
              DisputeState' = [DisputeState EXCEPT ![t] = "dismissed"]
<1>0. /\ tasks \in [Tasks -> TaskRecord] /\ challenges \in [Tasks -> Challenge]
  BY DEF EvidenceInv, TypeOK
<1>1. tasks[t].status = "Challenged" /\ challenges[t].status = "Filed"
  BY DEF Verdict, EvidenceInv, StatusesAgree
<1>2. PICK k \in TaskRecord :
        /\ k.status = ts /\ tasks' = [tasks EXCEPT ![t] = k]
        /\ k.completed_at = tasks[t].completed_at
        /\ k.deadline = tasks[t].deadline
  <2> DEFINE x == [tasks[t] EXCEPT !.status = ts]
  <2>1. /\ x \in TaskRecord /\ x.status = ts
        /\ x.completed_at = tasks[t].completed_at
        /\ x.deadline = tasks[t].deadline
    BY <1>0 DEF TaskRecord, TaskStatus
  <2>2. tasks' = [tasks EXCEPT ![t] = x]
    BY <1>0 DEF Verdict
  <2> HIDE DEF x
  <2> QED  BY <2>1, <2>2
<1>3. PICK c \in Challenge :
        /\ c.status = cs /\ challenges' = [challenges EXCEPT ![t] = c]
        /\ c.failure_type = challenges[t].failure_type
        /\ c.has_proof = challenges[t].has_proof
  <2> DEFINE x == [challenges[t] EXCEPT !.status = cs]
  <2>1. /\ x \in Challenge /\ x.status = cs
        /\ x.failure_type = challenges[t].failure_type
        /\ x.has_proof = challenges[t].has_proof
    BY <1>0 DEF Challenge, ChallengeStatus
  <2>2. challenges' = [challenges EXCEPT ![t] = x]
    BY <1>0 DEF Verdict
  <2> HIDE DEF x
  <2> QED  BY <2>1, <2>2
<1>4. WorkOf(k) = WorkOf(tasks[t])
  <2>1. k.status # "Unregistered" /\ tasks[t].status # "Unregistered"
    BY <1>1, <1>2
  <2> QED  BY <1>0, <1>2, <2>1, SeenWork DEF WorkOf
<1>5. ClaimOf(c) = ClaimOf(challenges[t])
  BY <1>1, <1>3 DEF ClaimOf
<1>6. /\ DisputeOf(challenges[t]) = "open"
      /\ cs = "Resolved" => DisputeOf(c) = "upheld"
      /\ cs = "Dismissed" => DisputeOf(c) = "dismissed"
  BY <1>0, <1>1, <1>3, SeenDispute
<1> QED
  BY <1>0, <1>2, <1>3, <1>4, <1>5, <1>6 DEF WorkDone, DisputeState, ClaimMade

\* What valid_proof establishes is a ground of Dispute.
LEMMA EvidenceUpholds ==
  ASSUME EvidenceInv, NEW t \in Tasks,
         challenges[t].status = "Filed", ValidProof(t)
  PROVE  D!MayUphold(t)
<1>1. tasks[t] \in TaskRecord /\ challenges[t] \in Challenge
  BY DEF EvidenceInv, TypeOK
<1>2. tasks[t].status = "Challenged"
  BY DEF EvidenceInv, StatusesAgree
<1>3. CASE challenges[t].failure_type = "MissedDeadline" /\ Missed(t)
  <2>1. WorkOf(tasks[t]) \in {"due", "late"}
    BY <1>1, <1>2, <1>3, SeenWork DEF Missed
  <2>2. ClaimOf(challenges[t]) = "missed deadline"
    BY <1>1, <1>3, SeenClaim
  <2> QED  BY <2>1, <2>2 DEF D!MayUphold, WorkDone, ClaimMade
<1>4. CASE challenges[t].failure_type = "OutOfScopeCall" /\ challenges[t].has_proof
  <2>1. ClaimOf(challenges[t]) = "shown"
    BY <1>1, <1>4, SeenClaim
  <2> QED  BY <2>1 DEF D!MayUphold, ClaimMade
<1> QED  BY <1>3, <1>4 DEF ValidProof

\* Where it establishes nothing, Dispute has a ground to dismiss: a late
\* completion is older than the verdict, so its deadline has passed.
LEMMA EvidenceDismisses ==
  ASSUME EvidenceInv, NEW t \in Tasks,
         challenges[t].status = "Filed", ~ValidProof(t)
  PROVE  D!MayDismiss(t)
<1>1. /\ tasks[t] \in TaskRecord /\ challenges[t] \in Challenge
      /\ tasks[t].status = "Challenged"
  BY DEF EvidenceInv, TypeOK, StatusesAgree
<1>2. CASE challenges[t].failure_type = "MissedDeadline"
  <2>1. ~Missed(t)
    BY <1>2 DEF ValidProof
  <2>2. ~ tasks[t].completed_at > tasks[t].deadline
    <3>1. /\ tasks[t].completed_at <= now /\ tasks[t].completed_at \in Int
          /\ tasks[t].deadline \in Int /\ now \in Int
      BY <1>1, TimeAssumption DEF EvidenceInv, CompletionsArePast, TypeOK, TaskRecord,
           Time, None
    <3> QED  BY <2>1, <3>1 DEF Missed
  <2>3. WorkOf(tasks[t]) \in {"due", "in time"}
    BY <1>1, <2>2, SeenWork
  <2>4. ClaimOf(challenges[t]) = "missed deadline"
    BY <1>1, <1>2, SeenClaim
  <2> QED  BY <2>3, <2>4 DEF D!MayDismiss, WorkDone, ClaimMade
<1>3. CASE challenges[t].failure_type = "OutOfScopeCall"
  <2>1. ~challenges[t].has_proof
    BY <1>3 DEF ValidProof
  <2>2. ClaimOf(challenges[t]) = "not shown"
    BY <1>1, <1>3, <2>1, SeenClaim
  <2> QED  BY <2>2 DEF D!MayDismiss, ClaimMade
<1> QED  BY <1>1, <1>2, <1>3 DEF Challenge, FailureType

\* register_task assigns a task that was not.
LEMMA AssignMaps ==
  ASSUME EvidenceInv, NEW t \in Tasks, NEW d \in Time, RegisterTask(t, d)
  PROVE  D!Assign(t)
<1> USE DEF WorkDone, DisputeState, ClaimMade
<1>0. /\ tasks \in [Tasks -> TaskRecord] /\ challenges \in [Tasks -> Challenge]
      /\ StatusesAgree
  BY DEF EvidenceInv, TypeOK
<1>1. PICK k \in TaskRecord :
        /\ k.status = "Pending" /\ k.completed_at = None
        /\ tasks' = [tasks EXCEPT ![t] = k]
  <2> DEFINE x == [NoTask EXCEPT !.status = "Pending", !.deadline = d]
  <2>1. x \in TaskRecord /\ x.status = "Pending" /\ x.completed_at = None
    BY TimeAssumption DEF NoTask, TaskRecord, TaskStatus, Time
  <2>2. tasks' = [tasks EXCEPT ![t] = x]
    BY DEF RegisterTask
  <2> HIDE DEF x
  <2> QED  BY <2>1, <2>2
<1>2. WorkOf(tasks[t]) = "unassigned" /\ WorkOf(k) = "due"
  BY <1>0, <1>1, SeenWork DEF RegisterTask
<1>3. UNCHANGED challenges
  BY DEF RegisterTask
<1> QED  BY <1>0, <1>1, <1>2, <1>3 DEF D!Assign

\* complete_task delivers a task that is due and not in dispute.
LEMMA DeliverMaps ==
  ASSUME EvidenceInv, NEW t \in Tasks, CompleteTask(t)
  PROVE  D!Deliver(t)
<1> USE DEF WorkDone, DisputeState, ClaimMade
<1>0. /\ tasks \in [Tasks -> TaskRecord] /\ challenges \in [Tasks -> Challenge]
      /\ StatusesAgree
  BY DEF EvidenceInv, TypeOK
<1>1. /\ tasks[t].status = "Pending" /\ tasks[t].completed_at = None
      /\ challenges[t].status = "Unfiled" /\ now \in Nat
  BY <1>0, TimeAssumption
  DEF CompleteTask, StatusesAgree, Challenge, ChallengeStatus, EvidenceInv,
      CompletionsArePast, TypeOK, Time
<1>2. PICK k \in TaskRecord :
        /\ k.status = "Completed" /\ k.completed_at = now
        /\ tasks' = [tasks EXCEPT ![t] = k]
  <2> DEFINE x == [tasks[t] EXCEPT !.status = "Completed", !.completed_at = now]
  <2>1. x \in TaskRecord /\ x.status = "Completed" /\ x.completed_at = now
    BY <1>0 DEF EvidenceInv, TypeOK, TaskRecord, TaskStatus
  <2>2. tasks' = [tasks EXCEPT ![t] = x]
    BY <1>0 DEF CompleteTask
  <2> HIDE DEF x
  <2> QED  BY <2>1, <2>2
<1>3. WorkOf(tasks[t]) = "due" /\ DisputeOf(challenges[t]) = "none"
  BY <1>0, <1>1, SeenWork, SeenDispute
<1>4. WorkOf(k) \in {"in time", "late"}
  <2>1. k.status # "Unregistered" /\ k.completed_at # None
    BY <1>1, <1>2 DEF None
  <2> QED  BY <2>1, SeenWork
<1>5. UNCHANGED challenges
  BY DEF CompleteTask
<1> QED  BY <1>0, <1>2, <1>3, <1>4, <1>5 DEF D!Deliver

\* file_challenge opens the only dispute a task will have.
LEMMA OpenMaps ==
  ASSUME EvidenceInv, NEW t \in Tasks, NEW w \in Wallets, NEW f \in FailureType,
         NEW p \in ProofLengths, FileChallenge(t, w, f, p)
  PROVE  D!Open(t)
<1> USE DEF WorkDone, DisputeState, ClaimMade
<1>0. /\ tasks \in [Tasks -> TaskRecord] /\ challenges \in [Tasks -> Challenge]
      /\ StatusesAgree
  BY DEF EvidenceInv, TypeOK
<1>1. /\ tasks[t].status \in {"Pending", "Completed"}
      /\ challenges[t].status = "Unfiled"
  BY <1>0
  DEF FileChallenge, Challengeable, StatusesAgree, Challenge, ChallengeStatus
<1>2. PICK c \in Challenge :
        c.status = "Filed" /\ challenges' = [challenges EXCEPT ![t] = c]
  <2> DEFINE x == [status |-> "Filed", challenger |-> w, failure_type |-> f,
                   has_proof |-> p > 0, filed_at |-> now]
  <2>1. x \in Challenge /\ x.status = "Filed"
    BY DEF EvidenceInv, TypeOK, Challenge, ChallengeStatus
  <2>2. challenges' = [challenges EXCEPT ![t] = x]
    BY DEF FileChallenge
  <2> HIDE DEF x
  <2> QED  BY <2>1, <2>2
<1>3. PICK k \in TaskRecord :
        /\ k.status # "Unregistered" /\ tasks' = [tasks EXCEPT ![t] = k]
        /\ k.completed_at = tasks[t].completed_at
        /\ k.deadline = tasks[t].deadline
  <2> DEFINE x == [tasks[t] EXCEPT !.status = "Challenged"]
  <2>1. /\ x \in TaskRecord /\ x.status # "Unregistered"
        /\ x.completed_at = tasks[t].completed_at
        /\ x.deadline = tasks[t].deadline
    BY <1>0 DEF TaskRecord, TaskStatus
  <2>2. tasks' = [tasks EXCEPT ![t] = x]
    BY <1>0 DEF FileChallenge
  <2> HIDE DEF x
  <2> QED  BY <2>1, <2>2
<1>4. WorkOf(k) = WorkOf(tasks[t]) /\ WorkOf(k) # "unassigned"
  BY <1>0, <1>1, <1>3, SeenWork DEF WorkOf
<1>5. /\ DisputeOf(challenges[t]) = "none" /\ DisputeOf(c) = "open"
      /\ ClaimOf(c) \in D!Claims
  BY <1>0, <1>1, <1>2, SeenDispute, SeenClaim
<1>6. UNCHANGED WorkDone
  BY <1>0, <1>3, <1>4
<1>7. DisputeState[t] = "none" /\ WorkDone[t] # "unassigned"
  BY <1>4, <1>5
<1>8. DisputeState' = [DisputeState EXCEPT ![t] = "open"]
  BY <1>0, <1>2, <1>5
<1>9. \E x \in D!Claims : ClaimMade' = [ClaimMade EXCEPT ![t] = x]
  BY <1>0, <1>2, <1>5
<1> HIDE DEF WorkDone, DisputeState, ClaimMade
<1> QED  BY <1>6, <1>7, <1>8, <1>9 DEF D!Open

\* The first path of auto_adjudicate upholds.
LEMMA UpholdMaps ==
  ASSUME EvidenceInv, NEW t \in Tasks, SlashAgent(t)
  PROVE  D!Uphold(t)
<1>1. Verdict(t, "Slashed", "Resolved")
  BY DEF SlashAgent, Verdict
<1>2. /\ UNCHANGED <<WorkDone, ClaimMade>> /\ DisputeState[t] = "open"
      /\ DisputeState' = [DisputeState EXCEPT ![t] = "upheld"]
  BY <1>1, VerdictMaps
<1>3. D!MayUphold(t)
  BY EvidenceUpholds DEF SlashAgent
<1> QED  BY <1>2, <1>3 DEF D!Uphold

\* The second one dismisses.
LEMMA DismissMaps ==
  ASSUME EvidenceInv, NEW t \in Tasks, DismissChallenge(t)
  PROVE  D!Dismiss(t)
<1>1. Verdict(t, "Dismissed", "Dismissed")
  BY DEF DismissChallenge, Verdict
<1>2. /\ UNCHANGED <<WorkDone, ClaimMade>> /\ DisputeState[t] = "open"
      /\ DisputeState' = [DisputeState EXCEPT ![t] = "dismissed"]
  BY <1>1, VerdictMaps
<1>3. D!MayDismiss(t)
  BY EvidenceDismisses DEF DismissChallenge
<1> QED  BY <1>2, <1>3 DEF D!Dismiss

\* Every instruction is a step of Dispute, or one that Dispute does not see.
LEMMA StepMaps == EvidenceInv /\ [Next]_vars => [D!Next]_D!vars
<1> SUFFICES ASSUME EvidenceInv, [Next]_vars PROVE [D!Next]_D!vars
  OBVIOUS
<1>1. CASE Tick \/ UNCHANGED vars
  BY <1>1 DEF Tick, vars, D!vars, WorkDone, DisputeState, ClaimMade
<1>2. CASE ~Tick /\ ~UNCHANGED vars
  <2>1. \E t \in Tasks :
          D!Assign(t) \/ D!Deliver(t) \/ D!Open(t) \/ D!Uphold(t) \/ D!Dismiss(t)
    BY <1>2, AssignMaps, DeliverMaps, OpenMaps, UpholdMaps, DismissMaps DEF Next
  <2> QED  BY <2>1 DEF D!Next
<1> QED  BY <1>1, <1>2

\* Adjudication keeps the promise of Dispute: one dispute of a task, one verdict,
\* on the work and the claim as they were when it was opened.
THEOREM JudgesCorrect == Spec => JudgesDisputes
<1>1. Init => DisputeInv /\ CompletionsArePast
  BY DisputeInit, CompletionsInit
<1>2. /\ DisputeInv /\ CompletionsArePast /\ [Next]_vars
           => DisputeInv' /\ CompletionsArePast'
      /\ DisputeInv /\ CompletionsArePast => EvidenceInv
  BY DisputeStep, CompletionsStep DEF DisputeInv, EvidenceInv
<1> QED
  BY <1>1, <1>2, InitMaps, StepMaps, PTL DEF Spec, JudgesDisputes, D!Spec

=============================================================================
