---------------------------- MODULE Adjudication ----------------------------
(***************************************************************************)
(* The dolores_adjudication program: the TaskRecord and the Challenge of   *)
(* every task of one agent.  file_challenge and auto_adjudicate also call  *)
(* dolores_fund and dolores_registry; Protocol adds those calls, which     *)
(* succeed or abort together with the writes made here.                    *)
(***************************************************************************)
EXTENDS Integers

CONSTANTS
    Tasks,               \* task ids
    Agent,               \* the wallet the tasks are assigned to
    Wallets,             \* wallets that may file a challenge
    ProofLengths,        \* lengths of proof_data callers pass
    MaxTime              \* bound of the model: last reading of the clock

ASSUME WalletsAssumption == Agent \in Wallets

ASSUME TimeAssumption == MaxTime \in Nat /\ ProofLengths \subseteq Nat

VARIABLES
    tasks,               \* task id -> TaskRecord
    challenges,          \* task id -> Challenge
    now                  \* Clock::unix_timestamp

vars == <<tasks, challenges, now>>

-----------------------------------------------------------------------------
(* Types                                                                    *)

Time == 0..MaxTime

\* Option::None of completed_at, and the time of what has not happened.
None == -1

TaskStatus == {"Unregistered", "Pending", "Completed", "Challenged", "Slashed",
               "Dismissed"}

ChallengeStatus == {"Unfiled", "Filed", "Resolved", "Dismissed"}

FailureType == {"MissedDeadline", "OutOfScopeCall"}

TaskRecord ==
    [status       : TaskStatus,
     deadline     : Time,
     completed_at : Time \cup {None}]

Challenge ==
    [status       : ChallengeStatus,
     challenger   : Wallets,
     failure_type : FailureType,
     has_proof    : BOOLEAN,
     filed_at     : Time \cup {None}]

TypeOK ==
    /\ tasks \in [Tasks -> TaskRecord]
    /\ challenges \in [Tasks -> Challenge]
    /\ now \in Time

-----------------------------------------------------------------------------
(* Initial state                                                            *)

NoTask == [status |-> "Unregistered", deadline |-> 0, completed_at |-> None]

NoChallenge ==
    [status |-> "Unfiled", challenger |-> Agent,
     failure_type |-> "MissedDeadline", has_proof |-> FALSE, filed_at |-> None]

Init ==
    /\ tasks = [t \in Tasks |-> NoTask]
    /\ challenges = [t \in Tasks |-> NoChallenge]
    /\ now = 0

-----------------------------------------------------------------------------
(* Instructions                                                             *)

\* The task PDA is created by `init`: one record per agent and task id.
RegisterTask(t, deadline) ==
    /\ tasks[t].status = "Unregistered"
    /\ deadline > now
    /\ tasks' = [tasks EXCEPT ![t] = [NoTask EXCEPT !.status = "Pending",
                                                    !.deadline = deadline]]
    /\ UNCHANGED <<challenges, now>>

\* The agent may complete late; the record then shows it.
CompleteTask(t) ==
    /\ tasks[t].status = "Pending"
    /\ tasks' = [tasks EXCEPT ![t].status = "Completed",
                              ![t].completed_at = now]
    /\ UNCHANGED <<challenges, now>>

Challengeable(t) == tasks[t].status \in {"Pending", "Completed"}

\* The challenge PDA is created by `init`, so there is one challenge per task.
FileChallenge(t, challenger, failure, proofLength) ==
    /\ challenges[t].status = "Unfiled"
    /\ proofLength <= 1024
    /\ Challengeable(t)
    /\ challenger # Agent
    /\ challenges' = [challenges EXCEPT
                        ![t] = [status       |-> "Filed",
                                challenger   |-> challenger,
                                failure_type |-> failure,
                                has_proof    |-> proofLength > 0,
                                filed_at     |-> now]]
    /\ tasks' = [tasks EXCEPT ![t].status = "Challenged"]
    /\ UNCHANGED now

MissedWithoutCompletion(t) ==            \* mutation: completed_at not consulted
    now > tasks[t].deadline

MissedUnlessCompleted(t) ==              \* mutation: a late completion is one
    /\ tasks[t].completed_at = None
    /\ now > tasks[t].deadline

Missed(t) ==
    /\ \/ tasks[t].completed_at = None
       \/ tasks[t].completed_at > tasks[t].deadline
    /\ now > tasks[t].deadline

ValidProof(t) ==
    \/ challenges[t].failure_type = "MissedDeadline" /\ Missed(t)
    \/ challenges[t].failure_type = "OutOfScopeCall" /\ challenges[t].has_proof

SlashAgentAgain(t) ==                    \* mutation: no require on the status
    /\ challenges[t].status # "Unfiled"
    /\ ValidProof(t)
    /\ challenges' = [challenges EXCEPT ![t].status = "Resolved"]
    /\ tasks' = [tasks EXCEPT ![t].status = "Slashed"]
    /\ UNCHANGED now

\* The two paths of auto_adjudicate; anyone may call it, at any time after the
\* challenge was filed.
SlashAgent(t) ==
    /\ challenges[t].status = "Filed"
    /\ ValidProof(t)
    /\ challenges' = [challenges EXCEPT ![t].status = "Resolved"]
    /\ tasks' = [tasks EXCEPT ![t].status = "Slashed"]
    /\ UNCHANGED now

DismissChallengeOnly(t) ==               \* mutation: the task keeps its status
    /\ challenges[t].status = "Filed"
    /\ ~ValidProof(t)
    /\ challenges' = [challenges EXCEPT ![t].status = "Dismissed"]
    /\ UNCHANGED <<tasks, now>>

DismissChallenge(t) ==
    /\ challenges[t].status = "Filed"
    /\ ~ValidProof(t)
    /\ challenges' = [challenges EXCEPT ![t].status = "Dismissed"]
    /\ tasks' = [tasks EXCEPT ![t].status = "Dismissed"]
    /\ UNCHANGED now

Tick ==
    /\ now < MaxTime
    /\ now' = now + 1
    /\ UNCHANGED <<tasks, challenges>>

Next ==
    \/ \E t \in Tasks, d \in Time : RegisterTask(t, d)
    \/ \E t \in Tasks : CompleteTask(t)
    \/ \E t \in Tasks, w \in Wallets, f \in FailureType, p \in ProofLengths :
         FileChallenge(t, w, f, p)
    \/ \E t \in Tasks : SlashAgent(t)
    \/ \E t \in Tasks : DismissChallenge(t)
    \/ Tick

Spec == Init /\ [][Next]_vars

-----------------------------------------------------------------------------
(* What Dispute sees of the two accounts                                    *)

WorkOf(task) ==
    IF task.status = "Unregistered" THEN "unassigned"
    ELSE CASE task.completed_at = None               -> "due"
           [] task.completed_at \in 0..task.deadline -> "in time"
           [] task.completed_at > task.deadline      -> "late"

DisputeOf(challenge) ==
    CASE challenge.status = "Unfiled"   -> "none"
      [] challenge.status = "Filed"     -> "open"
      [] challenge.status = "Resolved"  -> "upheld"
      [] challenge.status = "Dismissed" -> "dismissed"

ClaimOf(challenge) ==
    IF challenge.status = "Unfiled" THEN "none"
    ELSE IF challenge.failure_type = "MissedDeadline" THEN "missed deadline"
    ELSE IF challenge.has_proof THEN "shown" ELSE "not shown"

WorkDone == [t \in Tasks |-> WorkOf(tasks[t])]

DisputeState == [t \in Tasks |-> DisputeOf(challenges[t])]

ClaimMade == [t \in Tasks |-> ClaimOf(challenges[t])]

D == INSTANCE Dispute
       WITH work <- WorkDone, dispute <- DisputeState, claim <- ClaimMade

-----------------------------------------------------------------------------
(* Properties that hold                                                     *)

\* Task and challenge are two accounts, each with a status of its own, written
\* by three instructions: they never tell different stories about a dispute.
StatusesAgree ==
    \A t \in Tasks :
      /\ tasks[t].status = "Challenged" <=> challenges[t].status = "Filed"
      /\ tasks[t].status = "Slashed" <=> challenges[t].status = "Resolved"
      /\ tasks[t].status = "Dismissed" <=> challenges[t].status = "Dismissed"

\* A completion by the deadline is a complete defence against MissedDeadline,
\* whatever happens to the task between completion and verdict.
InTimeNeverSlashed ==
    \A t \in Tasks :
      /\ tasks[t].status = "Slashed"
      /\ challenges[t].failure_type = "MissedDeadline"
      => ~ tasks[t].completed_at \in 0..tasks[t].deadline

\* A task is judged once: after a verdict neither account changes, so no task
\* slashes its agent twice and no dismissed challenge comes back.
VerdictIsFinal ==
    [][\A t \in Tasks :
         challenges[t].status \in {"Resolved", "Dismissed"}
           => /\ tasks'[t] = tasks[t]
              /\ challenges'[t] = challenges[t]]_vars

\* Deadlines, completions and challenges race, and the verdict reads a clock that
\* has moved on since.  Still each dispute is opened once and decided on the
\* evidence at its opening: a completion in time is never slashed, one that was
\* late is never let off, and nothing is completed to answer a challenge.
JudgesDisputes == D!Spec

-----------------------------------------------------------------------------
(* Properties the documents state, and the code breaks                      *)

\* "Locks the deadline on-chain - ground truth for challenge resolution": an
\* agent slashed for never completing had until the deadline to complete.
FullTermBeforeSlash ==
    \A t \in Tasks :
      /\ tasks[t].status = "Slashed"
      /\ challenges[t].failure_type = "MissedDeadline"
      /\ tasks[t].completed_at = None
      => challenges[t].filed_at > tasks[t].deadline

=============================================================================
