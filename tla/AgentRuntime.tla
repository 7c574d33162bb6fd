---------------------------- MODULE AgentRuntime ----------------------------
(***************************************************************************)
(* The agent runtime: startPolling and the processing of one polled task   *)
(* after another, for the SOL_TRANSFER and JUPITER_TRADER templates.       *)
(*                                                                         *)
(* setInterval starts a tick every POLL_INTERVAL whether or not an earlier *)
(* one still waits for the indexer, so several ticks may be alive; node    *)
(* runs each of them from one await to the next without interruption, and  *)
(* a pc names the await a tick stands at.  The effect of a call and its    *)
(* answer are one step; an effect without an answer is a failing variant   *)
(* of the step, or one followed by Restart.  The indexer's list of pending *)
(* tasks and the status of a TaskRecord are external to the process, which *)
(* keeps nothing on disk.                                                  *)
(***************************************************************************)
EXTENDS Integers, FiniteSets

CONSTANTS
    Ticks,               \* ticks that may be alive at once
    Tasks,               \* tasks assigned to the agent
    NoTask,
    NoHash               \* the output_hash of a task that is not completed

CONSTANTS                \* bounds of the model
    MaxTime,             \* last reading of the clock, in seconds
    MaxPayments          \* payments made for one task

ASSUME RuntimeAssumption ==
    /\ IsFiniteSet(Tasks) /\ NoTask \notin Tasks
    /\ MaxTime \in Nat /\ MaxPayments \in Nat

VARIABLES
    processing,          \* the flag of startPolling
    ticks,               \* tick -> where it is and what it works on
    listed,              \* tasks the indexer returns as pending
    status,              \* task -> status of its TaskRecord
    recorded,            \* task -> output_hash of its TaskRecord
    paid,                \* history: task -> transfers or swaps executed for it
    executed,            \* history: receipts the agent built
    uploads,             \* receipts the indexer accepted
    now                  \* the clock, in seconds

processVars == <<processing, ticks>>
chainVars == <<status, recorded>>
historyVars == <<paid, executed>>

vars == <<processVars, listed, chainVars, historyVars, uploads, now>>

-----------------------------------------------------------------------------
(* Types                                                                    *)

\* The parts of an ExecutionReceipt that differ between executions.
Receipt ==
    [task_id        : Tasks,
     timestamp_unix : 0..MaxTime,
     tx_signature   : 1..MaxPayments]

\* signReceipt serializes with the receipt's own keys as the replacer list,
\* which also filters the keys of the nested objects: execution and result
\* come out empty, and the hash does not depend on the transaction.
OutputHash(receipt) ==
    [task_id |-> receipt.task_id, timestamp_unix |-> receipt.timestamp_unix]

ASSUME HashAssumption == \A r \in Receipt : OutputHash(r) # NoHash

Idle == [pc |-> "idle", batch |-> {}, task |-> NoTask, receipt |-> {}]

\* receipt holds at most one receipt.
TickState ==
    [pc      : {"idle", "fetching", "answered", "deciding", "executing",
                "completing", "patching", "submitting"},
     batch   : SUBSET Tasks,
     task    : Tasks \cup {NoTask},
     receipt : SUBSET Receipt]

TypeOK ==
    /\ processing \in BOOLEAN
    /\ ticks \in [Ticks -> TickState]
    /\ listed \in SUBSET Tasks
    /\ status \in [Tasks -> {"Pending", "Completed", "Challenged"}]
    /\ recorded \in [Tasks -> {OutputHash(r) : r \in Receipt} \cup {NoHash}]
    /\ paid \in [Tasks -> 0..MaxPayments]
    /\ executed \in SUBSET Receipt
    /\ uploads \in SUBSET executed
    /\ now \in 0..MaxTime

Init ==
    /\ processing = FALSE
    /\ ticks = [i \in Ticks |-> Idle]
    /\ listed = Tasks
    /\ status = [t \in Tasks |-> "Pending"]
    /\ recorded = [t \in Tasks |-> NoHash]
    /\ paid = [t \in Tasks |-> 0]
    /\ executed = {}
    /\ uploads = {}
    /\ now = 0

-----------------------------------------------------------------------------
(* One tick                                                                 *)

At(i, pc) == ticks[i].pc = pc

Goto(i, pc) == ticks' = [ticks EXCEPT ![i].pc = pc]

\* The loop over the batch takes up its next task.
BeginTask(i, batch) ==
    \E t \in batch :
      ticks' = [ticks EXCEPT ![i] = [pc |-> "deciding", batch |-> batch \ {t},
                                     task |-> t, receipt |-> {}]]

EndTick(i) == ticks' = [ticks EXCEPT ![i] = Idle]

\* A return from the processing of the current task, successful or not.  The
\* last one ends the tick and clears the flag, also one another tick has set.
Done(i) ==
    \/ BeginTask(i, ticks[i].batch) /\ UNCHANGED processing
    \/ ticks[i].batch = {} /\ EndTick(i) /\ processing' = FALSE

\* The flag is tested here, before the request, and set in Receive, after it.
StartTick(i) ==
    /\ At(i, "idle")
    /\ ~processing
    /\ Goto(i, "fetching")
    /\ UNCHANGED <<processing, listed, chainVars, historyVars, uploads, now>>

\* The indexer answers with the tasks that are pending at that moment.
Serve(i) ==
    /\ At(i, "fetching")
    /\ ticks' = [ticks EXCEPT ![i].pc = "answered", ![i].batch = listed]
    /\ UNCHANGED <<processing, listed, chainVars, historyVars, uploads, now>>

Receive(i) ==
    /\ At(i, "answered")
    /\ \/ BeginTask(i, ticks[i].batch) /\ processing' = TRUE
       \/ ticks[i].batch = {} /\ EndTick(i) /\ UNCHANGED processing
    /\ UNCHANGED <<listed, chainVars, historyVars, uploads, now>>

\* The catch clause clears the flag, whoever holds it.
FetchFail(i) ==
    /\ At(i, "fetching") \/ At(i, "answered")
    /\ EndTick(i)
    /\ processing' = FALSE
    /\ UNCHANGED <<listed, chainVars, historyVars, uploads, now>>

Decide(i) ==
    /\ At(i, "deciding")
    /\ Goto(i, "executing")
    /\ UNCHANGED <<processing, listed, chainVars, historyVars, uploads, now>>

\* SOL_TRANSFER reports a rejection, ignoring errors; JUPITER_TRADER does not.
Reject(i) ==
    /\ At(i, "deciding")
    /\ listed' \in {listed, listed \ {ticks[i].task}}
    /\ Done(i)
    /\ UNCHANGED <<chainVars, historyVars, uploads, now>>

\* The model's answer is unusable, or Jupiter's price is not there yet.
NoDecision(i) ==
    /\ At(i, "deciding")
    /\ Done(i)
    /\ UNCHANGED <<listed, chainVars, historyVars, uploads, now>>

Pay(t) ==
    /\ paid[t] < MaxPayments
    /\ paid' = [paid EXCEPT ![t] = @ + 1]

\* The transfer is confirmed; the receipt is built and signed before the next
\* await.
Execute(i) ==
    /\ At(i, "executing")
    /\ LET t == ticks[i].task
           receipt == [task_id |-> t, timestamp_unix |-> now,
                       tx_signature |-> paid[t] + 1]
       IN  /\ Pay(t)
           /\ executed' = executed \cup {receipt}
           /\ ticks' = [ticks EXCEPT ![i].pc = "completing",
                                     ![i].receipt = {receipt}]
    /\ UNCHANGED <<processing, listed, chainVars, uploads, now>>

ExecuteFailContinued(i) ==               \* mutation: the return is missing
    /\ At(i, "executing")
    /\ ticks' = [ticks EXCEPT
                   ![i].pc = "completing",
                   ![i].receipt = {[task_id |-> ticks[i].task,
                                    timestamp_unix |-> now,
                                    tx_signature |-> 1]}]
    /\ UNCHANGED <<processing, listed, chainVars, historyVars, uploads, now>>

\* The transfer fails, or lands although its confirmation times out.
ExecuteFail(i) ==
    /\ At(i, "executing")
    /\ UNCHANGED paid \/ Pay(ticks[i].task)
    /\ Done(i)
    /\ UNCHANGED <<listed, chainVars, executed, uploads, now>>

\* complete_task takes a task once, and only as long as it is Pending.
CompleteOnChain(i) ==
    /\ status[ticks[i].task] = "Pending"
    /\ status' = [status EXCEPT ![ticks[i].task] = "Completed"]
    /\ \E r \in ticks[i].receipt :
         recorded' = [recorded EXCEPT ![r.task_id] = OutputHash(r)]

Complete(i) ==
    /\ At(i, "completing")
    /\ CompleteOnChain(i)
    /\ Goto(i, "patching")
    /\ UNCHANGED <<processing, listed, historyVars, uploads, now>>

CompleteFailContinued(i) ==              \* mutation: the return is missing
    /\ At(i, "completing")
    /\ UNCHANGED chainVars \/ CompleteOnChain(i)
    /\ Goto(i, "patching")
    /\ UNCHANGED <<processing, listed, historyVars, uploads, now>>

\* The program refuses, the network fails, or the confirmation times out.
CompleteFail(i) ==
    /\ At(i, "completing")
    /\ UNCHANGED chainVars \/ CompleteOnChain(i)
    /\ Done(i)
    /\ UNCHANGED <<listed, historyVars, uploads, now>>

\* PATCH /tasks/:id/complete: whatever the indexer answers, the receipt is
\* uploaded next.
Patch(i) ==
    /\ At(i, "patching")
    /\ listed' \in {listed, listed \ {ticks[i].task}}
    /\ Goto(i, "submitting")
    /\ UNCHANGED <<processing, chainVars, historyVars, uploads, now>>

\* No answer arrives: the receipt stays behind.
PatchFail(i) ==
    /\ At(i, "patching")
    /\ listed' \in {listed, listed \ {ticks[i].task}}
    /\ Done(i)
    /\ UNCHANGED <<chainVars, historyVars, uploads, now>>

\* POST /receipts/upload.
Submit(i) ==
    /\ At(i, "submitting")
    /\ uploads' = uploads \cup ticks[i].receipt
    /\ Done(i)
    /\ UNCHANGED <<listed, chainVars, historyVars, now>>

\* The upload fails, or its answer does not arrive; the task counts as complete
\* all the same.
SubmitFail(i) ==
    /\ At(i, "submitting")
    /\ uploads' \in {uploads, uploads \cup ticks[i].receipt}
    /\ Done(i)
    /\ UNCHANGED <<listed, chainVars, historyVars, now>>

-----------------------------------------------------------------------------
(* Around the ticks                                                         *)

\* SIGINT or a crash, and a restart.
Restart ==
    /\ processing' = FALSE
    /\ ticks' = [i \in Ticks |-> Idle]
    /\ UNCHANGED <<listed, chainVars, historyVars, uploads, now>>

\* The indexer learns from the chain that a task was completed.
IndexerSync(t) ==
    /\ status[t] # "Pending"
    /\ listed' = listed \ {t}
    /\ UNCHANGED <<processVars, chainVars, historyVars, uploads, now>>

FileChallenge(t) ==
    /\ status[t] \in {"Pending", "Completed"}
    /\ status' = [status EXCEPT ![t] = "Challenged"]
    /\ UNCHANGED <<processVars, listed, recorded, historyVars, uploads, now>>

Clock ==
    /\ now < MaxTime
    /\ now' = now + 1
    /\ UNCHANGED <<processVars, listed, chainVars, historyVars, uploads>>

TickNext(i) ==
    \/ StartTick(i) \/ Serve(i) \/ Receive(i) \/ FetchFail(i)
    \/ Decide(i) \/ Reject(i) \/ NoDecision(i)
    \/ Execute(i) \/ ExecuteFail(i)
    \/ Complete(i) \/ CompleteFail(i)
    \/ Patch(i) \/ PatchFail(i)
    \/ Submit(i) \/ SubmitFail(i)

Next ==
    \/ \E i \in Ticks : TickNext(i)
    \/ \E t \in Tasks : IndexerSync(t) \/ FileChallenge(t)
    \/ Restart
    \/ Clock

Spec == Init /\ [][Next]_vars

-----------------------------------------------------------------------------
(* Properties that hold                                                     *)

\* However ticks overlap, calls fail and the process restarts: a task that the
\* chain shows as completed was executed, and the hash on chain is the hash of
\* one of its executions.
CompletedWasExecuted ==
    \A t \in Tasks :
      /\ status[t] = "Completed" => recorded[t] # NoHash
      /\ recorded[t] # NoHash =>
           \E r \in executed : r.task_id = t /\ OutputHash(r) = recorded[t]

\* complete_task lets one execution through, so the indexer never holds two
\* receipts of a task, nor one whose hash is not the hash on chain.
OneReceiptPerTask ==
    \A r \in uploads :
      /\ OutputHash(r) = recorded[r.task_id]
      /\ \A q \in uploads : q.task_id = r.task_id => q = r

-----------------------------------------------------------------------------
(* What a comment states, and the code breaks                               *)

Working(i) == ticks[i].task # NoTask

\* "Skip tick if previous execution is still running.  Prevents overlapping
\* executions of the same task".
NoOverlap ==
    \A i, j \in Ticks :
      i # j /\ Working(i) /\ Working(j) => ticks[i].task # ticks[j].task

=============================================================================
