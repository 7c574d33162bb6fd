-------------------------- MODULE AgentRuntimeProofs --------------------------
(***************************************************************************)
(* Ticks may overlap, fail and die: what chain and indexer hold about a    *)
(* task is one of its executions, and the same one.                        *)
(***************************************************************************)
EXTENDS AgentRuntime, TLAPS

-----------------------------------------------------------------------------
(* The inductive invariant                                                  *)

Busy(s) == s.pc \in {"deciding", "executing", "completing", "patching", "submitting"}

\* A tick that works has a task, and once it has executed it the receipt.
TickInv ==
    \A i \in Ticks :
      /\ Busy(ticks[i]) => ticks[i].task \in Tasks
      /\ ticks[i].pc \in {"completing", "patching", "submitting"} =>
           \E r \in executed : ticks[i].receipt = {r} /\ r.task_id = ticks[i].task

\* Whoever has come through complete_task is alone with its task from there
\* until the receipt is uploaded: complete_task takes a task once.
Through(i) == At(i, "patching") \/ At(i, "submitting")

AloneInv ==
    /\ \A i \in Ticks : Through(i) =>
         /\ status[ticks[i].task] # "Pending"
         /\ \A r \in ticks[i].receipt : OutputHash(r) = recorded[ticks[i].task]
         /\ \A r \in uploads : r.task_id # ticks[i].task
    /\ \A i, j \in Ticks :
         Through(i) /\ Through(j) /\ ticks[i].task = ticks[j].task => i = j
    /\ \A r \in uploads : status[r.task_id] # "Pending"

RuntimeInv ==
    TypeOK /\ TickInv /\ AloneInv /\ CompletedWasExecuted /\ OneReceiptPerTask

\* One tick moves to s, which has nothing in hand yet.
Lands(i, s) ==
    /\ s \in TickState
    /\ s.pc \notin {"completing", "patching", "submitting"}
    /\ Busy(s) => s.task \in Tasks
    /\ ticks' = [ticks EXCEPT ![i] = s]

-----------------------------------------------------------------------------
(* Where a tick goes                                                        *)

LEMMA IdleIsState == Idle \in TickState
  BY DEF Idle, TickState

\* A return takes up the next task or ends the tick.
LEMMA DoneLands ==
    ASSUME NEW i \in Ticks, TypeOK, Done(i)
    PROVE  (\E s : Lands(i, s)) /\ processing' \in BOOLEAN
<1>1. ticks[i] \in TickState /\ processing \in BOOLEAN
  BY DEF TypeOK
<1>2. CASE BeginTask(i, ticks[i].batch) /\ UNCHANGED processing
  <2>1. PICK t \in ticks[i].batch :
          ticks' = [ticks EXCEPT ![i] = [pc |-> "deciding", batch |-> ticks[i].batch \ {t},
                                         task |-> t, receipt |-> {}]]
    BY <1>2 DEF BeginTask
  <2> QED  BY <1>1, <1>2, <2>1 DEF Lands, TickState, Busy
<1>3. CASE EndTick(i) /\ processing' = FALSE
  BY <1>3, IdleIsState DEF EndTick, Lands, Idle, Busy
<1> QED  BY <1>2, <1>3 DEF Done

\* Steps of a tick that touch neither chain, receipts nor uploads.
Calm(i) ==
    \/ StartTick(i) \/ Serve(i) \/ Receive(i) \/ FetchFail(i)
    \/ Decide(i) \/ Reject(i) \/ NoDecision(i) \/ ExecuteFail(i) \/ PatchFail(i)

LEMMA CalmLands ==
    ASSUME NEW i \in Ticks, TypeOK, TickInv, Calm(i)
    PROVE  /\ \E s : Lands(i, s)
           /\ processing' \in BOOLEAN /\ listed' \in SUBSET Tasks
           /\ UNCHANGED <<chainVars, executed, uploads, now>>
<1>1. /\ ticks \in [Ticks -> TickState] /\ ticks[i] \in TickState
      /\ processing \in BOOLEAN /\ listed \in SUBSET Tasks
  BY DEF TypeOK
<1>2. CASE StartTick(i)
  <2>1. Lands(i, [ticks[i] EXCEPT !.pc = "fetching"])
    BY <1>1, <1>2 DEF StartTick, Goto, Lands, TickState, Busy
  <2> QED  BY <1>1, <1>2, <2>1 DEF StartTick, historyVars
<1>3. CASE Serve(i)
  <2>1. Lands(i, [ticks[i] EXCEPT !.pc = "answered", !.batch = listed])
    BY <1>1, <1>3 DEF Serve, Lands, TickState, Busy
  <2> QED  BY <1>1, <1>3, <2>1 DEF Serve, historyVars
<1>4. CASE Receive(i)
  <2>1. CASE BeginTask(i, ticks[i].batch) /\ processing' = TRUE
    <3>1. PICK t \in ticks[i].batch :
            ticks' = [ticks EXCEPT ![i] = [pc |-> "deciding", batch |-> ticks[i].batch \ {t},
                                           task |-> t, receipt |-> {}]]
      BY <2>1 DEF BeginTask
    <3>2. \E s : Lands(i, s)
      BY <1>1, <3>1 DEF Lands, TickState, Busy
    <3> QED  BY <1>1, <1>4, <2>1, <3>2 DEF Receive, historyVars
  <2>2. CASE EndTick(i) /\ UNCHANGED processing
    <3>1. Lands(i, Idle)
      BY <2>2, IdleIsState DEF EndTick, Lands, Idle, Busy
    <3> QED  BY <1>1, <1>4, <2>2, <3>1 DEF Receive, historyVars
  <2> QED  BY <1>4, <2>1, <2>2 DEF Receive
<1>5. CASE FetchFail(i)
  <2>1. Lands(i, Idle)
    BY <1>5, IdleIsState DEF FetchFail, EndTick, Lands, Idle, Busy
  <2> QED  BY <1>1, <1>5, <2>1 DEF FetchFail, historyVars
<1>6. CASE Decide(i)
  <2>1. ticks[i].task \in Tasks
    BY <1>6 DEF Decide, At, TickInv, Busy
  <2>2. Lands(i, [ticks[i] EXCEPT !.pc = "executing"])
    BY <1>1, <1>6, <2>1 DEF Decide, Goto, Lands, TickState, Busy
  <2> QED  BY <1>1, <1>6, <2>2 DEF Decide, historyVars
<1>7. CASE Reject(i)
  BY <1>1, <1>7, DoneLands DEF Reject, historyVars
<1>8. CASE NoDecision(i)
  BY <1>1, <1>8, DoneLands DEF NoDecision, historyVars
<1>9. CASE ExecuteFail(i)
  BY <1>1, <1>9, DoneLands DEF ExecuteFail
<1>10. CASE PatchFail(i)
  BY <1>1, <1>10, DoneLands DEF PatchFail, historyVars
<1> QED  BY <1>2, <1>3, <1>4, <1>5, <1>6, <1>7, <1>8, <1>9, <1>10 DEF Calm

\* A payment keeps to its bound.
LEMMA PayTyped ==
    ASSUME NEW t \in Tasks, TypeOK, Pay(t)
    PROVE  /\ paid[t] + 1 \in 1..MaxPayments
           /\ paid' \in [Tasks -> 0..MaxPayments]
  BY RuntimeAssumption DEF TypeOK, Pay

\* A tick that lands with nothing in hand, while chain and receipts stay.
LEMMA LandsKeeps ==
    ASSUME NEW i \in Ticks, NEW s, RuntimeInv, Lands(i, s),
           UNCHANGED <<chainVars, executed, uploads>>
    PROVE  /\ ticks' \in [Ticks -> TickState]
           /\ TickInv' /\ AloneInv' /\ CompletedWasExecuted' /\ OneReceiptPerTask'
<1>1. \A j \in Ticks : ticks'[j] = IF j = i THEN s ELSE ticks[j]
  BY DEF RuntimeInv, TypeOK, Lands
<1>2. ticks' \in [Ticks -> TickState]
  BY DEF RuntimeInv, TypeOK, Lands
<1>3. TickInv'
  BY <1>1 DEF RuntimeInv, TickInv, Lands
<1>4. AloneInv'
  BY <1>1 DEF RuntimeInv, AloneInv, Lands, At, Through, chainVars
<1>5. CompletedWasExecuted' /\ OneReceiptPerTask'
  BY DEF RuntimeInv, CompletedWasExecuted, OneReceiptPerTask, chainVars
<1> QED  BY <1>2, <1>3, <1>4, <1>5

-----------------------------------------------------------------------------
(* The steps that matter                                                    *)

LEMMA CalmKeeps ==
    ASSUME NEW i \in Ticks, RuntimeInv, Calm(i)
    PROVE  RuntimeInv'
<1> TypeOK /\ TickInv
  BY DEF RuntimeInv
<1>1. PICK s : Lands(i, s)
  BY CalmLands
<1>2. /\ processing' \in BOOLEAN /\ listed' \in SUBSET Tasks
      /\ UNCHANGED <<chainVars, executed, uploads, now>>
  BY CalmLands
<1>3. paid' \in [Tasks -> 0..MaxPayments]
  <2>1. CASE paid' = paid
    BY <2>1 DEF TypeOK
  <2>2. CASE Pay(ticks[i].task) /\ At(i, "executing")
    BY <2>2, PayTyped DEF TickInv, At, Busy
  <2> QED
    BY <2>1, <2>2 DEF Calm, StartTick, Serve, Receive, FetchFail, Decide, Reject,
                      NoDecision, ExecuteFail, PatchFail, historyVars
<1>4. /\ ticks' \in [Ticks -> TickState]
      /\ TickInv' /\ AloneInv' /\ CompletedWasExecuted' /\ OneReceiptPerTask'
  BY <1>1, <1>2, LandsKeeps
<1>5. TypeOK'
  BY <1>2, <1>3, <1>4 DEF TypeOK, chainVars
<1> QED  BY <1>4, <1>5 DEF RuntimeInv

\* The receipt a tick builds is one of the executions.
LEMMA ExecuteKeeps ==
    ASSUME NEW i \in Ticks, RuntimeInv, Execute(i)
    PROVE  RuntimeInv'
<1> DEFINE t == ticks[i].task
           receipt == [task_id |-> t, timestamp_unix |-> now, tx_signature |-> paid[t] + 1]
           s == [ticks[i] EXCEPT !.pc = "completing", !.receipt = {receipt}]
<1>1. /\ t \in Tasks /\ ticks \in [Ticks -> TickState] /\ ticks[i] \in TickState
      /\ now \in 0..MaxTime
  BY DEF RuntimeInv, TypeOK, TickInv, Execute, At, Busy
<1>2. /\ Pay(t) /\ executed' = executed \cup {receipt}
      /\ ticks' = [ticks EXCEPT ![i] = s]
      /\ UNCHANGED <<processing, listed, chainVars, uploads, now>>
  BY <1>1 DEF Execute, TickState
<1>3. receipt \in Receipt /\ paid' \in [Tasks -> 0..MaxPayments]
  BY <1>1, <1>2, PayTyped DEF RuntimeInv, Receipt
<1>4. s \in TickState
  BY <1>1, <1>3 DEF TickState
<1> HIDE DEF receipt
<1>5. \A j \in Ticks : ticks'[j] = IF j = i THEN s ELSE ticks[j]
  BY <1>1, <1>2
<1>6. s.pc = "completing" /\ s.task = t /\ s.receipt = {receipt} /\ receipt.task_id = t
  BY <1>1 DEF TickState, receipt
<1> HIDE DEF s
<1>7. TypeOK'
  BY <1>1, <1>2, <1>3, <1>4 DEF RuntimeInv, TypeOK, chainVars
<1>8. TickInv'
  BY <1>1, <1>2, <1>5, <1>6 DEF RuntimeInv, TickInv
<1>9. AloneInv'
  BY <1>2, <1>5, <1>6 DEF RuntimeInv, AloneInv, At, Through, chainVars
<1>10. CompletedWasExecuted' /\ OneReceiptPerTask'
  BY <1>2 DEF RuntimeInv, CompletedWasExecuted, OneReceiptPerTask, chainVars
<1> QED  BY <1>7, <1>8, <1>9, <1>10 DEF RuntimeInv

\* What complete_task writes is the hash of an execution, where nothing was.
LEMMA CompletesOnce ==
    ASSUME NEW i \in Ticks, RuntimeInv, At(i, "completing"), CompleteOnChain(i)
    PROVE  \E r \in executed :
             /\ r \in Receipt /\ ticks[i].receipt = {r} /\ r.task_id = ticks[i].task
             /\ r.task_id \in Tasks /\ status[r.task_id] = "Pending"
             /\ status' = [status EXCEPT ![r.task_id] = "Completed"]
             /\ recorded' = [recorded EXCEPT ![r.task_id] = OutputHash(r)]
<1>1. PICK r \in executed : ticks[i].receipt = {r} /\ r.task_id = ticks[i].task
  BY DEF RuntimeInv, TickInv, At
<1>2. r \in Receipt /\ ticks[i].task \in Tasks
  BY DEF RuntimeInv, TypeOK, TickInv, At, Busy
<1> QED  BY <1>1, <1>2 DEF CompleteOnChain

LEMMA ChainTyped ==
    ASSUME RuntimeInv, NEW r \in Receipt,
           status' = [status EXCEPT ![r.task_id] = "Completed"],
           recorded' = [recorded EXCEPT ![r.task_id] = OutputHash(r)]
    PROVE  /\ status' \in [Tasks -> {"Pending", "Completed", "Challenged"}]
           /\ recorded' \in [Tasks -> {OutputHash(q) : q \in Receipt} \cup {NoHash}]
  BY DEF RuntimeInv, TypeOK

\* The chain's two properties after complete_task.
LEMMA CompleteKeepsHashes ==
    ASSUME NEW i \in Ticks, RuntimeInv, At(i, "completing"), CompleteOnChain(i),
           UNCHANGED <<executed, uploads>>
    PROVE  CompletedWasExecuted' /\ OneReceiptPerTask'
<1>1. PICK r \in executed :
        /\ r \in Receipt /\ ticks[i].receipt = {r} /\ r.task_id = ticks[i].task
        /\ r.task_id \in Tasks /\ status[r.task_id] = "Pending"
        /\ status' = [status EXCEPT ![r.task_id] = "Completed"]
        /\ recorded' = [recorded EXCEPT ![r.task_id] = OutputHash(r)]
  BY CompletesOnce
<1>2. /\ \A t \in Tasks : status'[t] = IF t = r.task_id THEN "Completed" ELSE status[t]
      /\ \A t \in Tasks : recorded'[t] = IF t = r.task_id THEN OutputHash(r) ELSE recorded[t]
  BY <1>1 DEF RuntimeInv, TypeOK
<1>3. OutputHash(r) # NoHash
  BY <1>1, HashAssumption
<1>4. CompletedWasExecuted'
  BY <1>1, <1>2, <1>3 DEF RuntimeInv, CompletedWasExecuted
<1>5. ASSUME NEW q \in uploads
      PROVE  q.task_id \in Tasks /\ q.task_id # r.task_id
  BY <1>1 DEF RuntimeInv, AloneInv, TypeOK, Receipt
<1>6. OneReceiptPerTask'
  BY <1>2, <1>5 DEF RuntimeInv, OneReceiptPerTask
<1> QED  BY <1>4, <1>6

\* A tick in submission was let through before, so its task is another one.
LEMMA CompleteKeepsOthers ==
    ASSUME NEW i \in Ticks, RuntimeInv, At(i, "completing"), CompleteOnChain(i),
           NEW j \in Ticks, Through(j)
    PROVE  /\ ticks[j].task \in Tasks /\ ticks[j].task # ticks[i].task
           /\ status'[ticks[j].task] = status[ticks[j].task]
           /\ recorded'[ticks[j].task] = recorded[ticks[j].task]
<1>1. ticks[j].task \in Tasks /\ status[ticks[j].task] # "Pending"
  BY DEF RuntimeInv, TickInv, AloneInv, At, Through, Busy
<1>2. PICK r \in executed :
        /\ r.task_id = ticks[i].task /\ status[r.task_id] = "Pending"
        /\ status' = [status EXCEPT ![r.task_id] = "Completed"]
        /\ recorded' = [recorded EXCEPT ![r.task_id] = OutputHash(r)]
  BY CompletesOnce
<1> QED  BY <1>1, <1>2 DEF RuntimeInv, TypeOK

LEMMA CompleteKeeps ==
    ASSUME NEW i \in Ticks, RuntimeInv, Complete(i)
    PROVE  RuntimeInv'
<1>1. /\ At(i, "completing") /\ CompleteOnChain(i) /\ Goto(i, "patching")
      /\ UNCHANGED <<processing, listed, historyVars, uploads, now>>
  BY DEF Complete
<1>2. PICK r \in executed :
        /\ r \in Receipt /\ ticks[i].receipt = {r} /\ r.task_id = ticks[i].task
        /\ r.task_id \in Tasks /\ status[r.task_id] = "Pending"
        /\ status' = [status EXCEPT ![r.task_id] = "Completed"]
        /\ recorded' = [recorded EXCEPT ![r.task_id] = OutputHash(r)]
  BY <1>1, CompletesOnce
<1> DEFINE s == [ticks[i] EXCEPT !.pc = "patching"]
<1>3. /\ ticks \in [Ticks -> TickState] /\ ticks[i] \in TickState
      /\ ticks' = [ticks EXCEPT ![i] = s]
  BY <1>1 DEF RuntimeInv, TypeOK, Goto
<1>4. /\ s \in TickState /\ s.pc = "patching"
      /\ s.task = ticks[i].task /\ s.receipt = ticks[i].receipt
  BY <1>3 DEF TickState
<1> HIDE DEF s
<1>5. \A j \in Ticks : ticks'[j] = IF j = i THEN s ELSE ticks[j]
  BY <1>3
<1>6. TypeOK'
  BY <1>1, <1>2, <1>3, <1>4, ChainTyped DEF RuntimeInv, TypeOK, historyVars
<1>7. TickInv'
  BY <1>1, <1>2, <1>4, <1>5 DEF RuntimeInv, TickInv, Busy, historyVars
<1>8. AloneInv'
  <2>1. /\ status'[r.task_id] = "Completed" /\ recorded'[r.task_id] = OutputHash(r)
        /\ \A t \in Tasks \ {r.task_id} : status'[t] = status[t]
    BY <1>2 DEF RuntimeInv, TypeOK
  <2>2. ASSUME NEW j \in Ticks, Through(j)'
        PROVE  /\ status'[ticks'[j].task] # "Pending"
               /\ \A q \in ticks'[j].receipt : OutputHash(q) = recorded'[ticks'[j].task]
               /\ \A q \in uploads' : q.task_id # ticks'[j].task
    <3>1. CASE j = i
      BY <1>1, <1>2, <1>4, <1>5, <2>1, <3>1 DEF RuntimeInv, AloneInv
    <3>2. CASE j # i
      <4>1. ticks'[j] = ticks[j] /\ Through(j)
        BY <1>5, <2>2, <3>2 DEF At, Through
      <4> QED  BY <1>1, <4>1, CompleteKeepsOthers DEF RuntimeInv, AloneInv
    <3> QED  BY <3>1, <3>2
  <2>3. ASSUME NEW j \in Ticks, NEW k \in Ticks, Through(j)', Through(k)',
               ticks'[j].task = ticks'[k].task
        PROVE  j = k
    <3>1. \A l \in Ticks : l # i => ticks'[l] = ticks[l]
      BY <1>5
    <3>2. \A l \in Ticks : l # i /\ Through(l) => ticks[l].task # ticks[i].task
      BY <1>1, CompleteKeepsOthers
    <3>3. ticks'[i].task = ticks[i].task
      BY <1>4, <1>5
    <3> QED  BY <2>3, <3>1, <3>2, <3>3 DEF RuntimeInv, AloneInv, At, Through
  <2>4. ASSUME NEW q \in uploads'
        PROVE  status'[q.task_id] # "Pending"
    <3>1. q \in uploads /\ q.task_id \in Tasks
      BY <1>1 DEF RuntimeInv, TypeOK, Receipt
    <3> QED  BY <2>1, <3>1 DEF RuntimeInv, AloneInv
  <2> QED  BY <2>2, <2>3, <2>4 DEF AloneInv
<1>9. CompletedWasExecuted' /\ OneReceiptPerTask'
  BY <1>1, CompleteKeepsHashes DEF historyVars
<1> QED  BY <1>6, <1>7, <1>8, <1>9 DEF RuntimeInv

\* The tick takes complete_task for a failure; the chain may have it.
LEMMA CompleteFailKeeps ==
    ASSUME NEW i \in Ticks, RuntimeInv, CompleteFail(i)
    PROVE  RuntimeInv'
<1> TypeOK
  BY DEF RuntimeInv
<1>1. PICK s : Lands(i, s)
  BY DoneLands DEF CompleteFail
<1>2. processing' \in BOOLEAN
  BY DoneLands DEF CompleteFail
<1>3. UNCHANGED <<listed, historyVars, uploads, now>>
  BY DEF CompleteFail
<1>4. CASE UNCHANGED chainVars
  <2>1. /\ ticks' \in [Ticks -> TickState]
        /\ TickInv' /\ AloneInv' /\ CompletedWasExecuted' /\ OneReceiptPerTask'
    BY <1>1, <1>3, <1>4, LandsKeeps DEF historyVars
  <2>2. TypeOK'
    BY <1>2, <1>3, <1>4, <2>1 DEF TypeOK, chainVars, historyVars
  <2> QED  BY <2>1, <2>2 DEF RuntimeInv
<1>5. CASE CompleteOnChain(i)
  <2>1. At(i, "completing")
    BY DEF CompleteFail
  <2>2. PICK r \in executed :
          /\ r \in Receipt /\ r.task_id \in Tasks /\ status[r.task_id] = "Pending"
          /\ status' = [status EXCEPT ![r.task_id] = "Completed"]
          /\ recorded' = [recorded EXCEPT ![r.task_id] = OutputHash(r)]
    BY <1>5, <2>1, CompletesOnce
  <2>3. \A j \in Ticks : ticks'[j] = IF j = i THEN s ELSE ticks[j]
    BY <1>1 DEF TypeOK, Lands
  <2>4. TypeOK'
    <3>1. ticks' \in [Ticks -> TickState]
      BY <1>1 DEF Lands, TypeOK
    <3>2. /\ status' \in [Tasks -> {"Pending", "Completed", "Challenged"}]
          /\ recorded' \in [Tasks -> {OutputHash(q) : q \in Receipt} \cup {NoHash}]
      BY <2>2, ChainTyped
    <3> QED  BY <1>2, <1>3, <3>1, <3>2 DEF TypeOK, historyVars
  <2>5. TickInv'
    BY <1>1, <1>3, <2>3 DEF RuntimeInv, TickInv, Lands, historyVars
  <2>6. AloneInv'
    <3>1. \A j \in Ticks : Through(j)' => Through(j) /\ ticks'[j] = ticks[j]
      BY <1>1, <2>3 DEF Lands, At, Through
    <3>2. \A t \in Tasks : status[t] # "Pending" => status'[t] # "Pending"
      BY <2>2 DEF TypeOK
    <3>3. \A q \in uploads' : q \in uploads /\ q.task_id \in Tasks
      BY <1>3 DEF TypeOK, Receipt
    <3>4. ASSUME NEW j \in Ticks, Through(j)'
          PROVE  /\ status'[ticks'[j].task] # "Pending"
                 /\ \A q \in ticks'[j].receipt : OutputHash(q) = recorded'[ticks'[j].task]
                 /\ \A q \in uploads' : q.task_id # ticks'[j].task
      BY <1>3, <1>5, <2>1, <3>1, <3>4, CompleteKeepsOthers DEF RuntimeInv, AloneInv
    <3>5. ASSUME NEW j \in Ticks, NEW k \in Ticks, Through(j)', Through(k)',
                 ticks'[j].task = ticks'[k].task
          PROVE  j = k
      BY <3>1, <3>5 DEF RuntimeInv, AloneInv
    <3>6. \A q \in uploads' : status'[q.task_id] # "Pending"
      BY <3>2, <3>3 DEF RuntimeInv, AloneInv
    <3> QED  BY <3>4, <3>5, <3>6 DEF AloneInv
  <2>7. CompletedWasExecuted' /\ OneReceiptPerTask'
    BY <1>3, <1>5, <2>1, CompleteKeepsHashes DEF historyVars
  <2> QED  BY <2>4, <2>5, <2>6, <2>7 DEF RuntimeInv
<1> QED  BY <1>4, <1>5 DEF CompleteFail

\* Between the two calls to the indexer nothing changes hands.
LEMMA PatchKeeps ==
    ASSUME NEW i \in Ticks, RuntimeInv, Patch(i)
    PROVE  RuntimeInv'
<1>1. /\ At(i, "patching") /\ Goto(i, "submitting")
      /\ UNCHANGED <<processing, chainVars, historyVars, uploads, now>>
  BY DEF Patch
<1> DEFINE s == [ticks[i] EXCEPT !.pc = "submitting"]
<1>2. /\ ticks \in [Ticks -> TickState] /\ ticks[i] \in TickState
      /\ ticks' = [ticks EXCEPT ![i] = s]
  BY <1>1 DEF RuntimeInv, TypeOK, Goto
<1>3. /\ s \in TickState /\ s.pc = "submitting"
      /\ s.task = ticks[i].task /\ s.receipt = ticks[i].receipt
  BY <1>2 DEF TickState
<1> HIDE DEF s
<1>4. \A j \in Ticks : ticks'[j] = IF j = i THEN s ELSE ticks[j]
  BY <1>2
<1>5. listed' \in SUBSET Tasks
  BY DEF Patch, RuntimeInv, TypeOK
<1>6. TypeOK'
  BY <1>1, <1>2, <1>3, <1>5 DEF RuntimeInv, TypeOK, chainVars, historyVars
<1>7. TickInv'
  BY <1>1, <1>3, <1>4 DEF RuntimeInv, TickInv, Busy, At, historyVars
<1>8. AloneInv'
  <2>1. \A j \in Ticks : Through(j)' =>
          /\ Through(j) /\ ticks'[j].task = ticks[j].task
          /\ ticks'[j].receipt = ticks[j].receipt
    BY <1>1, <1>3, <1>4 DEF Through, At
  <2> QED  BY <1>1, <2>1 DEF RuntimeInv, AloneInv, chainVars
<1>9. CompletedWasExecuted' /\ OneReceiptPerTask'
  BY <1>1 DEF RuntimeInv, CompletedWasExecuted, OneReceiptPerTask, chainVars, historyVars
<1> QED  BY <1>6, <1>7, <1>8, <1>9 DEF RuntimeInv

\* The receipt is handed over, or its tick ends without: nobody else has one
\* for the task, and the hash is the one on chain.
LEMMA SubmitKeeps ==
    ASSUME NEW i \in Ticks, RuntimeInv, Submit(i) \/ SubmitFail(i)
    PROVE  RuntimeInv'
<1> TypeOK
  BY DEF RuntimeInv
<1>1. At(i, "submitting") /\ Done(i) /\ UNCHANGED <<chainVars, historyVars, now>>
  BY DEF Submit, SubmitFail
<1>2. PICK s : Lands(i, s)
  BY <1>1, DoneLands
<1>3. processing' \in BOOLEAN /\ listed' \in SUBSET Tasks
  <2>1. processing' \in BOOLEAN
    BY <1>1, DoneLands
  <2>2. listed' \in SUBSET Tasks
    BY DEF Submit, SubmitFail, TypeOK
  <2> QED  BY <2>1, <2>2
<1>4. PICK r \in executed : ticks[i].receipt = {r} /\ r.task_id = ticks[i].task
  BY <1>1 DEF RuntimeInv, TickInv, At
<1>5. uploads' = uploads \/ uploads' = uploads \cup {r}
  BY <1>4 DEF Submit, SubmitFail
<1>6. \A j \in Ticks : ticks'[j] = IF j = i THEN s ELSE ticks[j]
  BY <1>2 DEF TypeOK, Lands
<1>7. TypeOK'
  <2>1. ticks' \in [Ticks -> TickState]
    BY <1>2 DEF Lands, TypeOK
  <2>2. uploads' \in SUBSET executed
    BY <1>4, <1>5 DEF TypeOK
  <2> QED  BY <1>1, <1>3, <2>1, <2>2 DEF TypeOK, chainVars, historyVars
<1>8. TickInv'
  BY <1>1, <1>2, <1>6 DEF RuntimeInv, TickInv, Lands, historyVars
<1>9. /\ status[r.task_id] # "Pending" /\ OutputHash(r) = recorded[r.task_id]
      /\ \A q \in uploads : q.task_id # r.task_id
  BY <1>1, <1>4 DEF RuntimeInv, AloneInv, Through
<1>10. AloneInv'
  <2>1. \A j \in Ticks : Through(j)' =>
          j # i /\ Through(j) /\ ticks'[j] = ticks[j]
    BY <1>2, <1>6 DEF Lands, At, Through
  <2>2. \A j \in Ticks : Through(j)' => ticks[j].task # r.task_id
    BY <1>1, <1>4, <2>1 DEF RuntimeInv, AloneInv, Through
  <2> QED  BY <1>1, <1>5, <1>9, <2>1, <2>2 DEF RuntimeInv, AloneInv, chainVars
<1>11. CompletedWasExecuted' /\ OneReceiptPerTask'
  BY <1>1, <1>5, <1>9 DEF RuntimeInv, CompletedWasExecuted, OneReceiptPerTask,
                          chainVars, historyVars
<1> QED  BY <1>7, <1>8, <1>10, <1>11 DEF RuntimeInv

-----------------------------------------------------------------------------
(* Around the ticks                                                         *)

LEMMA AroundKeeps ==
    ASSUME RuntimeInv,
           \/ Restart \/ Clock \/ UNCHANGED vars
           \/ \E t \in Tasks : IndexerSync(t) \/ FileChallenge(t)
    PROVE  RuntimeInv'
<1>1. CASE Restart
  <2>1. TypeOK'
    BY <1>1, IdleIsState DEF RuntimeInv, TypeOK, Restart, chainVars, historyVars
  <2>2. TickInv' /\ AloneInv'
    BY <1>1 DEF RuntimeInv, TickInv, AloneInv, At, Through, Busy, Idle, Restart, chainVars
  <2>3. CompletedWasExecuted' /\ OneReceiptPerTask'
    BY <1>1 DEF RuntimeInv, CompletedWasExecuted, OneReceiptPerTask, Restart,
                chainVars, historyVars
  <2> QED  BY <2>1, <2>2, <2>3 DEF RuntimeInv
<1>2. CASE Clock \/ UNCHANGED vars \/ \E t \in Tasks : IndexerSync(t)
  <2>1. UNCHANGED <<processVars, chainVars, historyVars, uploads>>
    BY <1>2 DEF Clock, vars, IndexerSync
  <2>2. now' \in 0..MaxTime /\ listed' \in SUBSET Tasks
    BY <1>2, RuntimeAssumption DEF RuntimeInv, TypeOK, Clock, vars, IndexerSync
  <2>3. TypeOK'
    BY <2>1, <2>2 DEF RuntimeInv, TypeOK, processVars, chainVars, historyVars
  <2>4. TickInv' /\ AloneInv' /\ CompletedWasExecuted' /\ OneReceiptPerTask'
    BY <2>1 DEF RuntimeInv, TickInv, AloneInv, At, Through, CompletedWasExecuted, OneReceiptPerTask,
                processVars, chainVars, historyVars
  <2> QED  BY <2>3, <2>4 DEF RuntimeInv
<1>3. ASSUME NEW t \in Tasks, FileChallenge(t)
      PROVE  RuntimeInv'
  <2>1. /\ status' = [status EXCEPT ![t] = "Challenged"]
        /\ UNCHANGED <<processVars, listed, recorded, historyVars, uploads, now>>
    BY <1>3 DEF FileChallenge
  <2>2. TypeOK'
    BY <2>1 DEF RuntimeInv, TypeOK, processVars, historyVars
  <2>3. \A u \in Tasks : status'[u] = IF u = t THEN "Challenged" ELSE status[u]
    BY <2>1 DEF RuntimeInv, TypeOK
  <2>4. TickInv'
    BY <2>1 DEF RuntimeInv, TickInv, processVars, historyVars
  <2>5. AloneInv'
    <3>1. \A q \in uploads : q.task_id \in Tasks
      BY DEF RuntimeInv, TypeOK, Receipt
    <3>2. \A i \in Ticks : Through(i) => ticks[i].task \in Tasks
      BY DEF RuntimeInv, TickInv, At, Through, Busy
    <3> QED  BY <2>1, <2>3, <3>1, <3>2 DEF RuntimeInv, AloneInv, At, Through, processVars
  <2>6. CompletedWasExecuted'
    BY <2>1, <2>3 DEF RuntimeInv, CompletedWasExecuted, historyVars
  <2>7. OneReceiptPerTask'
    BY <2>1 DEF RuntimeInv, OneReceiptPerTask
  <2> QED  BY <2>2, <2>4, <2>5, <2>6, <2>7 DEF RuntimeInv
<1> QED  BY <1>1, <1>2, <1>3

LEMMA InitRuntime == Init => RuntimeInv
<1> SUFFICES ASSUME Init
             PROVE  RuntimeInv
  OBVIOUS
<1>1. TypeOK
  <2>1. ticks \in [Ticks -> TickState] /\ listed \in SUBSET Tasks /\ processing \in BOOLEAN
    BY IdleIsState DEF Init
  <2>2. recorded \in [Tasks -> {OutputHash(r) : r \in Receipt} \cup {NoHash}]
    BY DEF Init
  <2>3. /\ status \in [Tasks -> {"Pending", "Completed", "Challenged"}]
        /\ executed \in SUBSET Receipt /\ uploads \in SUBSET executed
    BY DEF Init
  <2>4. paid \in [Tasks -> 0..MaxPayments] /\ now \in 0..MaxTime
    BY RuntimeAssumption DEF Init
  <2> QED  BY <2>1, <2>2, <2>3, <2>4 DEF TypeOK
<1>2. TickInv /\ AloneInv
  BY DEF Init, TickInv, AloneInv, At, Through, Busy, Idle
<1>3. CompletedWasExecuted /\ OneReceiptPerTask
  BY DEF Init, CompletedWasExecuted, OneReceiptPerTask
<1> QED  BY <1>1, <1>2, <1>3 DEF RuntimeInv

LEMMA InductiveRuntime == RuntimeInv /\ [Next]_vars => RuntimeInv'
<1> SUFFICES ASSUME RuntimeInv, [Next]_vars
             PROVE  RuntimeInv'
  OBVIOUS
<1>1. ASSUME NEW i \in Ticks, TickNext(i)
      PROVE  RuntimeInv'
  BY <1>1, CalmKeeps, ExecuteKeeps, CompleteKeeps, CompleteFailKeeps,
              PatchKeeps, SubmitKeeps
     DEF TickNext, Calm
<1> QED  BY <1>1, AroundKeeps DEF Next

\* Every tick, receipt and account the agent handles is well typed.
THEOREM TypeCorrect == Spec => []TypeOK
<1>1. RuntimeInv => TypeOK
  BY DEF RuntimeInv
<1> QED  BY <1>1, InitRuntime, InductiveRuntime, PTL DEF Spec

\* A task the chain shows as completed was executed, and the hash on chain is
\* the hash of one of its executions.
THEOREM ExecutionCorrect == Spec => []CompletedWasExecuted
<1>1. RuntimeInv => CompletedWasExecuted
  BY DEF RuntimeInv
<1> QED  BY <1>1, InitRuntime, InductiveRuntime, PTL DEF Spec

\* The indexer holds one receipt of a task at most, with the hash on chain.
THEOREM ReceiptCorrect == Spec => []OneReceiptPerTask
<1>1. RuntimeInv => OneReceiptPerTask
  BY DEF RuntimeInv
<1> QED  BY <1>1, InitRuntime, InductiveRuntime, PTL DEF Spec

=============================================================================
