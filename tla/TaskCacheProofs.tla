--------------------------- MODULE TaskCacheProofs ---------------------------
(***************************************************************************)
(* TaskCache implements TaskView: whatever handlers overlap, fail or are   *)
(* cut short, the API serves a past of the chain.                          *)
(***************************************************************************)
EXTENDS TaskCache, FiniteSetTheorems, TLAPS

-----------------------------------------------------------------------------
(* The inductive invariant                                                  *)

Typed ==
    /\ chain \in [Tasks -> ChainTask]
    /\ tasks \in [Tasks -> CachedTask]
    /\ jobs \subseteq Job

\* What the flags of a TaskRecord remember is what its status went through.
Remembers(c) ==
    /\ c.status \in {"Unregistered", "Pending"} => ~c.completed /\ ~c.challenged
    /\ c.status = "Completed" => c.completed /\ ~c.challenged
    /\ c.status \in {"Challenged", "Dismissed", "Slashed"} => c.challenged

\* The chain has done what the event tells.
Justifies(c, event) ==
    /\ event = "taskRegistered" => c.status # "Unregistered"
    /\ event = "taskCompleted" => c.status # "Unregistered" /\ c.completed
    /\ event = "challengeFiled" => c.status # "Unregistered" /\ c.challenged
    /\ event = "challengeDismissed" => c.status = "Dismissed"
    /\ event = "agentSlashed" => c.status = "Slashed"

\* A handler runs only for what the chain has done; this is what makes each
\* of its writes a status of the past.
PastInv ==
    /\ Typed
    /\ \A t \in Tasks : Remembers(chain[t])
    /\ \A j \in jobs : Justifies(chain[j.task], j.event)

\* What a chain step does to one TaskRecord: the status it takes is new, what
\* was justified stays so, and the event tells what has happened.
GoodStep(c, d, event) ==
    /\ d \in ChainTask
    /\ Remembers(d)
    /\ \A e \in Event : Justifies(c, e) => Justifies(d, e)
    /\ Justifies(d, event)
    /\ d.status \notin Past(c)
    /\ d.status # "Unregistered"
    /\ Past(d) = Past(c) \cup {d.status}

-----------------------------------------------------------------------------
(* Chain steps                                                              *)

\* The five transactions move a TaskRecord forward only.
LEMMA ForwardOnly ==
    ASSUME NEW t \in Tasks, PastInv, ChainStep(t)
    PROVE  \E d, event :
             /\ event \in Event
             /\ GoodStep(chain[t], d, event)
             /\ chain' = [chain EXCEPT ![t] = d]
             /\ Emit(t, event)
<1>1. chain[t] \in ChainTask /\ Remembers(chain[t])
  BY DEF PastInv, Typed
<1>2. CASE RegisterTask(t)
  <2> DEFINE d == [chain[t] EXCEPT !.status = "Pending"]
  <2>1. GoodStep(chain[t], d, "taskRegistered")
    BY <1>1, <1>2 DEF RegisterTask, GoodStep, ChainTask, Remembers, Justifies, Past
  <2>2. chain' = [chain EXCEPT ![t] = d]
    BY <1>2 DEF RegisterTask
  <2> QED  BY <1>2, <2>1, <2>2 DEF RegisterTask, Event
<1>3. CASE CompleteTask(t)
  <2> DEFINE d == [chain[t] EXCEPT !.status = "Completed", !.completed = TRUE]
  <2>1. GoodStep(chain[t], d, "taskCompleted")
    BY <1>1, <1>3 DEF CompleteTask, GoodStep, ChainTask, Remembers, Justifies, Past
  <2>2. chain' = [chain EXCEPT ![t] = d]
    BY <1>1, <1>3 DEF CompleteTask, PastInv, Typed, ChainTask
  <2> QED  BY <1>3, <2>1, <2>2 DEF CompleteTask, Event
<1>4. CASE FileChallenge(t)
  <2> DEFINE d == [chain[t] EXCEPT !.status = "Challenged", !.challenged = TRUE]
  <2>1. GoodStep(chain[t], d, "challengeFiled")
    BY <1>1, <1>4 DEF FileChallenge, GoodStep, ChainTask, Remembers, Justifies, Past
  <2>2. chain' = [chain EXCEPT ![t] = d]
    BY <1>1, <1>4 DEF FileChallenge, PastInv, Typed, ChainTask
  <2> QED  BY <1>4, <2>1, <2>2 DEF FileChallenge, Event
<1>5. CASE DismissChallenge(t)
  <2> DEFINE d == [chain[t] EXCEPT !.status = "Dismissed"]
  <2>1. GoodStep(chain[t], d, "challengeDismissed")
    BY <1>1, <1>5 DEF DismissChallenge, GoodStep, ChainTask, Remembers, Justifies, Past
  <2>2. chain' = [chain EXCEPT ![t] = d]
    BY <1>5 DEF DismissChallenge
  <2> QED  BY <1>5, <2>1, <2>2 DEF DismissChallenge, Event
<1>6. CASE SlashAgent(t)
  <2> DEFINE d == [chain[t] EXCEPT !.status = "Slashed"]
  <2>1. GoodStep(chain[t], d, "agentSlashed")
    BY <1>1, <1>6 DEF SlashAgent, GoodStep, ChainTask, Remembers, Justifies, Past
  <2>2. chain' = [chain EXCEPT ![t] = d]
    BY <1>6 DEF SlashAgent
  <2> QED  BY <1>6, <2>1, <2>2 DEF SlashAgent, Event
<1> QED  BY <1>2, <1>3, <1>4, <1>5, <1>6 DEF ChainStep

\* What a handler writes into a task has the status of a moment of the past.
LEMMA WritesThePast ==
    ASSUME NEW j \in jobs, PastInv
    PROVE  /\ Updated(j) \in CachedTask
           /\ \E s \in Past(chain[j.task]) : Updated(j).status = View!Served(s)
<1>1. /\ j \in Job /\ chain[j.task] \in ChainTask
      /\ Remembers(chain[j.task]) /\ Justifies(chain[j.task], j.event)
  BY DEF PastInv, Typed, Job
<1>2. j.read \in CachedTask /\ j.event \in Event
  BY <1>1 DEF Job
<1>3. CASE j.event = "taskRegistered"
  BY <1>1, <1>3 DEF Updated, Justifies, Past, View!Served, NoTask, CachedTask
<1>4. CASE j.event = "taskCompleted"
  BY <1>1, <1>2, <1>4 DEF Updated, Justifies, Past, View!Served, CachedTask
<1>5. CASE j.event = "challengeFiled"
  BY <1>1, <1>2, <1>5 DEF Updated, Justifies, Past, View!Served, CachedTask
<1>6. CASE j.event = "challengeDismissed"
  BY <1>1, <1>2, <1>6 DEF Updated, Justifies, Past, View!Served, CachedTask
<1>7. CASE j.event = "agentSlashed"
  BY <1>1, <1>2, <1>7 DEF Updated, Justifies, Past, View!Served, CachedTask
<1> QED  BY <1>2, <1>3, <1>4, <1>5, <1>6, <1>7 DEF Event

-----------------------------------------------------------------------------
(* The invariant is inductive                                               *)

LEMMA InitPast == Init => PastInv
  BY DEF Init, PastInv, Typed, Remembers, ChainTask, CachedTask, NoTask

LEMMA ChainKeeps ==
    ASSUME NEW t \in Tasks, PastInv, ChainStep(t)
    PROVE  PastInv'
<1>1. PICK d, event :
        /\ event \in Event
        /\ GoodStep(chain[t], d, event)
        /\ chain' = [chain EXCEPT ![t] = d]
        /\ Emit(t, event)
  BY ForwardOnly
<1>2. chain \in [Tasks -> ChainTask] /\ tasks \in [Tasks -> CachedTask] /\ jobs \subseteq Job
  BY DEF PastInv, Typed
<1>3. \A u \in Tasks : chain'[u] = IF u = t THEN d ELSE chain[u]
  BY <1>1, <1>2
<1> DEFINE new == [task |-> t, event |-> event, read |-> NoTask,
                   pc |-> FirstOperation(event)]
<1>4. new \in Job
  BY <1>1 DEF Job, NoTask, CachedTask, FirstOperation, Event
<1>5. jobs' = jobs \cup {new} \/ jobs' = jobs
  BY <1>1 DEF Emit
<1>6. tasks' = tasks
  BY <1>1 DEF Emit, cache
<1>7. Typed'
  BY <1>1, <1>2, <1>4, <1>5, <1>6 DEF Typed, GoodStep
<1>8. \A u \in Tasks : Remembers(chain'[u])
  BY <1>1, <1>3 DEF PastInv, GoodStep
<1>9. ASSUME NEW j \in jobs'
      PROVE  Justifies(chain'[j.task], j.event)
  <2>1. CASE j = new
    BY <1>1, <1>3, <2>1 DEF GoodStep
  <2>2. CASE j \in jobs
    <3>1. j.task \in Tasks /\ j.event \in Event /\ Justifies(chain[j.task], j.event)
      BY <1>2, <2>2 DEF PastInv, Job
    <3> QED  BY <1>1, <1>3, <3>1 DEF GoodStep
  <2> QED  BY <1>5, <2>1, <2>2
<1> QED  BY <1>7, <1>8, <1>9 DEF PastInv

\* A handler that goes on stays one of the same task and event.
LEMMA HandlerKeeps ==
    ASSUME NEW j \in jobs, PastInv, HandlerStep(j)
    PROVE  PastInv'
<1>1. /\ j \in Job /\ chain \in [Tasks -> ChainTask]
      /\ tasks \in [Tasks -> CachedTask] /\ jobs \subseteq Job
  BY DEF PastInv, Typed
<1>2. j.task \in Tasks /\ tasks[j.task] \in CachedTask /\ NoTask \in CachedTask
  BY <1>1 DEF Job, NoTask, CachedTask
<1>3. chain' = chain
  BY DEF HandlerStep, PutTask, GetTask, PutChallenge, GetChallenge
<1>4. tasks' \in [Tasks -> CachedTask]
  <2>1. CASE PutTask(j)
    BY <1>1, <2>1, WritesThePast DEF PutTask
  <2>2. CASE GetTask(j) \/ PutChallenge(j) \/ GetChallenge(j)
    BY <1>1, <2>2 DEF GetTask, PutChallenge, GetChallenge, cache
  <2> QED  BY <2>1, <2>2 DEF HandlerStep
<1>5. \/ Finish(j)
      \/ \E pc \in {"putTask", "getTask", "getChallenge", "putChallenge"} :
           \E read \in CachedTask : Continue(j, pc, read)
  BY <1>2 DEF HandlerStep, PutTask, GetTask, PutChallenge, GetChallenge
<1>6. ASSUME NEW k \in jobs'
      PROVE  k \in Job /\ Justifies(chain[k.task], k.event)
  <2>1. CASE k \in jobs
    BY <1>1, <2>1 DEF PastInv
  <2>2. CASE k \notin jobs
    <3>1. PICK pc \in {"putTask", "getTask", "getChallenge", "putChallenge"},
               read \in CachedTask : k = [j EXCEPT !.pc = pc, !.read = read]
      BY <1>5, <2>2 DEF Finish, Continue
    <3>2. k \in Job /\ k.task = j.task /\ k.event = j.event
      BY <1>1, <3>1 DEF Job
    <3> QED  BY <3>2 DEF PastInv
  <2> QED  BY <2>1, <2>2
<1> QED  BY <1>1, <1>3, <1>4, <1>6 DEF PastInv, Typed

LEMMA InductivePast == PastInv /\ [Next]_vars => PastInv'
<1> SUFFICES ASSUME PastInv, [Next]_vars
             PROVE  PastInv'
  OBVIOUS
<1>1. CASE \E t \in Tasks : ChainStep(t)
  BY <1>1, ChainKeeps
<1>2. CASE \E j \in jobs : HandlerStep(j)
  BY <1>2, HandlerKeeps
<1>3. CASE \/ \E j \in jobs : HandlerFail(j)
           \/ ListUnresolved \/ ReadNext \/ Answer \/ Stop \/ Start
           \/ UNCHANGED vars
  <2>1. jobs' \subseteq jobs /\ chain' = chain /\ tasks' = tasks
    BY <1>3 DEF HandlerFail, Finish, ListUnresolved, ReadNext, Answer, Stop, Start, cache, vars
  <2> QED  BY <2>1 DEF PastInv, Typed
<1> QED  BY <1>1, <1>2, <1>3 DEF Next

-----------------------------------------------------------------------------
(* Every step is one of the view, or a stutter                              *)

LEMMA InitMaps == Init => View!Init
  BY DEF Init, View!Init, NoTask, Past

\* A transaction adds one new status to the past of its task.
LEMMA ChainAdvances ==
    ASSUME NEW t \in Tasks, PastInv, ChainStep(t)
    PROVE  View!Advance(t)
<1>1. PICK d, event :
        /\ GoodStep(chain[t], d, event)
        /\ chain' = [chain EXCEPT ![t] = d]
        /\ Emit(t, event)
  BY ForwardOnly
<1>2. chain \in [Tasks -> ChainTask]
  BY DEF PastInv, Typed
<1>3. \A u \in Tasks : chain'[u] = IF u = t THEN d ELSE chain[u]
  BY <1>1, <1>2
<1>4. tasks' = tasks
  BY <1>1 DEF Emit, cache
<1>5. d.status \in {"Pending", "Completed", "Challenged", "Dismissed", "Slashed"}
  BY <1>1 DEF GoodStep, ChainTask
<1>6. [u \in Tasks |-> Past(chain'[u])]
        = [[u \in Tasks |-> Past(chain[u])] EXCEPT ![t] = @ \cup {d.status}]
  <2>1. Past(d) = Past(chain[t]) \cup {d.status}
    BY <1>1 DEF GoodStep
  <2>2. \A u \in Tasks :
          Past(chain'[u]) = IF u = t THEN Past(chain[t]) \cup {d.status} ELSE Past(chain[u])
    BY <1>3, <2>1
  <2> QED  BY <2>2
<1>7. d.status \notin [u \in Tasks |-> Past(chain[u])][t]
  BY <1>1 DEF GoodStep
<1> QED  BY <1>4, <1>5, <1>6, <1>7 DEF View!Advance, Past

\* The one write of a task shows a status of its past.
LEMMA PutShows ==
    ASSUME NEW j \in jobs, PastInv, PutTask(j)
    PROVE  j.task \in Tasks /\ View!Show(j.task)
<1>1. j.task \in Tasks /\ tasks \in [Tasks -> CachedTask]
  BY DEF PastInv, Typed, Job
<1>2. chain' = chain /\ tasks' = [tasks EXCEPT ![j.task] = Updated(j)]
  BY DEF PutTask
<1>3. PICK s \in Past(chain[j.task]) : Updated(j).status = View!Served(s)
  BY WritesThePast
<1>4. [t \in Tasks |-> tasks'[t].status]
        = [[t \in Tasks |-> tasks[t].status] EXCEPT ![j.task] = View!Served(s)]
  BY <1>1, <1>2, <1>3
<1>5. s \in [t \in Tasks |-> Past(chain[t])][j.task]
  BY <1>1, <1>3
<1> QED  BY <1>1, <1>2, <1>4, <1>5 DEF View!Show, Past

LEMMA StepMaps == PastInv /\ [Next]_vars => [View!Next]_View!vars
<1> SUFFICES ASSUME PastInv, [Next]_vars
             PROVE  [View!Next]_View!vars
  OBVIOUS
<1>1. CASE \E t \in Tasks : ChainStep(t)
  BY <1>1, ChainAdvances DEF View!Next
<1>2. CASE \E j \in jobs : PutTask(j)
  BY <1>2, PutShows DEF View!Next
<1>3. CASE \/ \E j \in jobs : GetTask(j) \/ PutChallenge(j) \/ GetChallenge(j) \/ HandlerFail(j)
           \/ ListUnresolved \/ ReadNext \/ Answer \/ Stop \/ Start
           \/ UNCHANGED vars
  <2>1. chain' = chain /\ tasks' = tasks
    BY <1>3 DEF GetTask, PutChallenge, GetChallenge, HandlerFail, ListUnresolved,
                ReadNext, Answer, Stop, Start, cache, vars
  <2> QED  BY <2>1 DEF View!vars
<1> QED  BY <1>1, <1>2, <1>3 DEF Next, HandlerStep

\* The listener, its caches and its failures implement TaskView: the status
\* the API serves for a task is one the chain has given it.
THEOREM ServesPast == Spec => ServesThePast
<1>1. Spec => []PastInv
  BY InitPast, InductivePast, PTL DEF Spec
<1> QED  BY <1>1, InitMaps, StepMaps, PTL DEF Spec, ServesThePast, View!Spec

-----------------------------------------------------------------------------
(* Both caches agree with the chain                                         *)

\* The task before the event the chain has just emitted.
Pre(c, event) ==
    CASE event = "taskRegistered" -> [c EXCEPT !.status = "Unregistered"]
      [] event = "taskCompleted"  -> [c EXCEPT !.status = "Pending", !.completed = FALSE]
      [] event = "challengeFiled" ->
           [c EXCEPT !.status = IF c.completed THEN "Completed" ELSE "Pending",
                     !.challenged = FALSE]
      [] OTHER                    -> [c EXCEPT !.status = "Challenged"]

\* The status that the event tells.
Told(event) ==
    CASE event = "taskRegistered"     -> "Pending"
      [] event = "taskCompleted"      -> "Completed"
      [] event = "challengeFiled"     -> "Challenged"
      [] event = "challengeDismissed" -> "Dismissed"
      [] event = "agentSlashed"       -> "Slashed"

\* Mirrored and MirroredChallenge, of any TaskRecord.
MirrorTask(c) ==
    IF c.status = "Unregistered" THEN NoTask
    ELSE [status        |-> View!Served(c.status),
          completedAt   |-> c.completed \/ c.status \in {"Dismissed", "Slashed"},
          disputeReason |-> c.challenged]

MirrorChallenge(c) == IF c.challenged THEN View!Served(c.status) ELSE "absent"

\* The operations a handler of the event waits for.
Operations(event) ==
    CASE event = "taskRegistered" -> {"putTask"}
      [] event = "taskCompleted"  -> {"getTask", "putTask"}
      [] event = "challengeFiled" -> {"putChallenge", "getTask", "putTask"}
      [] OTHER -> {"getChallenge", "putChallenge", "getTask", "putTask"}

\* A handler that nothing has overtaken is of the last event; the caches still
\* hold what went before, but for what it has written.
OnTrack(j) ==
    LET c == chain[j.task]
        pre == Pre(c, j.event)
    IN  /\ c.status = Told(j.event)
        /\ tasks[j.task] = MirrorTask(pre)
        /\ challenges[j.task] = MirrorChallenge(
             IF j.pc \in {"getChallenge", "putChallenge"} THEN pre ELSE c)
        /\ j.pc = "putTask" /\ j.event # "taskRegistered" => j.read = tasks[j.task]

Alone(j) == \A k \in jobs : k.task = j.task => k = j

\* What InSyncWhenQuiet says of a task while no handler of it runs, and of its
\* one handler while it does.
Synced(t) ==
    ~gap[t] =>
      /\ ~Busy(t) => InSync(t)
      /\ \A j \in jobs : j.task = t => OnTrack(j) /\ Alone(j)

SyncInv ==
    /\ PastInv
    /\ challenges \in [Tasks -> CachedChallenge]
    /\ gap \in [Tasks -> BOOLEAN]
    /\ \A j \in jobs : j.pc \in Operations(j.event)
    /\ \A t \in Tasks : Synced(t)

\* The mirrors are those of the properties.
LEMMA MirrorsAgree ==
    ASSUME NEW t \in Tasks
    PROVE  /\ Mirrored(t) = MirrorTask(chain[t])
           /\ MirroredChallenge(t) = MirrorChallenge(chain[t])
  BY DEF Mirrored, MirrorTask, MirroredChallenge, MirrorChallenge

\* A step that does not touch a task, its caches and its handlers keeps it.
LEMMA UntouchedSyncs ==
    ASSUME NEW u \in Tasks, Synced(u),
           chain'[u] = chain[u], tasks'[u] = tasks[u],
           challenges'[u] = challenges[u], gap'[u] = gap[u],
           \A k : k.task = u => (k \in jobs' <=> k \in jobs)
    PROVE  Synced(u)'
<1> SUFFICES ASSUME ~gap'[u]
             PROVE  /\ ~Busy(u)' => InSync(u)'
                    /\ \A j \in jobs' : j.task = u => OnTrack(j)' /\ Alone(j)'
  BY DEF Synced
<1>1. ~Busy(u)' => InSync(u)'
  BY DEF Synced, Busy, InSync, Mirrored, MirroredChallenge
<1>2. ASSUME NEW j \in jobs', j.task = u
      PROVE  OnTrack(j)' /\ Alone(j)'
  <2>1. j \in jobs /\ OnTrack(j) /\ Alone(j)
    BY <1>2 DEF Synced
  <2> QED  BY <1>2, <2>1 DEF OnTrack, Alone
<1> QED  BY <1>1, <1>2

\* A transaction emits the event that tells what it did.
LEMMA StepTells ==
    ASSUME NEW t \in Tasks, PastInv, ChainStep(t)
    PROVE  \E d, event :
             /\ event \in Event
             /\ d \in ChainTask /\ Remembers(d)
             /\ d.status = Told(event)
             /\ Pre(d, event) = chain[t]
             /\ chain' = [chain EXCEPT ![t] = d]
             /\ Emit(t, event)
<1>1. chain[t] \in ChainTask /\ Remembers(chain[t]) /\ chain \in [Tasks -> ChainTask]
  BY DEF PastInv, Typed
<1>2. CASE RegisterTask(t)
  <2> DEFINE d == [chain[t] EXCEPT !.status = "Pending"]
  <2>1. /\ d \in ChainTask /\ Remembers(d) /\ d.status = Told("taskRegistered")
        /\ Pre(d, "taskRegistered") = chain[t]
    BY <1>1, <1>2 DEF RegisterTask, ChainTask, Remembers, Told, Pre
  <2>2. chain' = [chain EXCEPT ![t] = d]
    BY <1>2 DEF RegisterTask
  <2> QED  BY <1>2, <2>1, <2>2 DEF RegisterTask, Event
<1>3. CASE CompleteTask(t)
  <2> DEFINE d == [chain[t] EXCEPT !.status = "Completed", !.completed = TRUE]
  <2>1. /\ d \in ChainTask /\ Remembers(d) /\ d.status = Told("taskCompleted")
        /\ Pre(d, "taskCompleted") = chain[t]
    BY <1>1, <1>3 DEF CompleteTask, ChainTask, Remembers, Told, Pre
  <2>2. chain' = [chain EXCEPT ![t] = d]
    BY <1>1, <1>3 DEF CompleteTask, ChainTask
  <2> QED  BY <1>3, <2>1, <2>2 DEF CompleteTask, Event
<1>4. CASE FileChallenge(t)
  <2> DEFINE d == [chain[t] EXCEPT !.status = "Challenged", !.challenged = TRUE]
  <2>1. /\ d \in ChainTask /\ Remembers(d) /\ d.status = Told("challengeFiled")
        /\ Pre(d, "challengeFiled") = chain[t]
    BY <1>1, <1>4 DEF FileChallenge, ChainTask, Remembers, Told, Pre
  <2>2. chain' = [chain EXCEPT ![t] = d]
    BY <1>1, <1>4 DEF FileChallenge, ChainTask
  <2> QED  BY <1>4, <2>1, <2>2 DEF FileChallenge, Event
<1>5. CASE DismissChallenge(t)
  <2> DEFINE d == [chain[t] EXCEPT !.status = "Dismissed"]
  <2>1. /\ d \in ChainTask /\ Remembers(d) /\ d.status = Told("challengeDismissed")
        /\ Pre(d, "challengeDismissed") = chain[t]
    BY <1>1, <1>5 DEF DismissChallenge, ChainTask, Remembers, Told, Pre
  <2>2. chain' = [chain EXCEPT ![t] = d]
    BY <1>5 DEF DismissChallenge
  <2> QED  BY <1>5, <2>1, <2>2 DEF DismissChallenge, Event
<1>6. CASE SlashAgent(t)
  <2> DEFINE d == [chain[t] EXCEPT !.status = "Slashed"]
  <2>1. /\ d \in ChainTask /\ Remembers(d) /\ d.status = Told("agentSlashed")
        /\ Pre(d, "agentSlashed") = chain[t]
    BY <1>1, <1>6 DEF SlashAgent, ChainTask, Remembers, Told, Pre
  <2>2. chain' = [chain EXCEPT ![t] = d]
    BY <1>6 DEF SlashAgent
  <2> QED  BY <1>6, <2>1, <2>2 DEF SlashAgent, Event
<1> QED  BY <1>2, <1>3, <1>4, <1>5, <1>6 DEF ChainStep

\* A transaction starts a handler that is on its track, or leaves a gap.
LEMMA ChainSyncs ==
    ASSUME NEW t \in Tasks, SyncInv, ChainStep(t)
    PROVE  SyncInv'
<1>0. PastInv /\ PastInv'
  BY ChainKeeps DEF SyncInv
<1>1. PICK d, event :
        /\ event \in Event
        /\ d \in ChainTask /\ Remembers(d)
        /\ d.status = Told(event)
        /\ Pre(d, event) = chain[t]
        /\ chain' = [chain EXCEPT ![t] = d]
        /\ Emit(t, event)
  BY <1>0, StepTells
<1>2. /\ chain \in [Tasks -> ChainTask] /\ gap \in [Tasks -> BOOLEAN]
      /\ challenges \in [Tasks -> CachedChallenge]
  BY <1>0 DEF SyncInv, PastInv, Typed
<1>3. \A u \in Tasks : chain'[u] = IF u = t THEN d ELSE chain[u]
  BY <1>1, <1>2
<1>4. gap' = [gap EXCEPT ![t] = @ \/ ~up \/ Busy(t)] /\ UNCHANGED <<tasks, challenges, up>>
  BY <1>1 DEF Emit, cache
<1>5. /\ gap' \in [Tasks -> BOOLEAN]
      /\ gap'[t] = (gap[t] \/ ~up \/ Busy(t))
      /\ \A u \in Tasks : u # t => gap'[u] = gap[u]
  BY <1>2, <1>4 DEF Busy
<1> DEFINE new == [task |-> t, event |-> event, read |-> NoTask,
                   pc |-> FirstOperation(event)]
<1>6. new.task = t /\ new.event = event /\ new.pc = FirstOperation(event)
  OBVIOUS
<1>7. jobs' = IF up THEN jobs \cup {new} ELSE jobs
  BY <1>1 DEF Emit
<1> HIDE DEF new
<1>8. ASSUME NEW u \in Tasks, u # t
      PROVE  Synced(u)'
  <2>1. \A k : k.task = u => (k \in jobs' <=> k \in jobs)
    BY <1>6, <1>7, <1>8
  <2> QED  BY <1>3, <1>4, <1>5, <1>8, <2>1, UntouchedSyncs DEF SyncInv
<1>9. ASSUME ~gap'[t]
      PROVE  /\ Busy(t)'
             /\ \A j \in jobs' : j.task = t => OnTrack(j)' /\ Alone(j)'
  <2>1. up /\ ~Busy(t) /\ InSync(t)
    BY <1>5, <1>9 DEF SyncInv, Synced
  <2>2. new \in jobs' /\ \A j \in jobs' : j.task = t => j = new
    BY <1>6, <1>7, <2>1 DEF Busy
  <2>3. tasks'[t] = MirrorTask(Pre(d, event))
    BY <1>1, <1>4, <2>1, MirrorsAgree DEF InSync
  <2>4. challenges'[t] = MirrorChallenge(Pre(d, event))
    BY <1>1, <1>4, <2>1, MirrorsAgree DEF InSync
  <2>5. /\ FirstOperation(event) = "putTask" => event = "taskRegistered"
        /\ ~ FirstOperation(event) \in {"getChallenge", "putChallenge"}
              => MirrorChallenge(Pre(d, event)) = MirrorChallenge(d)
    BY <1>1 DEF FirstOperation, Event, MirrorChallenge, Pre, Remembers, ChainTask, Told
  <2>6. OnTrack(new)'
    BY <1>1, <1>3, <1>6, <2>3, <2>4, <2>5 DEF OnTrack
  <2> QED  BY <1>6, <2>2, <2>6 DEF Busy, Alone
<1>10. Synced(t)'
  BY <1>9 DEF Synced
<1>11. \A j \in jobs' : j.pc \in Operations(j.event)
  <2>1. FirstOperation(event) \in Operations(event)
    BY <1>1 DEF FirstOperation, Operations, Event
  <2> QED  BY <1>6, <1>7, <2>1 DEF SyncInv
<1> QED  BY <1>0, <1>2, <1>4, <1>5, <1>8, <1>10, <1>11 DEF SyncInv

\* The last write of a handler brings the task to what the chain says.
LEMMA UpdatedMirrors ==
    ASSUME NEW j \in jobs, PastInv, OnTrack(j), j.pc = "putTask"
    PROVE  Updated(j) = MirrorTask(chain[j.task])
<1>1. /\ j \in Job /\ chain[j.task] \in ChainTask /\ Remembers(chain[j.task])
      /\ j.event \in Event
  BY DEF PastInv, Typed, Job
<1> DEFINE c == chain[j.task]
<1>2. /\ c.status = Told(j.event)
      /\ j.event # "taskRegistered" => j.read = MirrorTask(Pre(c, j.event))
  BY DEF OnTrack
<1> HIDE DEF c
<1>3. c \in ChainTask /\ Remembers(c)
  BY <1>1 DEF c
<1>4. CASE j.event = "taskRegistered"
  <2>1. Updated(j) = [status |-> "pending", completedAt |-> FALSE, disputeReason |-> FALSE]
    BY <1>4 DEF Updated, NoTask
  <2>2. c.status = "Pending" /\ c.completed = FALSE /\ c.challenged = FALSE
    BY <1>2, <1>3, <1>4 DEF Told, Remembers, ChainTask
  <2>3. MirrorTask(c) = [status |-> "pending", completedAt |-> FALSE, disputeReason |-> FALSE]
    BY <2>2 DEF MirrorTask, View!Served
  <2> QED  BY <2>1, <2>3 DEF c
<1>5. CASE j.event = "taskCompleted"
  <2>1. c.status = "Completed" /\ c.completed = TRUE /\ c.challenged = FALSE
    BY <1>2, <1>3, <1>5 DEF Told, Remembers, ChainTask
  <2>2. j.read = [status |-> "pending", completedAt |-> FALSE, disputeReason |-> FALSE]
    BY <1>2, <1>3, <1>5, <2>1 DEF Pre, MirrorTask, View!Served, ChainTask
  <2>3. Updated(j) = [status |-> "completed", completedAt |-> TRUE, disputeReason |-> FALSE]
    <3>1. Updated(j) = [j.read EXCEPT !.status = "completed", !.completedAt = TRUE]
      BY <1>5 DEF Updated
    <3>2. j.read \in CachedTask
      BY <1>1 DEF Job
    <3>3. /\ j.read.completedAt = FALSE
          /\ j.read.disputeReason = FALSE
      BY <2>2
    <3> QED  BY <2>1, <3>1, <3>2, <3>3 DEF CachedTask
  <2>4. MirrorTask(c) = [status |-> "completed", completedAt |-> TRUE, disputeReason |-> FALSE]
    BY <2>1 DEF MirrorTask, View!Served
  <2> QED  BY <2>3, <2>4 DEF c
<1>6. CASE j.event = "challengeFiled"
  <2>1. c.status = "Challenged" /\ c.completed \in BOOLEAN /\ c.challenged = TRUE
    BY <1>2, <1>3, <1>6 DEF Told, Remembers, ChainTask
  <2>2. j.read = [status |-> IF c.completed THEN "completed" ELSE "pending",
                  completedAt |-> c.completed, disputeReason |-> FALSE]
    BY <1>2, <1>3, <1>6, <2>1 DEF Pre, MirrorTask, View!Served, ChainTask
  <2>3. Updated(j) = [status |-> "disputed", completedAt |-> c.completed, disputeReason |-> TRUE]
    <3>1. Updated(j) = [j.read EXCEPT !.status = "disputed", !.disputeReason = TRUE]
      BY <1>6 DEF Updated
    <3>2. j.read \in CachedTask
      BY <1>1 DEF Job
    <3>3. /\ j.read.completedAt = c.completed
          /\ j.read.disputeReason = FALSE
      BY <2>2
    <3> QED  BY <2>1, <3>1, <3>2, <3>3 DEF CachedTask
  <2>4. MirrorTask(c) = [status |-> "disputed", completedAt |-> c.completed, disputeReason |-> TRUE]
    BY <2>1 DEF MirrorTask, View!Served
  <2> QED  BY <2>3, <2>4 DEF c
<1>7. CASE j.event \in {"challengeDismissed", "agentSlashed"}
  <2>1. /\ c.status = IF j.event = "agentSlashed" THEN "Slashed" ELSE "Dismissed"
        /\ c.completed \in BOOLEAN /\ c.challenged = TRUE
    BY <1>2, <1>3, <1>7 DEF Told, Remembers, ChainTask
  <2>2. j.read = [status |-> "disputed", completedAt |-> c.completed, disputeReason |-> TRUE]
    BY <1>2, <1>3, <1>7, <2>1 DEF Pre, MirrorTask, View!Served, ChainTask
  <2>3. Updated(j) = [status |-> IF j.event = "agentSlashed" THEN "failed" ELSE "completed",
                      completedAt |-> TRUE, disputeReason |-> TRUE]
    <3>1. Updated(j) = [j.read EXCEPT
                         !.status = IF j.event = "agentSlashed" THEN "failed" ELSE "completed",
                         !.completedAt = TRUE]
      BY <1>7 DEF Updated
    <3>2. j.read \in CachedTask
      BY <1>1 DEF Job
    <3>3. /\ j.read.completedAt = c.completed
          /\ j.read.disputeReason = TRUE
      BY <2>2
    <3> QED  BY <2>1, <3>1, <3>2, <3>3 DEF CachedTask
  <2>4. MirrorTask(c) = [status |-> IF j.event = "agentSlashed" THEN "failed" ELSE "completed",
                         completedAt |-> TRUE, disputeReason |-> TRUE]
    BY <1>7, <2>1 DEF MirrorTask, View!Served
  <2> QED  BY <2>3, <2>4 DEF c
<1> QED  BY <1>1, <1>4, <1>5, <1>6, <1>7 DEF Event

\* What a handler finds where it looks.
LEMMA FindsTheRecord ==
    ASSUME NEW j \in jobs, PastInv, OnTrack(j), j.pc \in Operations(j.event)
    PROVE  /\ j.pc = "getTask" => tasks[j.task] # NoTask /\ j.event # "taskRegistered"
           /\ j.pc = "getChallenge" => challenges[j.task] # "absent"
           /\ j.pc \in {"getChallenge", "putChallenge"}
                => /\ j.event \in {"challengeFiled", "challengeDismissed", "agentSlashed"}
                   /\ Verdict(j.event) = MirrorChallenge(chain[j.task])
           /\ j.pc = "getChallenge"
                => j.event \in {"challengeDismissed", "agentSlashed"}
<1>1. /\ j \in Job /\ chain[j.task] \in ChainTask /\ Remembers(chain[j.task])
      /\ j.event \in Event
  BY DEF PastInv, Typed, Job
<1> DEFINE c == chain[j.task]
<1>2. /\ c.status = Told(j.event)
      /\ tasks[j.task] = MirrorTask(Pre(c, j.event))
      /\ j.pc = "getChallenge" => challenges[j.task] = MirrorChallenge(Pre(c, j.event))
  BY DEF OnTrack
<1> HIDE DEF c
<1>3. j.pc = "getTask" => tasks[j.task] # NoTask /\ j.event # "taskRegistered"
  BY <1>1, <1>2 DEF c, Operations, MirrorTask, Pre, NoTask, View!Served, ChainTask, Event
<1>4. j.pc \in {"getChallenge", "putChallenge"}
        => j.event \in {"challengeFiled", "challengeDismissed", "agentSlashed"}
  BY <1>1, <1>2 DEF Operations, Event
<1>5. j.pc = "getChallenge" => j.event \in {"challengeDismissed", "agentSlashed"}
  BY <1>1, <1>2 DEF Operations, Event
<1>6. j.pc = "getChallenge" => challenges[j.task] # "absent"
  BY <1>1, <1>2, <1>5 DEF c, MirrorChallenge, Pre, View!Served, ChainTask, Told, Remembers
<1>7. j.pc \in {"getChallenge", "putChallenge"} => Verdict(j.event) = MirrorChallenge(c)
  BY <1>1, <1>2, <1>4 DEF c, Verdict, MirrorChallenge, View!Served, ChainTask, Told, Remembers
<1> QED  BY <1>3, <1>4, <1>5, <1>6, <1>7 DEF c

\* What a step of one handler leaves alone: the tasks, caches and handlers of
\* every other task, and the gaps.
LEMMA OthersUntouched ==
    ASSUME NEW j \in jobs, SyncInv, HandlerStep(j), NEW u \in Tasks, u # j.task
    PROVE  Synced(u)'
<1>1. /\ j.task \in Tasks /\ jobs \subseteq Job /\ tasks \in [Tasks -> CachedTask]
      /\ challenges \in [Tasks -> CachedChallenge]
  BY DEF SyncInv, PastInv, Typed, Job
<1>2. \/ Finish(j)
      \/ \E pc, read : Continue(j, pc, read)
  BY DEF HandlerStep, PutTask, GetTask, PutChallenge, GetChallenge
<1>3. ASSUME NEW pc, NEW read, Continue(j, pc, read)
      PROVE  \A k : k.task = u => (k \in jobs' <=> k \in jobs)
  <2> DEFINE next == [j EXCEPT !.pc = pc, !.read = read]
  <2>1. jobs' = (jobs \ {j}) \cup {next}
    BY <1>3 DEF Continue
  <2>2. next.task = j.task
    BY <1>1 DEF Job
  <2> HIDE DEF next
  <2> QED  BY <2>1, <2>2
<1>4. \A k : k.task = u => (k \in jobs' <=> k \in jobs)
  BY <1>2, <1>3 DEF Finish
<1>5. chain' = chain /\ gap' = gap
  BY DEF HandlerStep, PutTask, GetTask, PutChallenge, GetChallenge
<1>6. tasks'[u] = tasks[u] /\ challenges'[u] = challenges[u]
  BY <1>1 DEF HandlerStep, PutTask, GetTask, PutChallenge, GetChallenge, cache
<1> QED  BY <1>4, <1>5, <1>6, UntouchedSyncs DEF SyncInv

\* The handler that ends leaves both caches as the chain is.
LEMMA FinishSyncs ==
    ASSUME NEW j \in jobs, SyncInv, ~gap[j.task],
           Finish(j), UNCHANGED <<chain, challenges, gap>>,
           tasks'[j.task] = MirrorTask(chain[j.task]),
           ~ j.pc \in {"getChallenge", "putChallenge"}
    PROVE  Synced(j.task)'
<1>1. j.task \in Tasks
  BY DEF SyncInv, PastInv, Typed, Job
<1>2. OnTrack(j) /\ Alone(j)
  BY <1>1 DEF SyncInv, Synced
<1>3. \A k \in jobs' : k.task # j.task
  BY <1>2 DEF Alone, Finish
<1>4. Mirrored(j.task)' = MirrorTask(chain'[j.task])
  BY DEF Mirrored, MirrorTask
<1>5. MirroredChallenge(j.task)' = MirrorChallenge(chain'[j.task])
  BY DEF MirroredChallenge, MirrorChallenge
<1>6. challenges[j.task] = MirrorChallenge(chain[j.task])
  BY <1>2 DEF OnTrack
<1>7. InSync(j.task)'
  BY <1>4, <1>5, <1>6 DEF InSync
<1> QED  BY <1>3, <1>7 DEF Synced, Busy

\* The handler that goes on stays on its track.
LEMMA ContinueSyncs ==
    ASSUME NEW j \in jobs, SyncInv, ~gap[j.task],
           NEW pc, NEW read, Continue(j, pc, read),
           UNCHANGED <<chain, tasks, gap>>,
           pc \in {"getChallenge", "putChallenge"}
             => challenges' = challenges /\ j.pc \in {"getChallenge", "putChallenge"},
           ~ pc \in {"getChallenge", "putChallenge"}
             => challenges'[j.task] = MirrorChallenge(chain[j.task]),
           pc = "putTask" => read = tasks[j.task]
    PROVE  Synced(j.task)'
<1>1. j.task \in Tasks /\ j \in Job
  BY DEF SyncInv, PastInv, Typed, Job
<1>2. OnTrack(j) /\ Alone(j)
  BY <1>1 DEF SyncInv, Synced
<1> DEFINE next == [j EXCEPT !.pc = pc, !.read = read]
<1>3. next.task = j.task /\ next.event = j.event /\ next.pc = pc /\ next.read = read
  BY <1>1 DEF Job
<1>4. next \in jobs' /\ \A k \in jobs' : k.task = j.task => k = next
  BY <1>2 DEF Alone, Continue
<1> HIDE DEF next
<1>5. OnTrack(next)'
  BY <1>2, <1>3 DEF OnTrack
<1> QED  BY <1>3, <1>4, <1>5 DEF Synced, Busy, Alone

LEMMA HandlerSyncs ==
    ASSUME NEW j \in jobs, SyncInv, HandlerStep(j)
    PROVE  SyncInv'
<1>0. PastInv /\ PastInv'
  BY HandlerKeeps DEF SyncInv
<1>1. /\ j.task \in Tasks /\ j \in Job /\ j.event \in Event
      /\ gap \in [Tasks -> BOOLEAN] /\ tasks \in [Tasks -> CachedTask]
      /\ challenges \in [Tasks -> CachedChallenge]
  BY DEF SyncInv, PastInv, Typed, Job
<1>2. chain' = chain /\ gap' = gap
  BY DEF HandlerStep, PutTask, GetTask, PutChallenge, GetChallenge
<1>3. j.pc \in Operations(j.event)
  BY DEF SyncInv
<1>4. challenges' \in [Tasks -> CachedChallenge]
  <2>1. CASE PutChallenge(j)
    <3>1. Verdict(j.event) \in CachedChallenge
      BY <1>1, <1>3, <2>1 DEF PutChallenge, Operations, Event, Verdict, CachedChallenge
    <3> QED  BY <1>1, <2>1, <3>1 DEF PutChallenge
  <2>2. CASE PutTask(j) \/ GetTask(j) \/ GetChallenge(j)
    BY <1>1, <2>2 DEF PutTask, GetTask, GetChallenge, cache
  <2> QED  BY <2>1, <2>2 DEF HandlerStep
<1>5. \A k \in jobs' : k.pc \in Operations(k.event)
  <2>1. \/ Finish(j)
        \/ \E pc, read : pc \in Operations(j.event) /\ Continue(j, pc, read)
    BY <1>1, <1>3 DEF HandlerStep, PutTask, GetTask, PutChallenge, GetChallenge, Operations, Event
  <2>2. ASSUME NEW pc \in Operations(j.event), NEW read, Continue(j, pc, read)
        PROVE  \A k \in jobs' : k.pc \in Operations(k.event)
    <3> DEFINE next == [j EXCEPT !.pc = pc, !.read = read]
    <3>1. jobs' = (jobs \ {j}) \cup {next}
      BY <2>2 DEF Continue
    <3>2. next.pc = pc /\ next.event = j.event
      BY <1>1 DEF Job
    <3> HIDE DEF next
    <3> QED  BY <3>1, <3>2 DEF SyncInv
  <2> QED  BY <2>1, <2>2 DEF Finish, SyncInv
<1>6. ASSUME ~gap[j.task]
      PROVE  Synced(j.task)'
  <2>0. OnTrack(j)
    BY <1>1, <1>6 DEF SyncInv, Synced
  <2>1. CASE PutTask(j)
    <3>1. tasks'[j.task] = MirrorTask(chain[j.task])
      BY <1>0, <1>1, <2>0, <2>1, UpdatedMirrors DEF PutTask
    <3> QED  BY <1>6, <2>1, <3>1, FinishSyncs DEF PutTask
  <2>2. CASE GetTask(j)
    <3>1. Continue(j, "putTask", tasks[j.task])
      BY <1>0, <1>3, <2>0, <2>2, FindsTheRecord DEF GetTask
    <3>2. challenges'[j.task] = MirrorChallenge(chain[j.task])
      BY <2>0, <2>2 DEF OnTrack, GetTask, cache
    <3> QED  BY <1>6, <2>2, <3>1, <3>2, ContinueSyncs DEF GetTask, cache
  <2>3. CASE PutChallenge(j)
    <3>1. /\ j.event \in {"challengeFiled", "challengeDismissed", "agentSlashed"}
          /\ Verdict(j.event) = MirrorChallenge(chain[j.task])
      BY <1>0, <1>3, <2>0, <2>3, FindsTheRecord DEF PutChallenge
    <3>2. challenges'[j.task] = MirrorChallenge(chain[j.task])
      BY <1>1, <2>3, <3>1 DEF PutChallenge
    <3> QED  BY <1>6, <2>3, <3>2, ContinueSyncs DEF PutChallenge
  <2>4. CASE GetChallenge(j)
    <3>1. challenges[j.task] # "absent"
      BY <1>0, <1>3, <2>0, <2>4, FindsTheRecord DEF GetChallenge
    <3>2. Continue(j, "putChallenge", NoTask)
      BY <2>4, <3>1 DEF GetChallenge
    <3> QED  BY <1>6, <2>4, <3>2, ContinueSyncs DEF GetChallenge, cache
  <2> QED  BY <2>1, <2>2, <2>3, <2>4 DEF HandlerStep
<1>7. Synced(j.task)'
  BY <1>2, <1>6 DEF Synced
<1>8. \A u \in Tasks : u # j.task => Synced(u)'
  BY OthersUntouched
<1> QED  BY <1>0, <1>1, <1>2, <1>4, <1>5, <1>7, <1>8 DEF SyncInv

LEMMA InitSync == Init => SyncInv
<1> SUFFICES ASSUME Init PROVE SyncInv
  OBVIOUS
<1>1. PastInv
  BY InitPast
<1>2. \A t \in Tasks : Mirrored(t) = NoTask /\ MirroredChallenge(t) = "absent"
  BY DEF Init, Mirrored, MirroredChallenge
<1>3. \A t \in Tasks : InSync(t)
  BY <1>2 DEF Init, InSync
<1> QED  BY <1>1, <1>3 DEF Init, SyncInv, Synced, CachedChallenge

\* A handler that is cut short leaves a gap.
LEMMA CutSyncs ==
    ASSUME SyncInv, jobs' \subseteq jobs, UNCHANGED <<chain, cache>>,
           gap' \in [Tasks -> BOOLEAN],
           \A t \in Tasks : gap[t] => gap'[t],
           \A j \in jobs : j \in jobs' \/ gap'[j.task]
    PROVE  SyncInv'
<1>1. PastInv'
  BY DEF SyncInv, PastInv, Typed, cache
<1>2. ASSUME NEW t \in Tasks, ~gap'[t]
      PROVE  /\ ~Busy(t)' => InSync(t)'
             /\ \A j \in jobs' : j.task = t => OnTrack(j)' /\ Alone(j)'
  <2>1. \A j \in jobs : j.task = t => j \in jobs'
    BY <1>2
  <2>2. Synced(t) /\ ~gap[t]
    BY <1>2 DEF SyncInv
  <2>3. ~Busy(t)' => InSync(t)'
    BY <2>1, <2>2 DEF Synced, Busy, InSync, Mirrored, MirroredChallenge, cache
  <2>4. ASSUME NEW j \in jobs', j.task = t
        PROVE  OnTrack(j)' /\ Alone(j)'
    <3>1. OnTrack(j) /\ Alone(j)
      BY <2>2, <2>4 DEF Synced
    <3> QED  BY <3>1 DEF OnTrack, Alone, cache
  <2> QED  BY <2>3, <2>4
<1> QED  BY <1>1, <1>2 DEF SyncInv, Synced, cache

LEMMA InductiveSync == SyncInv /\ [Next]_vars => SyncInv'
<1> SUFFICES ASSUME SyncInv, [Next]_vars
             PROVE  SyncInv'
  OBVIOUS
<1>0. gap \in [Tasks -> BOOLEAN] /\ jobs \subseteq Job
  BY DEF SyncInv, PastInv, Typed
<1>1. CASE \E t \in Tasks : ChainStep(t)
  BY <1>1, ChainSyncs
<1>2. CASE \E j \in jobs : HandlerStep(j)
  BY <1>2, HandlerSyncs
<1>3. ASSUME NEW j \in jobs, HandlerFail(j)
      PROVE  SyncInv'
  <2>1. j.task \in Tasks
    BY <1>0 DEF Job
  <2> QED  BY <1>0, <1>3, <2>1, CutSyncs DEF HandlerFail, Finish, cache
<1>4. CASE Stop
  <2>1. \A t \in Tasks : gap'[t] = (gap[t] \/ Busy(t))
    BY <1>0, <1>4 DEF Stop
  <2>2. gap' \in [Tasks -> BOOLEAN]
    BY <1>0, <1>4 DEF Stop, Busy
  <2>3. \A j \in jobs : j.task \in Tasks /\ Busy(j.task)
    BY <1>0 DEF Job, Busy
  <2> QED  BY <1>4, <2>1, <2>2, <2>3, CutSyncs DEF Stop, cache
<1>5. CASE ListUnresolved \/ ReadNext \/ Answer \/ Start \/ UNCHANGED vars
  <2>1. UNCHANGED <<chain, cache, jobs, gap>>
    BY <1>5 DEF ListUnresolved, ReadNext, Answer, Start, vars, cache
  <2> QED  BY <1>0, <2>1, CutSyncs DEF cache
<1> QED  BY <1>1, <1>2, <1>3, <1>4, <1>5 DEF Next

\* Once the handlers of a task have ended, its cached status, completedAt and
\* disputeReason and the status of its cached challenge are what the chain says,
\* unless an event of the task was missed, cut short or overtaken.
THEOREM SyncCorrect == Spec => []InSyncWhenQuiet
<1>1. SyncInv => InSyncWhenQuiet
  BY DEF SyncInv, Synced, InSyncWhenQuiet
<1> QED  BY <1>1, InitSync, InductiveSync, PTL DEF Spec

-----------------------------------------------------------------------------
(* The list of unresolved challenges                                        *)

\* A request has read every open challenge that it has not still to read, and
\* found open only what was so when it came.
Fair(t) ==
    /\ t \in reader.open => challenges[t] # "absent"
    /\ t \in reader.keys \ reader.open => challenges[t] \in {"completed", "failed"}
    /\ t \in reader.open \ reader.keys /\ challenges[t] = "disputed"
         => t \in reader.results
    /\ t \in reader.results => t \in reader.open

ListInv ==
    /\ SyncInv
    /\ reader \in Reader
    /\ reader.active => \A t \in Tasks : ~gap[t] => Fair(t)

\* A challenge that nothing overtakes is written by the filing that finds none,
\* and by the verdict that finds it disputed.
LEMMA ChallengesOnlyAdvance ==
    ASSUME NEW j \in jobs, SyncInv, PutChallenge(j), ~gap[j.task]
    PROVE  LET old == challenges[j.task]
               new == challenges'[j.task]
           IN  /\ \/ old = "absent" /\ new = "disputed"
                  \/ old = "disputed" /\ new \in {"completed", "failed"}
               /\ \A u \in Tasks : u # j.task => challenges'[u] = challenges[u]
<1>1. /\ j \in Job /\ j.task \in Tasks /\ chain[j.task] \in ChainTask
      /\ Remembers(chain[j.task]) /\ j.event \in Event
      /\ challenges \in [Tasks -> CachedChallenge] /\ PastInv
  BY DEF SyncInv, PastInv, Typed, Job
<1>2. OnTrack(j) /\ j.pc \in Operations(j.event) /\ j.pc = "putChallenge"
  BY <1>1 DEF SyncInv, Synced, PutChallenge
<1>3. j.event \in {"challengeFiled", "challengeDismissed", "agentSlashed"}
  BY <1>1, <1>2, FindsTheRecord
<1>4. challenges[j.task] = MirrorChallenge(Pre(chain[j.task], j.event))
  BY <1>2 DEF OnTrack
<1>5. challenges[j.task] = IF j.event = "challengeFiled" THEN "absent" ELSE "disputed"
  BY <1>1, <1>2, <1>3, <1>4
  DEF MirrorChallenge, Pre, View!Served, ChainTask, Told, Remembers, OnTrack
<1>6. /\ challenges'[j.task] = Verdict(j.event)
      /\ \A u \in Tasks : u # j.task => challenges'[u] = challenges[u]
  BY <1>1 DEF PutChallenge
<1> QED  BY <1>3, <1>5, <1>6 DEF Verdict

\* A step that leaves the reader alone, lets challenges only advance and loses
\* no gap.
LEMMA ReaderKeeps ==
    ASSUME ListInv, SyncInv', UNCHANGED reader,
           \A t \in Tasks : ~gap'[t] =>
             /\ ~gap[t]
             /\ \/ challenges'[t] = challenges[t]
                \/ challenges[t] = "absent" /\ challenges'[t] = "disputed"
                \/ challenges[t] = "disputed" /\ challenges'[t] \in {"completed", "failed"}
    PROVE  ListInv'
<1>1. ASSUME reader.active, NEW t \in Tasks, ~gap'[t]
      PROVE  Fair(t)'
  <2>1. Fair(t)
    BY <1>1 DEF ListInv
  <2> QED  BY <1>1, <2>1 DEF Fair
<1> QED  BY <1>1 DEF ListInv

LEMMA InitList == Init => ListInv
  BY InitSync DEF Init, ListInv, NoReader, Reader

\* The first page leaves out only what is not newer than all it lists, and only
\* when it is full.
LEMMA FirstPage ==
    ASSUME NEW S \in SUBSET Tasks, NEW page \in Pages(S, 0), NEW t \in S \ page
    PROVE  /\ Cardinality(page) = Limit
           /\ \A u \in page : filedAt[t] <= filedAt[u]
<1>1. page \in SUBSET S
  BY DEF Pages
<1>2. PICK skipped \in SUBSET (S \ page) :
        /\ Cardinality(skipped) = Smaller(0, Cardinality(S))
        /\ Cardinality(page) = Smaller(Limit, Cardinality(S) - Cardinality(skipped))
        /\ \A s \in page, r \in (S \ skipped) \ page : filedAt[r] <= filedAt[s]
  BY DEF Pages
<1>3. IsFiniteSet(S) /\ IsFiniteSet(skipped) /\ Cardinality(S) \in Nat
  BY <1>1, TasksAssumption, FS_Subset, FS_CardinalityType
<1>4. skipped = {}
  <2>1. Cardinality(skipped) = 0
    BY <1>2, <1>3 DEF Smaller
  <2> QED  BY <1>3, <2>1, FS_EmptySet
<1>5. Cardinality(page) = Smaller(Limit, Cardinality(S))
  <2>1. Cardinality(skipped) = 0
    BY <1>2, <1>3 DEF Smaller
  <2> QED  BY <1>2, <1>3, <2>1
<1>6. Cardinality(page) # Cardinality(S)
  <2>1. Cardinality(S) = Cardinality(page) => S = page
    BY <1>1, <1>3, FS_Subset
  <2> QED  BY <2>1
<1> QED  BY <1>2, <1>4, <1>5, <1>6 DEF Smaller

LEMMA InductiveList == ListInv /\ [Next]_vars => ListInv'
<1> SUFFICES ASSUME ListInv, [Next]_vars
             PROVE  ListInv'
  OBVIOUS
<1>0. /\ SyncInv /\ SyncInv' /\ reader \in Reader
      /\ challenges \in [Tasks -> CachedChallenge] /\ gap \in [Tasks -> BOOLEAN]
      /\ jobs \subseteq Job
  BY InductiveSync DEF ListInv, SyncInv, PastInv, Typed
<1>1. ASSUME NEW t \in Tasks, ChainStep(t)
      PROVE  ListInv'
  <2>1. UNCHANGED <<challenges, reader>> /\ gap' = [gap EXCEPT ![t] = @ \/ ~up \/ Busy(t)]
    BY <1>1 DEF ChainStep, RegisterTask, CompleteTask, FileChallenge, DismissChallenge,
                SlashAgent, Emit, cache
  <2>2. \A u \in Tasks : ~gap'[u] => ~gap[u]
    BY <1>0, <2>1
  <2> QED  BY <1>0, <2>1, <2>2, ReaderKeeps
<1>2. ASSUME NEW j \in jobs, PutChallenge(j)
      PROVE  ListInv'
  <2>1. UNCHANGED <<gap, reader>>
    BY <1>2 DEF PutChallenge
  <2>2. \A u \in Tasks : u # j.task => challenges'[u] = challenges[u]
    BY <1>0, <1>2 DEF PutChallenge
  <2> QED  BY <1>0, <1>2, <2>1, <2>2, ChallengesOnlyAdvance, ReaderKeeps
<1>3. CASE \/ \E j \in jobs : PutTask(j) \/ GetTask(j) \/ GetChallenge(j)
           \/ Start \/ UNCHANGED vars
  <2>1. UNCHANGED <<challenges, gap, reader>>
    BY <1>3 DEF PutTask, GetTask, GetChallenge, Start, vars, cache
  <2> QED  BY <1>0, <2>1, ReaderKeeps
<1>4. ASSUME NEW j \in jobs, HandlerFail(j)
      PROVE  ListInv'
  <2>1. UNCHANGED <<challenges, reader>> /\ gap' = [gap EXCEPT ![j.task] = TRUE]
    BY <1>4 DEF HandlerFail, cache
  <2>2. \A u \in Tasks : ~gap'[u] => ~gap[u]
    BY <1>0, <2>1
  <2> QED  BY <1>0, <2>1, <2>2, ReaderKeeps
<1>5. CASE Stop \/ Answer
  <2>1. reader' \in Reader /\ ~reader'.active
    <3>1. CASE Stop
      BY <3>1 DEF Stop, NoReader, Reader
    <3>2. CASE Answer
      <4>1. PICK page \in Pages(reader.results, reader.offset) :
              reader' = [NoReader EXCEPT !.page = page]
        BY <3>2 DEF Answer
      <4>2. page \subseteq Tasks
        BY <1>0, <4>1 DEF Pages, Reader
      <4> QED  BY <4>1, <4>2 DEF NoReader, Reader
    <3> QED  BY <1>5, <3>1, <3>2
  <2> QED  BY <1>0, <2>1 DEF ListInv
<1>6. CASE ListUnresolved
  <2>1. /\ UNCHANGED <<challenges, gap>> /\ reader'.results = {}
        /\ reader'.open = {t \in Tasks : challenges[t] = "disputed"}
        /\ reader'.keys = {t \in Tasks : challenges[t] # "absent"}
        /\ reader' \in Reader
    BY <1>0, <1>6 DEF ListUnresolved, cache, Reader, NoReader
  <2>2. \A t \in Tasks : Fair(t)'
    BY <1>0, <2>1 DEF Fair, CachedChallenge
  <2> QED  BY <1>0, <2>1, <2>2 DEF ListInv
<1>7. CASE ReadNext
  <2>1. PICK t \in reader.keys :
          reader' = [reader EXCEPT
                       !.keys = @ \ {t},
                       !.results = @ \cup {u \in {t} : Unresolved(challenges[u])}]
    BY <1>7 DEF ReadNext
  <2>2. t \in Tasks /\ UNCHANGED <<challenges, gap>> /\ reader.active
    BY <1>0, <1>7 DEF ReadNext, Reader, cache
  <2>3. /\ reader'.active = reader.active /\ reader'.open = reader.open
        /\ reader'.keys = reader.keys \ {t}
        /\ reader'.results = reader.results \cup {u \in {t} : Unresolved(challenges[u])}
    BY <1>0, <2>1 DEF Reader
  <2>4. reader' \in Reader
    BY <1>0, <2>1, <2>2, <2>3 DEF Reader
  <2>5. ASSUME NEW u \in Tasks, ~gap[u]
        PROVE  Fair(u)'
    <3>1. Fair(u)
      BY <2>2, <2>5 DEF ListInv
    <3>2. CASE u = t
      BY <2>2, <2>3, <3>1, <3>2 DEF Fair, Unresolved
    <3>3. CASE u # t
      BY <2>2, <2>3, <3>1, <3>3 DEF Fair
    <3> QED  BY <3>2, <3>3
  <2> QED  BY <1>0, <2>2, <2>3, <2>4, <2>5 DEF ListInv
<1> QED
  BY <1>1, <1>2, <1>3, <1>4, <1>5, <1>6, <1>7 DEF Next, HandlerStep

\* What the request answers with is sound.
LEMMA AnswerIsSound ==
    ASSUME ListInv, Answer
    PROVE  /\ \A t \in reader.open \ reader'.page :
                reader.offset = 0 /\ ~gap[t] /\ challenges[t] = "disputed"
                => /\ Cardinality(reader'.page) = Limit
                   /\ \A u \in reader'.page : filedAt[t] <= filedAt[u]
           /\ \A t \in reader'.page : ~gap[t] => t \in reader.open
<1>1. reader \in Reader /\ reader.active /\ reader.keys = {}
  BY DEF ListInv, Answer
<1>2. PICK page \in Pages(reader.results, reader.offset) :
        reader' = [NoReader EXCEPT !.page = page]
  BY DEF Answer
<1>3. reader'.page = page /\ page \subseteq reader.results
  BY <1>2 DEF NoReader, Pages
<1>4. reader.results \subseteq Tasks /\ reader.open \subseteq Tasks
  BY <1>1 DEF Reader
<1>5. \A t \in Tasks : ~gap[t] => Fair(t)
  BY <1>1 DEF ListInv
<1>6. ASSUME NEW t \in reader.open \ page,
             reader.offset = 0, ~gap[t], challenges[t] = "disputed"
      PROVE  /\ Cardinality(page) = Limit
             /\ \A u \in page : filedAt[t] <= filedAt[u]
  <2>1. t \in reader.results \ page
    BY <1>1, <1>4, <1>5, <1>6 DEF Fair
  <2>2. page \in Pages(reader.results, 0)
    BY <1>2, <1>6
  <2> QED  BY <1>4, <2>1, <2>2, FirstPage
<1>7. \A t \in page : ~gap[t] => t \in reader.open
  BY <1>3, <1>4, <1>5 DEF Fair
<1> QED  BY <1>3, <1>6, <1>7

\* A request for the unresolved challenges, overlapped by whatever handlers: its
\* first page leaves out a challenge that was open all along only when Limit
\* others, none filed before it, fill the page, and no page lists a challenge
\* that was not open when the request came.
THEOREM ListCorrect == Spec => ListIsSound
<1>1. Spec => []ListInv
  BY InitList, InductiveList, PTL DEF Spec
<1>2. ListInv /\ [Next]_vars =>
        [reader.active /\ up' /\ ~reader'.active =>
           /\ \A t \in reader.open \ reader'.page :
                reader.offset = 0 /\ ~gap[t] /\ challenges[t] = "disputed"
                => /\ Cardinality(reader'.page) = Limit
                   /\ \A u \in reader'.page : filedAt[t] <= filedAt[u]
           /\ \A t \in reader'.page : ~gap[t] => t \in reader.open]_vars
  <2> SUFFICES ASSUME ListInv, Next, reader.active, up', ~reader'.active
               PROVE  Answer
    BY AnswerIsSound
  <2>1. reader \in Reader /\ reader' # reader
    BY DEF ListInv
  <2>2. ~ReadNext /\ ~ListUnresolved /\ ~Stop /\ ~Start
    BY <2>1 DEF ReadNext, ListUnresolved, Stop, Start, Reader
  <2>3. ~ \E t \in Tasks : ChainStep(t)
    BY <2>1 DEF ChainStep, RegisterTask, CompleteTask, FileChallenge,
                DismissChallenge, SlashAgent, Emit
  <2>4. ~ \E j \in jobs : HandlerStep(j) \/ HandlerFail(j)
    BY <2>1 DEF HandlerStep, HandlerFail, PutTask, GetTask, PutChallenge, GetChallenge
  <2> QED  BY <2>2, <2>3, <2>4 DEF Next
<1> QED  BY <1>1, <1>2, PTL DEF Spec, ListIsSound

=============================================================================
