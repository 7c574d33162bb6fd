------------------------------ MODULE TaskCache ------------------------------
(***************************************************************************)
(* The tasks and challenges the API caches: the listener of SyncService on *)
(* the adjudication program, the caches it writes and the requests that    *)
(* read them.                                                              *)
(*                                                                         *)
(* The listener starts one asynchronous handler per event and awaits none  *)
(* of them.  A job is a handler between two awaits: its pc is the store    *)
(* operation it waits for, whose effect and answer are one step.           *)
(***************************************************************************)
EXTENDS Integers, FiniteSets

CONSTANTS
    Tasks,               \* task ids, all of one agent
    Times,               \* bound: the clock of the chain, in seconds
    MaxEvents,           \* bound: transactions on the tasks
    Limit,               \* entries a request may list at most
    Offsets              \* entries it may ask to skip

ASSUME TasksAssumption == IsFiniteSet(Tasks)
ASSUME NumbersAssumption == Times \subseteq Nat /\ Limit \in Nat /\ Offsets \subseteq Nat

VARIABLES
    chain,               \* task -> its TaskRecord
    filedAt,             \* task -> when it was challenged; 0 before
    tasks,               \* task: keys of the store
    challenges,          \* challenge: keys of the store
    jobs,                \* handlers that have not finished
    up,                  \* the process runs and its listeners are attached
    gap,                 \* history: task -> an event of it was missed, cut
                         \* short or overlapped by the next
    reader               \* a request for the unresolved challenges

cache == <<tasks, challenges>>

vars == <<chain, filedAt, cache, jobs, up, gap, reader>>

-----------------------------------------------------------------------------
(* Types                                                                    *)

Event == {"taskRegistered", "taskCompleted", "challengeFiled",
          "challengeDismissed", "agentSlashed"}

ChainTask ==
    [status     : {"Unregistered", "Pending", "Completed", "Challenged",
                   "Dismissed", "Slashed"},
     completed  : BOOLEAN,
     challenged : BOOLEAN]

\* A cached task; completedAt and disputeReason by whether they are set.
CachedTask ==
    [status        : {"absent", "pending", "completed", "disputed", "failed"},
     completedAt   : BOOLEAN,
     disputeReason : BOOLEAN]

NoTask == [status |-> "absent", completedAt |-> FALSE, disputeReason |-> FALSE]

CachedChallenge == {"absent", "disputed", "completed", "failed"}

\* read is the record a get has returned to the handler.
Job ==
    [task : Tasks, event : Event, read : CachedTask,
     pc : {"putTask", "getTask", "getChallenge", "putChallenge"}]

\* A request has taken the keys and gets one after the other; open are the
\* challenges cached as disputed when it came, page what the last one answered.
Reader ==
    [active : BOOLEAN, offset : Offsets \cup {0}, open : SUBSET Tasks,
     keys : SUBSET Tasks, results : SUBSET Tasks, page : SUBSET Tasks]

NoReader ==
    [active |-> FALSE, offset |-> 0, open |-> {}, keys |-> {}, results |-> {},
     page |-> {}]

TypeOK ==
    /\ chain \in [Tasks -> ChainTask]
    /\ filedAt \in [Tasks -> Times \cup {0}]
    /\ tasks \in [Tasks -> CachedTask]
    /\ challenges \in [Tasks -> CachedChallenge]
    /\ jobs \in SUBSET Job
    /\ \A j, k \in jobs : j.task = k.task /\ j.event = k.event => j = k
    /\ up \in BOOLEAN
    /\ gap \in [Tasks -> BOOLEAN]
    /\ reader \in Reader

Init ==
    /\ chain = [t \in Tasks |-> [status |-> "Unregistered", completed |-> FALSE,
                                 challenged |-> FALSE]]
    /\ filedAt = [t \in Tasks |-> 0]
    /\ tasks = [t \in Tasks |-> NoTask]
    /\ challenges = [t \in Tasks |-> "absent"]
    /\ jobs = {}
    /\ up = TRUE
    /\ gap = [t \in Tasks |-> FALSE]
    /\ reader = NoReader

-----------------------------------------------------------------------------
(* The chain, and the listener                                              *)

\* The statuses a task has had: one more with every transaction.
Past(c) ==
    {s \in {c.status} : s # "Unregistered"}
    \cup {s \in {"Pending"}    : c.status # "Unregistered"}
    \cup {s \in {"Completed"}  : c.completed}
    \cup {s \in {"Challenged"} : c.challenged}

Busy(t) == \E j \in jobs : j.task = t

FirstOperation(event) ==
    CASE event = "taskRegistered" -> "putTask"
      [] event = "taskCompleted"  -> "getTask"
      [] event = "challengeFiled" -> "putChallenge"
      [] OTHER                    -> "getChallenge"

\* A transaction emits its event; the listener starts the handler, or nobody
\* is there to hear it and the event is not asked for again.
Emit(t, event) ==
    /\ Cardinality(UNION {{u} \X Past(chain[u]) : u \in Tasks}) < MaxEvents
    /\ jobs' = IF up THEN jobs \cup {[task |-> t, event |-> event, read |-> NoTask,
                                      pc |-> FirstOperation(event)]}
                     ELSE jobs
    /\ gap' = [gap EXCEPT ![t] = @ \/ ~up \/ Busy(t)]
    /\ UNCHANGED <<cache, up, reader>>

RegisterTask(t) ==
    /\ chain[t].status = "Unregistered"
    /\ chain' = [chain EXCEPT ![t].status = "Pending"]
    /\ Emit(t, "taskRegistered")
    /\ UNCHANGED filedAt

CompleteTask(t) ==
    /\ chain[t].status = "Pending"
    /\ chain' = [chain EXCEPT ![t].status = "Completed", ![t].completed = TRUE]
    /\ Emit(t, "taskCompleted")
    /\ UNCHANGED filedAt

FileChallenge(t) ==
    /\ chain[t].status \in {"Pending", "Completed"}
    /\ chain' = [chain EXCEPT ![t].status = "Challenged", ![t].challenged = TRUE]
    /\ \E now \in Times :
         /\ \A u \in Tasks : filedAt[u] <= now
         /\ filedAt' = [filedAt EXCEPT ![t] = now]
    /\ Emit(t, "challengeFiled")

DismissChallenge(t) ==
    /\ chain[t].status = "Challenged"
    /\ chain' = [chain EXCEPT ![t].status = "Dismissed"]
    /\ Emit(t, "challengeDismissed")
    /\ UNCHANGED filedAt

SlashAgent(t) ==
    /\ chain[t].status = "Challenged"
    /\ chain' = [chain EXCEPT ![t].status = "Slashed"]
    /\ Emit(t, "agentSlashed")
    /\ UNCHANGED filedAt

-----------------------------------------------------------------------------
(* The handlers                                                             *)

Continue(j, pc, read) ==
    jobs' = (jobs \ {j}) \cup {[j EXCEPT !.pc = pc, !.read = read]}

Finish(j) == jobs' = jobs \ {j}

UpdatedAsCompleted(j) ==                 \* mutation: every verdict completes the task
    IF j.event = "taskRegistered" THEN [NoTask EXCEPT !.status = "pending"]
    ELSE [j.read EXCEPT !.status = "completed", !.completedAt = TRUE]

\* What updateTaskStatus makes of the record it has read.
Updated(j) ==
    CASE j.event = "taskRegistered" ->
           [NoTask EXCEPT !.status = "pending"]
      [] j.event = "challengeFiled" ->
           [j.read EXCEPT !.status = "disputed", !.disputeReason = TRUE]
      [] j.event \in {"taskCompleted", "challengeDismissed"} ->
           [j.read EXCEPT !.status = "completed", !.completedAt = TRUE]
      [] j.event = "agentSlashed" ->
           [j.read EXCEPT !.status = "failed", !.completedAt = TRUE]

PutTaskFresh(j) ==                       \* mutation: the record is not read again
    /\ j.pc = "putTask"
    /\ tasks' = [tasks EXCEPT ![j.task] = Updated([j EXCEPT !.read = NoTask])]
    /\ Finish(j)
    /\ UNCHANGED <<chain, filedAt, challenges, up, gap, reader>>

\* cacheTask, and the end of updateTaskStatus.
PutTask(j) ==
    /\ j.pc = "putTask"
    /\ tasks' = [tasks EXCEPT ![j.task] = Updated(j)]
    /\ Finish(j)
    /\ UNCHANGED <<chain, filedAt, challenges, up, gap, reader>>

\* The beginning of updateTaskStatus: a task not in the cache is left alone.
GetTask(j) ==
    /\ j.pc = "getTask"
    /\ \/ tasks[j.task] # NoTask /\ Continue(j, "putTask", tasks[j.task])
       \/ tasks[j.task] = NoTask /\ Finish(j)
    /\ UNCHANGED <<chain, filedAt, cache, up, gap, reader>>

Verdict(event) ==
    CASE event = "challengeFiled"     -> "disputed"
      [] event = "challengeDismissed" -> "completed"
      [] event = "agentSlashed"       -> "failed"

PutChallengeOnly(j) ==                   \* mutation: the task is not updated
    /\ j.pc = "putChallenge"
    /\ challenges' = [challenges EXCEPT ![j.task] = Verdict(j.event)]
    /\ Finish(j)
    /\ UNCHANGED <<chain, filedAt, tasks, up, gap, reader>>

\* cacheChallenge, and the end of updateChallenge.
PutChallenge(j) ==
    /\ j.pc = "putChallenge"
    /\ challenges' = [challenges EXCEPT ![j.task] = Verdict(j.event)]
    /\ Continue(j, "getTask", NoTask)
    /\ UNCHANGED <<chain, filedAt, tasks, up, gap, reader>>

\* The beginning of updateChallenge.  A challenge not in the cache is left
\* alone; the task is updated all the same.
GetChallenge(j) ==
    /\ j.pc = "getChallenge"
    /\ LET next == IF challenges[j.task] = "absent" THEN "getTask" ELSE "putChallenge"
       IN  Continue(j, next, NoTask)
    /\ UNCHANGED <<chain, filedAt, cache, up, gap, reader>>

\* The store refuses an operation: the handler logs it and ends.
HandlerFail(j) ==
    /\ Finish(j)
    /\ gap' = [gap EXCEPT ![j.task] = TRUE]
    /\ UNCHANGED <<chain, filedAt, cache, up, reader>>

-----------------------------------------------------------------------------
(* Requests                                                                 *)

\* getAllChallenges with unresolved = true takes the keys, then reads them one
\* by one.
ListUnresolved ==
    /\ up /\ ~reader.active
    /\ \E offset \in Offsets :
         reader' = [NoReader EXCEPT
                      !.active = TRUE, !.offset = offset,
                      !.open = {t \in Tasks : challenges[t] = "disputed"},
                      !.keys = {t \in Tasks : challenges[t] # "absent"}]
    /\ UNCHANGED <<chain, filedAt, cache, jobs, up, gap>>

Unresolved(status) == status \notin {"completed", "failed"}

ReadNext ==
    /\ reader.active
    /\ \E t \in reader.keys :
         reader' = [reader EXCEPT
                      !.keys = @ \ {t},
                      !.results = @ \cup {u \in {t} : Unresolved(challenges[u])}]
    /\ UNCHANGED <<chain, filedAt, cache, jobs, up, gap>>

Smaller(a, b) == IF a <= b THEN a ELSE b

PagesOldestFirst(results, offset) ==     \* mutation: sorted the other way
    {page \in SUBSET results :
       /\ Cardinality(page) = Smaller(Limit, Cardinality(results))
       /\ \A s \in page, t \in results \ page : filedAt[s] <= filedAt[t]}

\* The pages the sort by createdAt, which is the time of the filing, newest
\* first, and slice(offset, offset + limit) may give: those filed in the same
\* second come in any order.
Pages(results, offset) ==
    LET Newer(S, T) == \A s \in S, t \in T : filedAt[t] <= filedAt[s]
    IN  {page \in SUBSET results :
           \E skipped \in SUBSET (results \ page) :
             /\ Cardinality(skipped) = Smaller(offset, Cardinality(results))
             /\ Cardinality(page)
                  = Smaller(Limit, Cardinality(results) - Cardinality(skipped))
             /\ Newer(skipped, results \ skipped)
             /\ Newer(page, (results \ skipped) \ page)}

Answer ==
    /\ reader.active /\ reader.keys = {}
    /\ \E page \in Pages(reader.results, reader.offset) :
         reader' = [NoReader EXCEPT !.page = page]
    /\ UNCHANGED <<chain, filedAt, cache, jobs, up, gap>>

-----------------------------------------------------------------------------
(* The process                                                              *)

\* SyncService.onModuleDestroy, or a crash: running handlers do not survive.
Stop ==
    /\ up
    /\ up' = FALSE
    /\ jobs' = {}
    /\ gap' = [t \in Tasks |-> gap[t] \/ Busy(t)]
    /\ reader' = NoReader
    /\ UNCHANGED <<chain, filedAt, cache>>

\* The store is opened again and the listeners attached.
Start ==
    /\ ~up
    /\ up' = TRUE
    /\ UNCHANGED <<chain, filedAt, cache, jobs, gap, reader>>

HandlerStep(j) == PutTask(j) \/ GetTask(j) \/ PutChallenge(j) \/ GetChallenge(j)

ChainStep(t) ==
    \/ RegisterTask(t) \/ CompleteTask(t)
    \/ FileChallenge(t) \/ DismissChallenge(t) \/ SlashAgent(t)

Next ==
    \/ \E t \in Tasks : ChainStep(t)
    \/ \E j \in jobs : HandlerStep(j) \/ HandlerFail(j)
    \/ ListUnresolved \/ ReadNext \/ Answer
    \/ Stop \/ Start

\* The store answers: a running handler goes on.  Neither the chain nor a
\* restart of the process owes the API anything.
Fairness == \A t \in Tasks : WF_vars(\E j \in jobs : j.task = t /\ HandlerStep(j))

Spec == Init /\ [][Next]_vars /\ Fairness

-----------------------------------------------------------------------------
(* Properties that hold                                                     *)

View == INSTANCE TaskView WITH
    past <- [t \in Tasks |-> Past(chain[t])],
    served <- [t \in Tasks |-> tasks[t].status]

\* However handlers overlap, fail and die: the status the API serves is one the
\* chain has given the task, and a task it has served does not disappear.
ServesThePast == View!Spec

\* The task as the chain has it, in the terms of the cache.
Mirrored(t) ==
    LET verdict == chain[t].status \in {"Dismissed", "Slashed"}
    IN  IF chain[t].status = "Unregistered" THEN NoTask
        ELSE [status        |-> View!Served(chain[t].status),
              completedAt   |-> chain[t].completed \/ verdict,
              disputeReason |-> chain[t].challenged]

MirroredChallenge(t) ==
    IF chain[t].challenged THEN View!Served(chain[t].status) ELSE "absent"

InSync(t) ==
    /\ tasks[t] = Mirrored(t)
    /\ challenges[t] = MirroredChallenge(t)

\* The two caches are written by three store operations of five handlers that
\* nobody orders.  Once the handlers of a task have ended, the status, the
\* completedAt and the disputeReason of its cached task and the status of its
\* cached challenge are what the chain says, unless an event was missed, cut
\* short or overtaken by the next: those are the cases in which the code lets
\* the caches go wrong, and gap is their record.
InSyncWhenQuiet == \A t \in Tasks : ~gap[t] /\ ~Busy(t) => InSync(t)

\* A request overlapped by handlers: the first page lists every challenge that
\* was open all along, but for those that Limit others, none filed before them,
\* push off the page; and no page lists one that was not open when the request
\* came.
ListIsSound ==
    [][reader.active /\ up' /\ ~reader'.active =>
         /\ \A t \in reader.open \ reader'.page :
              reader.offset = 0 /\ ~gap[t] /\ challenges[t] = "disputed"
              => /\ Cardinality(reader'.page) = Limit
                 /\ \A u \in reader'.page : filedAt[t] <= filedAt[u]
         /\ \A t \in reader'.page : ~gap[t] => t \in reader.open]_vars

\* A handler that has begun ends: the caches come to agree with the chain and
\* stay so, or an event has been missed.
Settles == \A t \in Tasks : <>[](gap[t] \/ InSync(t))

=============================================================================
