------------------------------- MODULE Browsing -------------------------------
(***************************************************************************)
(* The pages that show what the API has: the tasks of an agent, polled; the *)
(* pages of challenges or attestations, with their filter; the agents or    *)
(* positions of the connected wallet.  None of them cancels a request, so   *)
(* answers arrive in any order, also for an input that has changed since.   *)
(*                                                                         *)
(* Rows are told by the input they were asked for.                          *)
(***************************************************************************)
EXTENDS Integers, FiniteSets

CONSTANTS
    Wallets, None,       \* operators, and no wallet, no agent
    Agents,              \* agents of the tasks and of the filter
    OperatorOf,          \* agent -> its operator
    RowsOf,              \* filter -> number of rows
    PAGE_SIZE,
    MaxRequests          \* bound: requests of a page under way, polls aside

ASSUME BrowsingAssumption ==
    /\ OperatorOf \in [Agents -> Wallets]
    /\ RowsOf \in [Agents \cup {None} -> Nat]
    /\ PAGE_SIZE \in Nat \ {0} /\ MaxRequests \in Nat \ {0}

VARIABLES
    wallet,              \* the connected account
    viewing,             \* TasksPage: agentId
    tasks,               \* TasksPage: the agent the tasks are of
    taskLoads,           \* TasksPage: requests under way
    list,                \* ChallengesPage, AttestationsPage: filter, offset, rows
    listLoads,           \* requests of the list under way
    owned,               \* DashboardPage, StakerPage: the wallet of the rows
    ownedLoads,          \* requests for them under way
    astray               \* history: list and owned: the last request failed,
                         \* was made while another was under way, or the
                         \* offset has changed without one

taskVars == <<viewing, tasks, taskLoads>>
listVars == <<list, listLoads>>
ownedVars == <<owned, ownedLoads>>
browsingVars == <<taskVars, listVars, ownedVars, astray>>

Offsets == {n * PAGE_SIZE : n \in 0..4}

Query == [filter : Agents \cup {None}, offset : Offsets]

NoRows == [filter |-> None, offset |-> -1]

TaskLoad ==
    [kind : {"agents"}, of : Wallets] \cup [kind : {"auto", "manual", "poll"}, of : Agents]

TypeOK ==
    /\ wallet \in Wallets \cup {None}
    /\ viewing \in Agents \cup {None} /\ tasks \in Agents \cup {None}
    /\ taskLoads \in SUBSET TaskLoad
    /\ list \in [query : Query, rows : Query \cup {NoRows}, loading : BOOLEAN,
                 hasMore : BOOLEAN]
    /\ listLoads \in SUBSET Query
    /\ owned \in Wallets \cup {None} /\ ownedLoads \in SUBSET Wallets
    /\ astray \in [list : BOOLEAN, owned : BOOLEAN]

\* The effects of the mount have asked for the first page.
Init ==
    /\ wallet = None
    /\ viewing = None /\ tasks = None /\ taskLoads = {}
    /\ list = [query |-> [filter |-> None, offset |-> 0], rows |-> NoRows,
               loading |-> TRUE, hasMore |-> TRUE]
    /\ listLoads = {[filter |-> None, offset |-> 0]}
    /\ owned = None /\ ownedLoads = {}
    /\ astray = [list |-> FALSE, owned |-> FALSE]

-----------------------------------------------------------------------------
(* TasksPage                                                                *)

\* The timer asks whatever else is under way, the user within the bound.
Ask(kind, of) ==
    /\ kind = "poll" \/ Cardinality({l \in taskLoads : l.kind # "poll"}) < MaxRequests
    /\ taskLoads' = taskLoads \cup {[kind |-> kind, of |-> of]}

\* The effect on the address.
AutoLoad ==
    IF wallet' = None
    THEN viewing' = None /\ tasks' = None /\ UNCHANGED taskLoads
    ELSE Ask("agents", wallet') /\ UNCHANGED <<viewing, tasks>>

\* The agents have come: the first one of the operator is viewed, and its tasks
\* are asked for.
AgentsAnswer ==
    /\ \E l \in taskLoads :
         /\ l.kind = "agents"
         /\ LET mine == {a \in Agents : OperatorOf[a] = l.of}
            IN  \/ /\ mine = {}
                   /\ taskLoads' = taskLoads \ {l} /\ UNCHANGED viewing
                \/ \E a \in mine :
                     /\ viewing' = a
                     /\ taskLoads' = (taskLoads \ {l}) \cup {[kind |-> "auto", of |-> a]}
    /\ UNCHANGED <<wallet, tasks, listVars, ownedVars, astray>>

\* loadAgent: a key was pasted.
LoadAgent ==
    /\ \E a \in Agents : Ask("manual", a)
    /\ UNCHANGED <<wallet, viewing, tasks, listVars, ownedVars, astray>>

TickOfEmpty ==                           \* mutation: polls until there are tasks
    /\ viewing # None /\ tasks = None
    /\ Ask("poll", viewing)
    /\ UNCHANGED <<wallet, viewing, tasks, listVars, ownedVars, astray>>

\* Every five seconds while an agent is viewed.
Tick ==
    /\ viewing # None
    /\ Ask("poll", viewing)
    /\ UNCHANGED <<wallet, viewing, tasks, listVars, ownedVars, astray>>

\* Tasks have come; those of loadAgent change the agent with them.
TasksAnswer(kind, a) ==
    LET l == [kind |-> kind, of |-> a]
    IN  /\ l \in taskLoads
        /\ taskLoads' = taskLoads \ {l}
        /\ tasks' = a
        /\ viewing' = IF kind = "manual" THEN a ELSE viewing
        /\ UNCHANGED <<wallet, listVars, ownedVars, astray>>

TasksFail(l) ==
    /\ l \in taskLoads
    /\ taskLoads' = taskLoads \ {l}
    /\ UNCHANGED <<wallet, viewing, tasks, listVars, ownedVars, astray>>

-----------------------------------------------------------------------------
(* ChallengesPage, and AttestationsPage, which has no filter                *)

\* setOffset and setFilter for the page, and load for the query.
Load(page, query) ==
    /\ Cardinality(listLoads) < MaxRequests
    /\ listLoads' = listLoads \cup {query}
    /\ list' = [list EXCEPT !.query = page, !.loading = TRUE]
    /\ astray' = [astray EXCEPT !.list = listLoads # {}]
    /\ UNCHANGED <<wallet, taskVars, ownedVars>>

LoadPageShown(query) == Load(query, list.query)  \* mutation: load gets the old offset

LoadPage(query) == Load(query, query)

\* A filter is applied or cleared; the effect loads when it is another one.
ApplyFilter ==
    \E f \in (Agents \cup {None}) \ {list.query.filter} :
      LoadPage([filter |-> f, offset |-> 0])

\* The filter is applied once more: the offset goes back, and nothing is loaded.
ReapplyFilter ==
    /\ list.query.filter # None
    /\ list' = [list EXCEPT !.query.offset = 0]
    /\ astray' = [astray EXCEPT !.list = @ \/ list.query.offset # 0]
    /\ UNCHANGED <<wallet, taskVars, listLoads, ownedVars>>

\* prev and next, whose buttons are off while the page loads.
PrevPage ==
    /\ list.query.offset # 0 /\ ~list.loading
    /\ LoadPage([list.query EXCEPT !.offset = IF @ < PAGE_SIZE THEN 0 ELSE @ - PAGE_SIZE])

NextPage ==
    /\ list.hasMore /\ ~list.loading
    /\ list.query.offset + PAGE_SIZE \in Offsets
    /\ LoadPage([list.query EXCEPT !.offset = @ + PAGE_SIZE])

\* The last page may be a full one: then there seems to be more.
Full(query) == RowsOf[query.filter] >= query.offset + PAGE_SIZE

ListAnswer ==
    /\ \E q \in listLoads :
         /\ listLoads' = listLoads \ {q}
         /\ list' = [list EXCEPT !.rows = q, !.hasMore = Full(q), !.loading = FALSE]
    /\ UNCHANGED <<wallet, taskVars, ownedVars, astray>>

\* The error is ignored: offset and filter stay what they have become.
ListFail ==
    /\ \E q \in listLoads : listLoads' = listLoads \ {q}
    /\ list' = [list EXCEPT !.loading = FALSE]
    /\ astray' = [astray EXCEPT !.list = TRUE]
    /\ UNCHANGED <<wallet, taskVars, ownedVars>>

-----------------------------------------------------------------------------
(* DashboardPage and StakerPage                                             *)

\* The effect on the address.
LoadOwned ==
    IF wallet' = None
    THEN /\ owned' = None /\ UNCHANGED ownedLoads
         /\ astray' = [astray EXCEPT !.owned = ownedLoads # {}]
    ELSE /\ Cardinality(ownedLoads) < MaxRequests
         /\ ownedLoads' = ownedLoads \cup {wallet'}
         /\ UNCHANGED owned
         /\ astray' = [astray EXCEPT !.owned = ownedLoads # {}]

OwnedAnswer ==
    /\ \E w \in ownedLoads : ownedLoads' = ownedLoads \ {w} /\ owned' = w
    /\ UNCHANGED <<wallet, taskVars, listVars, astray>>

OwnedFail ==
    /\ \E w \in ownedLoads : ownedLoads' = ownedLoads \ {w}
    /\ owned' = None
    /\ UNCHANGED <<wallet, taskVars, listVars, astray>>

-----------------------------------------------------------------------------

\* The effects of the page that is open: one page at a time.
OnWalletOf(page) ==
    \/ page = "tasks" /\ AutoLoad /\ UNCHANGED <<listVars, ownedVars, astray>>
    \/ page = "owned" /\ LoadOwned /\ UNCHANGED <<taskVars, listVars>>
    \/ page = "list" /\ UNCHANGED browsingVars

TasksNext ==
    \/ AgentsAnswer \/ LoadAgent \/ Tick
    \/ \E a \in Agents, kind \in {"auto", "manual", "poll"} : TasksAnswer(kind, a)
    \/ \E l \in taskLoads : TasksFail(l)

ListNext == ApplyFilter \/ ReapplyFilter \/ PrevPage \/ NextPage \/ ListAnswer \/ ListFail

OwnedNext == OwnedAnswer \/ OwnedFail

NextOf(page) ==
    \/ page = "tasks" /\ TasksNext
    \/ page = "list" /\ ListNext
    \/ page = "owned" /\ OwnedNext

\* The interval goes off, a request ends, and of the polls that are made again
\* and again some succeed.
Fairness ==
    /\ WF_<<wallet, browsingVars>>(Tick)
    /\ \A a \in Agents : SF_<<wallet, browsingVars>>(TasksAnswer("poll", a))
    /\ \A l \in TaskLoad : WF_<<wallet, browsingVars>>(TasksFail(l))

-----------------------------------------------------------------------------
(* Properties that hold                                                     *)

\* No answer is cancelled, but the poll makes up for those that came late: when
\* the user keeps to an agent, its tasks are shown, and in the end no others.
PollingSettles == \A a \in Agents : <>[](viewing = a) => <>[](tasks = a)

\* The rows are those of the offset and filter the page shows, the agents those
\* of the connected wallet, after a request that nothing overlapped or failed,
\* whatever went wrong before it, until the filter is applied once more.
RowsAreOfPage ==
    /\ listLoads = {} /\ ~astray.list => list.rows = list.query
    /\ ownedLoads = {} /\ ~astray.owned => owned \in {None, wallet}

=============================================================================
