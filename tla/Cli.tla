---------------------------------- MODULE Cli ----------------------------------
(***************************************************************************)
(* The commands of the CLI that change something: register, stake,         *)
(* challenge, assign and run, given by one operator in several terminals.  *)
(*                                                                         *)
(* A command is a row of transactions and requests.  Each may be refused,  *)
(* or take effect without the command learning of it; every command ends   *)
(* where it is told of a failure, and what it has done before stays.       *)
(***************************************************************************)
EXTENDS Integers, FiniteSets

CONSTANTS
    Templates, SolTransfer, None, \* capability templates, the one of run, no template
    Amounts, SlashAmount,         \* what is staked at once, what a slash takes
    MaxAgents, MaxTasks,          \* bounds: keypairs generated, tasks registered
    MaxCommands, MaxTerminals     \* bounds: commands given, and at once

VARIABLES
    keypairs,            \* agents with a file of their keypair
    manifests,           \* agent -> template of its manifest file
    generated,           \* keypairs generated so far
    registry,            \* agent -> its RegistryAccount
    funds,               \* agents with a fund
    staked,              \* agent -> total_locked_stake of its fund
    deposited,           \* agent -> all that was ever staked for it
    locked,              \* agents whose fund a challenge has locked
    tasks,               \* task -> its TaskRecord
    transferred,         \* runs whose transfer has landed, with their agent
    receipts,            \* receipts of runs the API has taken
    commands,            \* commands in progress
    given,               \* commands given so far
    summaries            \* commands that have printed their summary

diskVars == <<keypairs, manifests, generated>>
chainVars == <<registry, funds, staked, deposited, locked, tasks, transferred>>
terminalVars == <<commands, given, summaries>>

vars == <<diskVars, chainVars, receipts, terminalVars>>

Agents == 1..MaxAgents
Tasks == 1..MaxTasks

Command ==
    [name : {"register", "stake", "challenge", "assign", "run"},
     pc : {"registerAgent", "registered", "initializeFund", "deposit", "declare",
           "registerTask", "fileChallenge", "autoAdjudicate", "notify",
           "transfer", "upload"},
     id : 1..MaxCommands, agent : Agents, amount : Amounts \cup {0},
     task : 0..MaxTasks]

RegistryAccount ==
    [registered : BOOLEAN, hash : Templates \cup {None}, declared : Nat]

TaskRecord ==
    [agent : 0..MaxAgents, status : {"none", "Pending", "Challenged", "Decided"}]

TypeOK ==
    /\ keypairs \in SUBSET Agents
    /\ manifests \in [Agents -> Templates \cup {None}]
    /\ generated \in 0..MaxAgents
    /\ registry \in [Agents -> RegistryAccount]
    /\ funds \in SUBSET Agents /\ locked \in SUBSET funds
    /\ staked \in [Agents -> Nat] /\ deposited \in [Agents -> Nat]
    /\ tasks \in [Tasks -> TaskRecord]
    /\ transferred \in SUBSET ((1..MaxCommands) \X Agents)
    /\ receipts \in SUBSET [id : 1..MaxCommands, attested : BOOLEAN]
    /\ commands \in SUBSET Command /\ Cardinality(commands) <= MaxTerminals
    /\ given \in 0..MaxCommands
    /\ summaries \in SUBSET Command

Init ==
    /\ keypairs = {} /\ generated = 0
    /\ manifests = [a \in Agents |-> None]
    /\ registry = [a \in Agents |-> [registered |-> FALSE, hash |-> None, declared |-> 0]]
    /\ funds = {} /\ locked = {}
    /\ staked = [a \in Agents |-> 0] /\ deposited = [a \in Agents |-> 0]
    /\ tasks = [t \in Tasks |-> [agent |-> 0, status |-> "none"]]
    /\ transferred = {} /\ receipts = {}
    /\ commands = {} /\ given = 0 /\ summaries = {}

-----------------------------------------------------------------------------
(* Terminals                                                                *)

Give(name, pc, agent, amount) ==
    /\ given < MaxCommands /\ Cardinality(commands) < MaxTerminals
    /\ given' = given + 1
    /\ commands' = commands \cup {[name |-> name, pc |-> pc, id |-> given', agent |-> agent,
                                   amount |-> amount, task |-> 0]}
    /\ UNCHANGED summaries

At(c, pc) == c \in commands /\ c.pc = pc

Goto(c, pc) ==
    /\ commands' = (commands \ {c}) \cup {[c EXCEPT !.pc = pc]}
    /\ UNCHANGED <<given, summaries>>

Exit(c) == commands' = commands \ {c} /\ UNCHANGED <<given, summaries>>

\* The last lines of the command: what it says it has done.
Summary(c) ==
    /\ commands' = commands \ {c}
    /\ summaries' = summaries \cup {c}
    /\ UNCHANGED given

\* A transaction or request of the command fails, before it has taken effect or
\* after; or the operator interrupts the command.
ExitAfter(c, effect) == effect /\ Exit(c)

-----------------------------------------------------------------------------
(* register                                                                 *)

\* The operator has chosen a template and agreed: the files come first.
RegisterStart ==
    /\ generated < MaxAgents
    /\ generated' = generated + 1
    /\ \E t \in Templates : manifests' = [manifests EXCEPT ![generated'] = t]
    /\ keypairs' = keypairs \cup {generated'}
    /\ Give("register", "registerAgent", generated', 0)
    /\ UNCHANGED <<chainVars, receipts>>

RegisterAgent(c) ==
    /\ At(c, "registerAgent")
    /\ registry' = [registry EXCEPT ![c.agent].registered = TRUE,
                                    ![c.agent].hash = manifests[c.agent]]
    /\ Goto(c, "registered")
    /\ UNCHANGED <<diskVars, funds, staked, deposited, locked, tasks, transferred,
                   receipts>>

RegisterConfirmed(c) ==
    /\ At(c, "registered")
    /\ Goto(c, "initializeFund")
    /\ UNCHANGED <<diskVars, chainVars, receipts>>

\* Any error of register_agent, one of its confirmation too: the files go.
RegisterAgentFail(c) ==
    /\ At(c, "registerAgent") \/ At(c, "registered")
    /\ keypairs' = keypairs \ {c.agent}
    /\ manifests' = [manifests EXCEPT ![c.agent] = None]
    /\ Exit(c)
    /\ UNCHANGED <<generated, chainVars, receipts>>

\* The summary follows whether or not there is a fund now.
InitializeFund(c) ==
    /\ At(c, "initializeFund")
    /\ funds' \in {funds, funds \cup {c.agent}}
    /\ Summary(c)
    /\ UNCHANGED <<diskVars, registry, staked, deposited, locked, tasks, transferred,
                   receipts>>

-----------------------------------------------------------------------------
(* stake                                                                    *)

\* The balance suffices and the fund of the agent exists.
StakeStart ==
    /\ \E a \in funds, n \in Amounts : Give("stake", "deposit", a, n)
    /\ UNCHANGED <<diskVars, chainVars, receipts>>

Deposited(c) ==
    /\ staked' = [staked EXCEPT ![c.agent] = @ + c.amount]
    /\ deposited' = [deposited EXCEPT ![c.agent] = @ + c.amount]

Declared(c) == registry' = [registry EXCEPT ![c.agent].declared = c.amount]

DeclareFirst(c) ==                       \* mutation: declared before deposited
    /\ At(c, "deposit")
    /\ Declared(c)
    /\ Goto(c, "declare")
    /\ UNCHANGED <<diskVars, funds, staked, deposited, locked, tasks, transferred,
                   receipts>>

Deposit(c) ==
    /\ At(c, "deposit")
    /\ Deposited(c)
    /\ Goto(c, "declare")
    /\ UNCHANGED <<diskVars, registry, funds, locked, tasks, transferred, receipts>>

DepositFail(c) ==
    /\ At(c, "deposit")
    /\ ExitAfter(c, Deposited(c) \/ UNCHANGED <<staked, deposited>>)
    /\ UNCHANGED <<diskVars, registry, funds, locked, tasks, transferred, receipts>>

\* update_declared_stake is told the amount of this command.
Declare(c) ==
    /\ At(c, "declare")
    /\ Declared(c)
    /\ Summary(c)
    /\ UNCHANGED <<diskVars, funds, staked, deposited, locked, tasks, transferred,
                   receipts>>

DeclareFail(c) ==
    /\ At(c, "declare")
    /\ ExitAfter(c, Declared(c) \/ UNCHANGED registry)
    /\ UNCHANGED <<diskVars, funds, staked, deposited, locked, tasks, transferred,
                   receipts>>

-----------------------------------------------------------------------------
(* assign and challenge                                                     *)

\* A registered agent; challenge also needs its fund, at the second step.
AssignStart ==
    /\ \E a \in Agents : registry[a].registered /\ Give("assign", "registerTask", a, 0)
    /\ UNCHANGED <<diskVars, chainVars, receipts>>

ChallengeStart ==
    /\ \E a \in Agents : registry[a].registered /\ Give("challenge", "registerTask", a, 0)
    /\ UNCHANGED <<diskVars, chainVars, receipts>>

NewTask == Cardinality({t \in Tasks : tasks[t].status # "none"}) + 1

\* register_task under a task id of its own.
RegisterTask(c) ==
    /\ At(c, "registerTask")
    /\ NewTask \in Tasks
    /\ tasks' = [tasks EXCEPT ![NewTask] = [agent |-> c.agent, status |-> "Pending"]]
    /\ \/ /\ commands' = (commands \ {c}) \cup
               {[c EXCEPT !.task = NewTask,
                          !.pc = IF c.name = "assign" THEN "notify" ELSE "fileChallenge"]}
          /\ UNCHANGED <<given, summaries>>
       \/ Exit(c)
    /\ UNCHANGED <<diskVars, registry, funds, staked, deposited, locked, transferred,
                   receipts>>

\* The indexer is notified, or is not: the agent polls anyway.
Notify(c) ==
    /\ At(c, "notify")
    /\ Summary(c)
    /\ UNCHANGED <<diskVars, chainVars, receipts>>

\* After the deadline of a missed-deadline challenge; file_challenge locks the
\* fund of the caller for the agent, which must exist.
FileChallenge(c) ==
    /\ At(c, "fileChallenge")
    /\ c.agent \in funds
    /\ tasks' = [tasks EXCEPT ![c.task].status = "Challenged"]
    /\ locked' = locked \cup {c.agent}
    /\ Goto(c, "autoAdjudicate") \/ Exit(c)
    /\ UNCHANGED <<diskVars, registry, funds, staked, deposited, transferred, receipts>>

\* execute_slash of the fund, which needs that much stake; record_slash of the
\* registry touches nothing a command reads.
Slashed(c) ==
    /\ staked[c.agent] >= SlashAmount
    /\ staked' = [staked EXCEPT ![c.agent] = @ - SlashAmount]

\* The program finds the proof valid or dismisses the challenge, by its clock;
\* either verdict unlocks the fund.
Decided(c) ==
    /\ tasks' = [tasks EXCEPT ![c.task].status = "Decided"]
    /\ locked' = locked \ {c.agent}
    /\ Slashed(c) \/ UNCHANGED staked

AutoAdjudicateRegardless(c) ==           \* mutation: the error does not end it
    /\ At(c, "autoAdjudicate")
    /\ Decided(c) \/ UNCHANGED <<tasks, locked, staked>>
    /\ Summary(c)
    /\ UNCHANGED <<diskVars, registry, funds, deposited, transferred, receipts>>

AutoAdjudicate(c) ==
    /\ At(c, "autoAdjudicate")
    /\ Decided(c)
    /\ Summary(c) \/ Exit(c)
    /\ UNCHANGED <<diskVars, registry, funds, deposited, transferred, receipts>>

-----------------------------------------------------------------------------
(* run                                                                      *)

RunStartAnyTemplate ==                   \* mutation: the manifest is not looked at
    /\ \E a \in keypairs : Give("run", "transfer", a, 0)
    /\ UNCHANGED <<diskVars, chainVars, receipts>>

\* The keypair is there, and the manifest file is the one of SOL_TRANSFER.
RunStart ==
    /\ \E a \in keypairs : manifests[a] = SolTransfer /\ Give("run", "transfer", a, 0)
    /\ UNCHANGED <<diskVars, chainVars, receipts>>

\* An airdrop where the balance is short, then the transfer.
Transfer(c) ==
    /\ At(c, "transfer")
    /\ transferred' = transferred \cup {<<c.id, c.agent>>}
    /\ Goto(c, "upload") \/ Exit(c)
    /\ UNCHANGED <<diskVars, registry, funds, staked, deposited, locked, tasks, receipts>>

\* The receipt is built, signed and uploaded.  Whether the API attested it, its
\* answer tells by an attestationTx or null; the reputation is only shown.
Upload(c) ==
    /\ At(c, "upload")
    /\ \E ok \in BOOLEAN : receipts' = receipts \cup {[id |-> c.id, attested |-> ok]}
    /\ Summary(c) \/ Exit(c)
    /\ UNCHANGED <<diskVars, chainVars>>

-----------------------------------------------------------------------------

\* The command fails before the transaction or request under way takes effect,
\* or the operator interrupts it.
Interrupt(c) ==
    /\ c \in commands
    /\ Exit(c)
    /\ UNCHANGED <<diskVars, chainVars, receipts>>

Step(c) ==
    \/ RegisterAgent(c) \/ RegisterConfirmed(c) \/ RegisterAgentFail(c) \/ InitializeFund(c)
    \/ Deposit(c) \/ DepositFail(c) \/ Declare(c) \/ DeclareFail(c)
    \/ RegisterTask(c) \/ Notify(c) \/ FileChallenge(c) \/ AutoAdjudicate(c)
    \/ Transfer(c) \/ Upload(c) \/ Interrupt(c)

Next ==
    \/ RegisterStart \/ StakeStart \/ AssignStart \/ ChallengeStart \/ RunStart
    \/ \E c \in commands : Step(c)

-----------------------------------------------------------------------------
(* Properties that hold                                                     *)

\* Between deposit and declaration a command may stop and another one run: the
\* stake that is declared to verify_agent was always deposited before.  A slash
\* of it is not declared: see DeclaredIsStaked.
DeclaredWasDeposited == \A a \in Agents : registry[a].declared <= deposited[a]

\* Before its summary a command has waited for its steps, whatever failed beside
\* it: the agent is registered, the stake deposited and declared, the task
\* registered for the agent, the challenge decided, the transfer made and its
\* receipt taken.  What a summary claims beyond these steps is false: see
\* SetUpIsComplete and AttestationFired.
AwaitedStepsHappened ==
    \A c \in summaries :
      /\ c.name = "register"  => registry[c.agent].registered
      /\ c.name = "stake"     => /\ deposited[c.agent] >= c.amount
                                 /\ registry[c.agent].declared > 0
      /\ c.name = "assign"    => tasks[c.task].agent = c.agent
      /\ c.name = "challenge" => tasks[c.task].status = "Decided"
      /\ c.name = "run"       => /\ <<c.id, c.agent>> \in transferred
                                 /\ \E p \in receipts : p.id = c.id

\* run trusts the file beside the keypair; the chain agrees with it for every
\* agent that is registered, also while its registration is under way.
TransfersAreAuthorised ==
    \A c \in transferred : registry[c[2]].registered => registry[c[2]].hash = SolTransfer

-----------------------------------------------------------------------------
(* Properties a comment or a message states, and the code breaks            *)

\* "Don't clean up keypair here - agent IS registered on-chain": the keypair of
\* a registered agent is kept.
RegisteredKeepsItsKeypair == \A a \in Agents : registry[a].registered => a \in keypairs

\* "Agent fully set up!": the summary of register follows the error of
\* initialize_fund too, with no fund to stake in.
SetUpIsComplete == \A c \in summaries : c.name = "register" => c.agent \in funds

\* "submit_attestation fired on-chain", "Reputation score incremented": the
\* summary of run follows an answer without attestationTx too.
AttestationFired ==
    \A c \in summaries :
      c.name = "run" => \E p \in receipts : p.id = c.id /\ p.attested

\* "So verify_agent() knows how much is staked": once no command is at work, and
\* none stopped half-way, the declared stake is the stake.  A second stake is
\* declared without the first, and a slash is not declared at all.
DeclaredIsStaked ==
    commands = {} /\ Cardinality(summaries) = given =>
      \A a \in Agents : registry[a].declared = staked[a]

=============================================================================
