--------------------------- MODULE WorkstationProofs ---------------------------
(***************************************************************************)
(* What the commands of the CLI and the scripts of the adapters promise,   *)
(* for any number of agents, tasks, commands and scripts, any amounts and  *)
(* any slippage: first the commands, then the scripts, then both beside    *)
(* each other.                                                             *)
(***************************************************************************)
EXTENDS Workstation, FiniteSetTheorems, TLAPS

-----------------------------------------------------------------------------
(* The commands: the inductive invariant                                    *)

CliTyped ==
    /\ commands \in SUBSET Command /\ given \in 0..MaxCommands
    /\ summaries \in SUBSET Command
    /\ generated \in 0..MaxAgents /\ keypairs \in SUBSET (1..generated)
    /\ manifests \in [Agents -> Templates \cup {None}]
    /\ registry \in [Agents -> RegistryAccount]
    /\ funds \in SUBSET Agents
    /\ staked \in [Agents -> Nat] /\ deposited \in [Agents -> Nat]
    /\ tasks \in [Tasks -> TaskRecord]
    /\ transferred \in SUBSET ((1..MaxCommands) \X Agents)

\* What run may transfer for the agent a: its registration, when it comes, is one
\* of SOL_TRANSFER too.
Authorised(a) ==
    /\ a <= generated
    /\ registry[a].registered => registry[a].hash = SolTransfer
    /\ \A c \in commands :
         c.pc = "registerAgent" /\ c.agent = a => manifests[a] = SolTransfer

Registering(c) == c.pc \in {"registerAgent", "registered"}

\* The file of the manifest is that of the chain while it is there, and one
\* command at most works on it.
ManifestInv ==
    /\ \A a \in Agents :
         registry[a].registered =>
           a <= generated /\ (manifests[a] # None => registry[a].hash = manifests[a])
    /\ \A c \in commands :
         /\ Registering(c) \/ c.pc = "initializeFund"
              => c.name = "register" /\ c.agent <= generated
         /\ c.pc \in {"registered", "initializeFund"} => registry[c.agent].registered
    /\ \A c, d \in commands :
         Registering(c) /\ Registering(d) /\ c.agent = d.agent => c = d
    /\ \A c \in summaries : c.name = "register" => registry[c.agent].registered

RunInv ==
    /\ \A c \in commands :
         /\ c.pc = "transfer" => c.name = "run" /\ Authorised(c.agent)
         /\ c.pc = "upload" => c.name = "run" /\ <<c.id, c.agent>> \in transferred
    /\ \A t \in transferred : Authorised(t[2])
    /\ \A c \in summaries :
         c.name = "run" => /\ <<c.id, c.agent>> \in transferred
                           /\ \E p \in receipts : p.id = c.id

StakeInv ==
    /\ DeclaredWasDeposited
    /\ \A c \in commands :
         /\ c.pc \in {"deposit", "declare"} => c.name = "stake" /\ c.amount # 0
         /\ c.pc = "declare" => deposited[c.agent] >= c.amount
    /\ \A c \in summaries :
         c.name = "stake" => /\ deposited[c.agent] >= c.amount
                             /\ registry[c.agent].declared > 0

Disputing(c) == c.pc \in {"fileChallenge", "autoAdjudicate"}

\* Tasks are registered in order, and a challenge is worked on by one command.
TaskInv ==
    /\ \E k \in 0..MaxTasks : \A t \in Tasks : tasks[t].status # "none" <=> t <= k
    /\ \A c \in commands :
         /\ c.pc = "registerTask" => c.name \in {"assign", "challenge"}
         /\ c.pc = "notify" => /\ c.name = "assign" /\ c.task \in Tasks
                               /\ tasks[c.task].status # "none"
                               /\ tasks[c.task].agent = c.agent
         /\ Disputing(c) => c.name = "challenge" /\ c.task \in Tasks
         /\ c.pc = "fileChallenge" => tasks[c.task].status = "Pending"
         /\ c.pc = "autoAdjudicate" => tasks[c.task].status = "Challenged"
    /\ \A c, d \in commands : Disputing(c) /\ Disputing(d) /\ c.task = d.task => c = d
    /\ \A c \in summaries :
         /\ c.name = "assign" => /\ c.task \in Tasks /\ tasks[c.task].status # "none"
                                 /\ tasks[c.task].agent = c.agent
         /\ c.name = "challenge" => c.task \in Tasks /\ tasks[c.task].status = "Decided"

CliInv == CliTyped /\ ManifestInv /\ RunInv /\ StakeInv /\ TaskInv

-----------------------------------------------------------------------------
(* The commands: what becomes of the set of them                            *)

Pcs == {"registerAgent", "registered", "initializeFund", "deposit", "declare",
        "registerTask", "fileChallenge", "autoAdjudicate", "notify", "transfer", "upload"}

Names == {"register", "stake", "challenge", "assign", "run"}

\* A command is given.
LEMMA GiveAdds ==
  ASSUME CliTyped, NEW name \in Names, NEW pc \in Pcs, NEW a \in Agents,
         NEW n \in Amounts \cup {0}, Give(name, pc, a, n)
  PROVE  /\ given' \in 0..MaxCommands /\ summaries' = summaries
         /\ \E k \in Command : /\ k.name = name /\ k.pc = pc /\ k.agent = a /\ k.amount = n
                               /\ commands' = commands \cup {k}
<1> DEFINE k == [name |-> name, pc |-> pc, id |-> given', agent |-> a, amount |-> n,
                 task |-> 0]
<1>1. /\ given' = given + 1 /\ given < MaxCommands /\ summaries' = summaries
      /\ commands' = commands \cup {k}
  BY DEF Give
<1>2. given' \in 1..MaxCommands
  BY <1>1, WorkstationAssumption DEF CliTyped
<1>3. k \in Command /\ k.name = name /\ k.pc = pc /\ k.agent = a /\ k.amount = n
  BY <1>2, WorkstationAssumption DEF Command, Pcs, Names
<1> HIDE DEF k
<1> QED  BY <1>1, <1>2, <1>3

\* A command goes on.
LEMMA GotoMoves ==
  ASSUME CliTyped, NEW c \in commands, NEW pc \in Pcs, Goto(c, pc)
  PROVE  /\ given' = given /\ summaries' = summaries
         /\ \E k \in Command :
              /\ k.pc = pc /\ k.name = c.name /\ k.agent = c.agent /\ k.id = c.id
              /\ k.amount = c.amount /\ k.task = c.task
              /\ commands' = (commands \ {c}) \cup {k}
<1> DEFINE k == [c EXCEPT !.pc = pc]
<1>1. c \in Command
  BY DEF CliTyped
<1>2. /\ k \in Command /\ k.pc = pc /\ k.name = c.name /\ k.agent = c.agent
      /\ k.id = c.id /\ k.amount = c.amount /\ k.task = c.task
  BY <1>1 DEF Command, Pcs
<1>3. commands' = (commands \ {c}) \cup {k} /\ given' = given /\ summaries' = summaries
  BY DEF Goto
<1> HIDE DEF k
<1> QED  BY <1>2, <1>3

-----------------------------------------------------------------------------
(* The commands: what a step leaves alone                                   *)

LEMMA ManifestRests ==
  ASSUME ManifestInv, UNCHANGED <<manifests, generated>>,
         \A a \in Agents : /\ registry'[a].registered = registry[a].registered
                           /\ registry'[a].hash = registry[a].hash,
         CliTyped, CliTyped',
         \A d \in commands' : Registering(d) \/ d.pc = "initializeFund" => d \in commands,
         \A d \in summaries' : d.name = "register" => d \in summaries
  PROVE  ManifestInv'
<1>1. /\ commands' \subseteq Command /\ summaries' \subseteq Command
      /\ \A d \in Command : d.agent \in Agents
  BY DEF CliTyped, Command
<1> QED  BY <1>1 DEF ManifestInv, Registering

LEMMA AuthorisedRests ==
  ASSUME NEW a \in Agents, Authorised(a), UNCHANGED <<manifests, generated>>,
         /\ registry'[a].registered = registry[a].registered
         /\ registry'[a].hash = registry[a].hash,
         \A d \in commands' : d.pc = "registerAgent" => d \in commands
  PROVE  Authorised(a)'
BY DEF Authorised

LEMMA RunRests ==
  ASSUME RunInv, CliTyped, CliTyped',
         \A a \in Agents : Authorised(a) => Authorised(a)',
         UNCHANGED <<transferred, receipts>>,
         \A d \in commands' : d.pc \in {"transfer", "upload"} => d \in commands,
         \A d \in summaries' : d.name = "run" => d \in summaries
  PROVE  RunInv'
<1>1. /\ commands \subseteq Command /\ commands' \subseteq Command
      /\ \A d \in Command : d.agent \in Agents
      /\ \A t \in transferred : t[2] \in Agents
  BY DEF CliTyped, Command
<1>2. \A d \in commands' : d.pc = "transfer" => d.name = "run" /\ Authorised(d.agent)'
  BY <1>1 DEF RunInv
<1>3. \A t \in transferred' : Authorised(t[2])'
  BY <1>1 DEF RunInv
<1> QED  BY <1>2, <1>3 DEF RunInv

LEMMA StakeRests ==
  ASSUME StakeInv, CliTyped, CliTyped', UNCHANGED deposited,
         \A a \in Agents : registry'[a].declared = registry[a].declared,
         \A d \in commands' : d.pc \in {"deposit", "declare"} => d \in commands,
         \A d \in summaries' : d.name = "stake" => d \in summaries
  PROVE  StakeInv'
<1>1. /\ commands' \subseteq Command /\ summaries' \subseteq Command
      /\ \A d \in Command : d.agent \in Agents
  BY DEF CliTyped, Command
<1> QED  BY <1>1 DEF StakeInv, DeclaredWasDeposited

LEMMA TaskRests ==
  ASSUME TaskInv, UNCHANGED tasks,
         \A d \in commands' :
           d.pc \in {"registerTask", "notify"} \/ Disputing(d) => d \in commands,
         \A d \in summaries' : d.name \in {"assign", "challenge"} => d \in summaries
  PROVE  TaskInv'
BY DEF TaskInv, Disputing

-----------------------------------------------------------------------------
(* The commands: every step                                                 *)

\* A command that ends without effect.
LEMMA ExitKeeps ==
  ASSUME CliInv, NEW c \in commands, Exit(c), UNCHANGED <<diskVars, chainVars, receipts>>
  PROVE  CliInv'
<1>0. CliTyped /\ ManifestInv /\ RunInv /\ StakeInv /\ TaskInv
  BY DEF CliInv
<1>1. /\ commands' \subseteq commands /\ given' = given /\ summaries' = summaries
      /\ UNCHANGED <<keypairs, manifests, generated, registry, funds, staked, deposited, locked,
                     tasks, transferred, receipts>>
  BY DEF Exit, diskVars, chainVars
<1>2. CliTyped'
  BY <1>0, <1>1 DEF CliTyped
<1>3. \A a \in Agents : Authorised(a) => Authorised(a)'
  BY <1>1 DEF Authorised
<1>4. ManifestInv'
  BY <1>0, <1>1, <1>2, ManifestRests
<1>5. RunInv'
  BY <1>0, <1>1, <1>2, <1>3, RunRests
<1>6. StakeInv'
  BY <1>0, <1>1, <1>2, StakeRests
<1>7. TaskInv'
  BY <1>0, <1>1, TaskRests
<1> QED  BY <1>2, <1>4, <1>5, <1>6, <1>7 DEF CliInv

\* A command that is given, and changes nothing yet.
LEMMA GivenKeeps ==
  ASSUME CliInv, NEW name \in Names, NEW pc \in Pcs, NEW a \in Agents,
         NEW n \in Amounts \cup {0}, Give(name, pc, a, n),
         UNCHANGED <<diskVars, chainVars, receipts>>,
         \/ name = "stake" /\ pc = "deposit" /\ n # 0
         \/ name \in {"assign", "challenge"} /\ pc = "registerTask"
         \/ name = "run" /\ pc = "transfer" /\ Authorised(a)
  PROVE  CliInv'
<1>0. CliTyped /\ ManifestInv /\ RunInv /\ StakeInv /\ TaskInv
  BY DEF CliInv
<1>1. PICK k \in Command : /\ k.name = name /\ k.pc = pc /\ k.agent = a /\ k.amount = n
                           /\ commands' = commands \cup {k}
  BY <1>0, GiveAdds
<1>2. /\ given' \in 0..MaxCommands /\ summaries' = summaries
      /\ UNCHANGED <<keypairs, manifests, generated, registry, funds, staked, deposited, locked,
                     tasks, transferred, receipts>>
  BY <1>0, GiveAdds DEF diskVars, chainVars
<1>3. CliTyped'
  BY <1>0, <1>1, <1>2 DEF CliTyped
<1>4. \A b \in Agents : Authorised(b) => Authorised(b)'
  BY <1>1, <1>2 DEF Authorised
<1>5. ManifestInv'
  BY <1>0, <1>1, <1>2, <1>3, ManifestRests DEF Registering
<1>6. RunInv'
  <2>1. CASE pc # "transfer"
    BY <1>0, <1>1, <1>2, <1>3, <1>4, <2>1, RunRests
  <2>2. CASE pc = "transfer"
    <3>1. Authorised(k.agent)' /\ k.name = "run"
      BY <1>1, <1>4, <2>2
    <3>2. /\ \A d \in Command : d.agent \in Agents
          /\ \A t \in transferred : t[2] \in Agents
      BY <1>0 DEF CliTyped, Command
    <3>3. \A d \in commands' : d.pc = "transfer" => d.name = "run" /\ Authorised(d.agent)'
      BY <1>0, <1>1, <1>4, <3>1, <3>2 DEF RunInv, CliTyped
    <3>4. \A d \in commands' : d.pc = "upload" => d \in commands
      BY <1>1, <2>2
    <3>5. \A t \in transferred' : Authorised(t[2])'
      BY <1>0, <1>2, <1>4, <3>2 DEF RunInv
    <3> QED  BY <1>0, <1>2, <3>3, <3>4, <3>5 DEF RunInv
  <2> QED  BY <2>1, <2>2
<1>7. StakeInv'
  <2>1. CASE pc # "deposit"
    BY <1>0, <1>1, <1>2, <1>3, <2>1, StakeRests
  <2>2. CASE pc = "deposit"
    BY <1>0, <1>1, <1>2, <2>2 DEF StakeInv, DeclaredWasDeposited
  <2> QED  BY <2>1, <2>2
<1>8. TaskInv'
  <2>1. CASE pc # "registerTask"
    BY <1>0, <1>1, <1>2, <2>1, TaskRests DEF Disputing
  <2>2. CASE pc = "registerTask"
    BY <1>0, <1>1, <1>2, <2>2 DEF TaskInv, Disputing
  <2> QED  BY <2>1, <2>2
<1> QED  BY <1>3, <1>5, <1>6, <1>7, <1>8 DEF CliInv

LEMMA StartKeeps ==
  ASSUME CliInv, StakeStart \/ AssignStart \/ ChallengeStart \/ RunStart
  PROVE  CliInv'
<1>0. CliTyped /\ ManifestInv /\ 0 \in Amounts \cup {0}
  BY DEF CliInv
<1>1. CASE StakeStart
  <2>1. PICK a \in funds, n \in Amounts : Give("stake", "deposit", a, n)
    BY <1>1 DEF StakeStart
  <2>2. a \in Agents /\ n # 0 /\ UNCHANGED <<diskVars, chainVars, receipts>>
    BY <1>0, <1>1, WorkstationAssumption DEF CliTyped, StakeStart
  <2> QED  BY <2>1, <2>2, GivenKeeps DEF Names, Pcs
<1>2. CASE AssignStart
  BY <1>0, <1>2, GivenKeeps DEF AssignStart, Names, Pcs
<1>3. CASE ChallengeStart
  BY <1>0, <1>3, GivenKeeps DEF ChallengeStart, Names, Pcs
<1>4. CASE RunStart
  <2>1. PICK a \in keypairs : manifests[a] = SolTransfer /\ Give("run", "transfer", a, 0)
    BY <1>4 DEF RunStart
  <2>2. a \in Agents /\ a <= generated
    BY <1>0, <2>1, WorkstationAssumption DEF CliTyped, Agents
  <2>3. Authorised(a)
    BY <1>0, <2>1, <2>2, WorkstationAssumption DEF Authorised, ManifestInv
  <2> QED  BY <1>0, <1>4, <2>1, <2>2, <2>3, GivenKeeps DEF RunStart, Names, Pcs
<1> QED  BY <1>1, <1>2, <1>3, <1>4

\* register, up to the confirmation of its first transaction.
LEMMA RegisterKeeps ==
  ASSUME CliInv,
         RegisterStart \/ \E c \in commands : RegisterAgent(c) \/ RegisterConfirmed(c)
                                              \/ RegisterAgentFail(c) \/ InitializeFund(c)
  PROVE  CliInv'
<1>0. /\ CliTyped /\ ManifestInv /\ RunInv /\ StakeInv /\ TaskInv
      /\ generated \in Nat /\ MaxAgents \in Nat
      /\ \A d \in Command : d.agent \in Agents
      /\ \A t \in transferred : t[2] \in Agents
      /\ commands \subseteq Command
  BY WorkstationAssumption DEF CliInv, CliTyped, Command
<1>1. CASE RegisterStart
  <2>1. /\ generated' = generated + 1 /\ generated < MaxAgents
        /\ keypairs' = keypairs \cup {generated'}
        /\ Give("register", "registerAgent", generated', 0)
        /\ UNCHANGED <<registry, funds, staked, deposited, locked, tasks, transferred, receipts>>
    BY <1>1 DEF RegisterStart, chainVars
  <2>2. PICK t \in Templates : manifests' = [manifests EXCEPT ![generated'] = t]
    BY <1>1 DEF RegisterStart
  <2>3. generated' \in Agents /\ generated' \in 0..MaxAgents
    BY <1>0, <2>1 DEF Agents
  <2>4. PICK k \in Command : /\ k.name = "register" /\ k.pc = "registerAgent"
                             /\ k.agent = generated' /\ commands' = commands \cup {k}
    BY <1>0, <2>1, <2>3, GiveAdds DEF Names, Pcs
  <2>5. given' \in 0..MaxCommands /\ summaries' = summaries
    BY <1>0, <2>1, <2>3, GiveAdds DEF Names, Pcs
  <2>6. /\ manifests' \in [Agents -> Templates \cup {None}]
        /\ \A a \in Agents : a # generated' => manifests'[a] = manifests[a]
    BY <1>0, <2>2, <2>3 DEF CliTyped
  <2>7. CliTyped'
    <3>1. keypairs' \in SUBSET (1..generated')
      BY <1>0, <2>1 DEF CliTyped
    <3> QED  BY <1>0, <2>1, <2>3, <2>4, <2>5, <2>6, <3>1 DEF CliTyped
  <2>8. \A a \in Agents : Authorised(a) => Authorised(a)'
    BY <1>0, <2>1, <2>4, <2>6 DEF Authorised, Agents
  <2>9. ManifestInv'
    <3>1. \A a \in Agents : registry[a].registered => a <= generated
      BY <1>0 DEF ManifestInv
    <3>2. \A a \in Agents : a <= generated => manifests'[a] = manifests[a]
      BY <1>0, <2>1, <2>6 DEF Agents
    <3>3. \A a \in Agents :
            registry'[a].registered =>
              a <= generated' /\ (manifests'[a] # None => registry'[a].hash = manifests'[a])
      BY <1>0, <2>1, <3>1, <3>2 DEF ManifestInv, Agents
    <3>4. \A d \in commands : Registering(d) => d.agent # generated'
      BY <1>0, <2>1 DEF ManifestInv
    <3>5. \A d \in commands' :
            /\ Registering(d) \/ d.pc = "initializeFund"
                 => d.name = "register" /\ d.agent <= generated'
            /\ d.pc \in {"registered", "initializeFund"} => registry'[d.agent].registered
      <4>1. \A d \in commands : d.agent \in Int
        BY <1>0 DEF Agents
      <4> QED  BY <1>0, <2>1, <2>4, <4>1 DEF ManifestInv
    <3>6. \A d, e \in commands' :
            Registering(d) /\ Registering(e) /\ d.agent = e.agent => d = e
      BY <1>0, <2>4, <3>4 DEF ManifestInv
    <3> QED  BY <1>0, <2>1, <2>5, <3>3, <3>5, <3>6 DEF ManifestInv, Registering
  <2>10. RunInv'
    BY <1>0, <2>1, <2>4, <2>5, <2>7, <2>8, RunRests
  <2>11. StakeInv'
    BY <1>0, <2>1, <2>4, <2>5, <2>7, StakeRests
  <2>12. TaskInv'
    BY <1>0, <2>1, <2>4, <2>5, TaskRests DEF Disputing
  <2> QED  BY <2>7, <2>9, <2>10, <2>11, <2>12 DEF CliInv
<1>2. ASSUME NEW c \in commands, RegisterAgent(c)
      PROVE  CliInv'
  <2>1. /\ c.pc = "registerAgent" /\ Goto(c, "registered") /\ c.agent \in Agents
        /\ registry' = [registry EXCEPT ![c.agent].registered = TRUE,
                                        ![c.agent].hash = manifests[c.agent]]
        /\ UNCHANGED <<keypairs, manifests, generated, funds, staked, deposited, locked, tasks,
                       transferred, receipts>>
    BY <1>0, <1>2 DEF RegisterAgent, At, diskVars
  <2>2. PICK k \in Command : /\ k.pc = "registered" /\ k.name = c.name
                             /\ k.agent = c.agent
                             /\ commands' = (commands \ {c}) \cup {k}
    BY <1>0, <2>1, GotoMoves DEF Pcs
  <2>3. given' = given /\ summaries' = summaries
    BY <1>0, <2>1, GotoMoves DEF Pcs
  <2>4. /\ registry' \in [Agents -> RegistryAccount]
        /\ registry'[c.agent].registered /\ registry'[c.agent].hash = manifests[c.agent]
        /\ registry'[c.agent].declared = registry[c.agent].declared
        /\ \A a \in Agents \ {c.agent} : registry'[a] = registry[a]
    BY <1>0, <2>1 DEF CliTyped, RegistryAccount
  <2>5. CliTyped'
    BY <1>0, <2>1, <2>2, <2>3, <2>4 DEF CliTyped
  <2>6. \A a \in Agents : Authorised(a) => Authorised(a)'
    BY <1>0, <2>1, <2>2, <2>4 DEF Authorised
  <2>7. ManifestInv'
    <3>1. c.name = "register" /\ c.agent <= generated
      BY <1>0, <2>1 DEF ManifestInv, Registering
    <3>2. \A a \in Agents :
            registry'[a].registered =>
              a <= generated' /\ (manifests'[a] # None => registry'[a].hash = manifests'[a])
      BY <1>0, <2>1, <2>4, <3>1 DEF ManifestInv
    <3>3. \A a \in Agents : registry[a].registered => registry'[a].registered
      BY <2>4
    <3>4. \A d \in commands' :
            /\ Registering(d) \/ d.pc = "initializeFund"
                 => d.name = "register" /\ d.agent <= generated'
            /\ d.pc \in {"registered", "initializeFund"} => registry'[d.agent].registered
      BY <1>0, <2>1, <2>2, <2>4, <3>1, <3>3 DEF ManifestInv
    <3>5. \A d, e \in commands' :
            Registering(d) /\ Registering(e) /\ d.agent = e.agent => d = e
      BY <1>0, <2>1, <2>2 DEF ManifestInv, Registering
    <3>6. \A d \in summaries' : d.name = "register" => registry'[d.agent].registered
      BY <1>0, <2>3, <3>3 DEF ManifestInv, CliTyped
    <3> QED  BY <3>2, <3>4, <3>5, <3>6 DEF ManifestInv, Registering
  <2>8. RunInv'
    BY <1>0, <2>1, <2>2, <2>3, <2>5, <2>6, RunRests
  <2>9. StakeInv'
    BY <1>0, <2>1, <2>2, <2>3, <2>4, <2>5, StakeRests
  <2>10. TaskInv'
    BY <1>0, <2>1, <2>2, <2>3, TaskRests DEF Disputing
  <2> QED  BY <2>5, <2>7, <2>8, <2>9, <2>10 DEF CliInv
<1>3. ASSUME NEW c \in commands, RegisterConfirmed(c)
      PROVE  CliInv'
  <2>1. /\ c.pc = "registered" /\ Goto(c, "initializeFund")
        /\ UNCHANGED <<keypairs, manifests, generated, registry, funds, staked, deposited, locked,
                       tasks, transferred, receipts>>
    BY <1>3 DEF RegisterConfirmed, At, diskVars, chainVars
  <2>2. PICK k \in Command : /\ k.pc = "initializeFund" /\ k.name = c.name
                             /\ k.agent = c.agent
                             /\ commands' = (commands \ {c}) \cup {k}
    BY <1>0, <2>1, GotoMoves DEF Pcs
  <2>3. given' = given /\ summaries' = summaries
    BY <1>0, <2>1, GotoMoves DEF Pcs
  <2>4. CliTyped'
    BY <1>0, <2>1, <2>2, <2>3 DEF CliTyped
  <2>5. \A a \in Agents : Authorised(a) => Authorised(a)'
    BY <2>1, <2>2 DEF Authorised
  <2>6. ManifestInv'
    BY <1>0, <2>1, <2>2, <2>3 DEF ManifestInv, Registering
  <2>7. RunInv'
    BY <1>0, <2>1, <2>2, <2>3, <2>4, <2>5, RunRests
  <2>8. StakeInv'
    BY <1>0, <2>1, <2>2, <2>3, <2>4, StakeRests
  <2>9. TaskInv'
    BY <1>0, <2>1, <2>2, <2>3, TaskRests DEF Disputing
  <2> QED  BY <2>4, <2>6, <2>7, <2>8, <2>9 DEF CliInv
<1>4. ASSUME NEW c \in commands, RegisterAgentFail(c)
      PROVE  CliInv'
  <2>1. /\ c.pc \in {"registerAgent", "registered"} /\ c.agent \in Agents
        /\ keypairs' = keypairs \ {c.agent}
        /\ manifests' = [manifests EXCEPT ![c.agent] = None]
        /\ commands' = commands \ {c} /\ given' = given /\ summaries' = summaries
        /\ UNCHANGED <<generated, registry, funds, staked, deposited, locked, tasks, transferred,
                       receipts>>
    BY <1>0, <1>4 DEF RegisterAgentFail, At, Exit, chainVars
  <2>2. /\ manifests' \in [Agents -> Templates \cup {None}]
        /\ manifests'[c.agent] = None
        /\ \A a \in Agents \ {c.agent} : manifests'[a] = manifests[a]
    BY <1>0, <2>1 DEF CliTyped
  <2>3. CliTyped'
    BY <1>0, <2>1, <2>2 DEF CliTyped
  <2>4. \A d \in commands' : d.pc = "registerAgent" => d.agent # c.agent
    BY <1>0, <2>1 DEF ManifestInv, Registering
  <2>5. \A a \in Agents : Authorised(a) => Authorised(a)'
    BY <1>0, <2>1, <2>2, <2>4 DEF Authorised
  <2>6. ManifestInv'
    BY <1>0, <2>1, <2>2 DEF ManifestInv, Registering
  <2>7. RunInv'
    BY <1>0, <2>1, <2>3, <2>5, RunRests
  <2>8. StakeInv'
    BY <1>0, <2>1, <2>3, StakeRests
  <2>9. TaskInv'
    BY <1>0, <2>1, TaskRests
  <2> QED  BY <2>3, <2>6, <2>7, <2>8, <2>9 DEF CliInv
<1>5. ASSUME NEW c \in commands, InitializeFund(c)
      PROVE  CliInv'
  <2>1. /\ c.pc = "initializeFund" /\ c.agent \in Agents
        /\ funds' \in {funds, funds \cup {c.agent}}
        /\ commands' = commands \ {c} /\ given' = given /\ summaries' = summaries \cup {c}
        /\ UNCHANGED <<keypairs, manifests, generated, registry, staked, deposited, locked, tasks,
                       transferred, receipts>>
    BY <1>0, <1>5 DEF InitializeFund, At, Summary, diskVars
  <2>2. CliTyped'
    BY <1>0, <2>1 DEF CliTyped
  <2>3. \A a \in Agents : Authorised(a) => Authorised(a)'
    BY <2>1 DEF Authorised
  <2>4. c.name = "register" /\ registry[c.agent].registered
    BY <1>0, <2>1 DEF ManifestInv
  <2>5. ManifestInv'
    BY <1>0, <2>1, <2>4 DEF ManifestInv, Registering
  <2>6. RunInv'
    BY <1>0, <2>1, <2>2, <2>3, <2>4, RunRests
  <2>7. StakeInv'
    BY <1>0, <2>1, <2>2, <2>4, StakeRests
  <2>8. TaskInv'
    BY <1>0, <2>1, <2>4, TaskRests
  <2> QED  BY <2>2, <2>5, <2>6, <2>7, <2>8 DEF CliInv
<1> QED  BY <1>1, <1>2, <1>3, <1>4, <1>5

\* stake: the deposit, then the declaration; each may end the command.
LEMMA StakeKeeps ==
  ASSUME CliInv,
         \E c \in commands : Deposit(c) \/ DepositFail(c) \/ Declare(c) \/ DeclareFail(c)
  PROVE  CliInv'
<1>0. /\ CliTyped /\ ManifestInv /\ RunInv /\ StakeInv /\ TaskInv
      /\ \A d \in Command : d.agent \in Agents /\ d.amount \in Nat
      /\ commands \subseteq Command /\ summaries \subseteq Command
      /\ \A a \in Agents : deposited[a] \in Nat /\ registry[a].declared \in Nat
  <2>1. CliTyped /\ ManifestInv /\ RunInv /\ StakeInv /\ TaskInv
    BY DEF CliInv
  <2>2. \A d \in Command : d.agent \in Agents /\ d.amount \in Nat
    <3>1. Amounts \cup {0} \subseteq Nat
      BY WorkstationAssumption
    <3>2. \A d \in Command : d.agent \in Agents /\ d.amount \in Amounts \cup {0}
      BY DEF Command
    <3> QED  BY <3>1, <3>2
  <2>3. \A a \in Agents : deposited[a] \in Nat /\ registry[a].declared \in Nat
    BY <2>1 DEF CliTyped, RegistryAccount
  <2> QED  BY <2>1, <2>2, <2>3 DEF CliTyped
<1>1. PICK c \in commands : Deposit(c) \/ DepositFail(c) \/ Declare(c) \/ DeclareFail(c)
  OBVIOUS
<1>2. /\ c.pc \in {"deposit", "declare"} /\ c.name = "stake" /\ c.amount # 0
      /\ c.agent \in Agents /\ c.amount \in Nat
      /\ UNCHANGED <<keypairs, manifests, generated, funds, tasks, transferred, receipts>>
  BY <1>0, <1>1
     DEF StakeInv, Deposit, DepositFail, Declare, DeclareFail, At, diskVars
<1>3. /\ \/ deposited' = [deposited EXCEPT ![c.agent] = @ + c.amount] /\ registry' = registry
         \/ registry' = [registry EXCEPT ![c.agent].declared = c.amount]
            /\ deposited' = deposited /\ c.pc = "declare"
         \/ deposited' = deposited /\ registry' = registry
      /\ \/ Goto(c, "declare") /\ c.pc = "deposit"
            /\ deposited' = [deposited EXCEPT ![c.agent] = @ + c.amount]
         \/ Exit(c)
         \/ Summary(c) /\ registry' = [registry EXCEPT ![c.agent].declared = c.amount]
  BY <1>1 DEF Deposit, DepositFail, Declare, DeclareFail, At, Deposited, Declared, ExitAfter
<1>3a. staked' \in {staked, [staked EXCEPT ![c.agent] = @ + c.amount]}
  BY <1>1 DEF Deposit, DepositFail, Declare, DeclareFail, Deposited, ExitAfter
<1>4. /\ deposited' \in [Agents -> Nat]
      /\ \A a \in Agents : deposited'[a] >= deposited[a]
      /\ deposited' # deposited => deposited'[c.agent] >= c.amount
  <2>1. CASE deposited' = [deposited EXCEPT ![c.agent] = @ + c.amount]
    <3>1. \A a \in Agents :
            deposited'[a] = IF a = c.agent THEN deposited[a] + c.amount ELSE deposited[a]
      BY <1>0, <1>2, <2>1 DEF CliTyped
    <3>2. deposited' \in [Agents -> Nat]
      BY <1>0, <1>2, <2>1, <3>1 DEF CliTyped
    <3> QED  BY <1>0, <1>2, <3>1, <3>2
  <2>2. CASE deposited' = deposited
    BY <1>0, <2>2 DEF CliTyped
  <2> QED  BY <1>3, <2>1, <2>2
<1>5. /\ registry' \in [Agents -> RegistryAccount]
      /\ \A a \in Agents : /\ registry'[a].registered = registry[a].registered
                           /\ registry'[a].hash = registry[a].hash
                           /\ registry'[a].declared
                                \in {registry[a].declared}
                                    \cup (IF a = c.agent /\ c.pc = "declare"
                                          THEN {c.amount} ELSE {})
  BY <1>0, <1>2, <1>3 DEF CliTyped, RegistryAccount
<1>6. /\ given' = given
      /\ summaries' \subseteq summaries \cup {c}
      /\ \A d \in commands' : d \in commands \/ (d \in Command /\ d.pc = "declare"
                                                 /\ d.name = "stake" /\ d.agent = c.agent
                                                 /\ d.amount = c.amount
                                                 /\ deposited'[c.agent] >= c.amount)
  <2>1. CASE Goto(c, "declare") /\ deposited' = [deposited EXCEPT ![c.agent] = @ + c.amount]
    <3>1. deposited'[c.agent] >= c.amount
      BY <1>0, <1>2, <2>1 DEF CliTyped
    <3>2. PICK k \in Command : /\ k.pc = "declare" /\ k.name = c.name
                               /\ k.agent = c.agent /\ k.amount = c.amount
                               /\ commands' = (commands \ {c}) \cup {k}
      BY <1>0, <2>1, GotoMoves DEF Pcs
    <3>3. given' = given /\ summaries' = summaries
      BY <2>1 DEF Goto
    <3> QED  BY <1>2, <3>1, <3>2, <3>3
  <2>2. CASE Exit(c)
    BY <2>2 DEF Exit
  <2>3. CASE Summary(c)
    BY <2>3 DEF Summary
  <2> QED  BY <1>3, <2>1, <2>2, <2>3
<1>7. CliTyped'
  <2>1. commands' \subseteq Command /\ summaries' \subseteq Command
    BY <1>0, <1>6
  <2>2. staked' \in [Agents -> Nat]
    BY <1>0, <1>2, <1>3a DEF CliTyped
  <2> QED  BY <1>0, <1>2, <1>4, <1>5, <1>6, <2>1, <2>2 DEF CliTyped
<1>8. \A a \in Agents : Authorised(a) => Authorised(a)'
  BY <1>2, <1>5, <1>6 DEF Authorised
<1>9. ManifestInv'
  BY <1>0, <1>2, <1>5, <1>6, <1>7, ManifestRests DEF Registering
<1>10. RunInv'
  BY <1>0, <1>2, <1>6, <1>7, <1>8, RunRests
<1>11. StakeInv'
  <2>1. c.pc = "declare" => deposited[c.agent] >= c.amount
    BY <1>0 DEF StakeInv
  <2>2. DeclaredWasDeposited'
    <3>1. SUFFICES ASSUME NEW a \in Agents PROVE registry'[a].declared <= deposited'[a]
      BY DEF DeclaredWasDeposited, Agents
    <3>2. registry[a].declared <= deposited[a] /\ deposited'[a] >= deposited[a]
          /\ deposited'[a] \in Nat /\ deposited[a] \in Nat /\ registry[a].declared \in Nat
      BY <1>0, <1>4 DEF StakeInv, DeclaredWasDeposited
    <3>3. CASE registry'[a].declared = registry[a].declared
      BY <3>2, <3>3
    <3>4. CASE registry'[a].declared # registry[a].declared
      <4>1. a = c.agent /\ c.pc = "declare" /\ registry'[a].declared = c.amount
        BY <1>5, <3>4
      <4> QED  BY <1>2, <2>1, <3>2, <4>1
    <3> QED  BY <3>3, <3>4
  <2>3. \A d \in commands' :
          /\ d.pc \in {"deposit", "declare"} => d.name = "stake" /\ d.amount # 0
          /\ d.pc = "declare" => deposited'[d.agent] >= d.amount
    <3>1. \A d \in commands : deposited'[d.agent] >= deposited[d.agent]
                              /\ deposited'[d.agent] \in Nat /\ deposited[d.agent] \in Nat
                              /\ d.amount \in Nat
      BY <1>0, <1>4
    <3> QED  BY <1>0, <1>2, <1>6, <3>1 DEF StakeInv
  <2>4. \A d \in summaries' :
          d.name = "stake" => deposited'[d.agent] >= d.amount /\ registry'[d.agent].declared > 0
    <3>1. SUFFICES ASSUME NEW d \in summaries', d.name = "stake"
                   PROVE  deposited'[d.agent] >= d.amount /\ registry'[d.agent].declared > 0
      OBVIOUS
    <3>2. /\ d.agent \in Agents /\ d.amount \in Nat
          /\ deposited'[d.agent] >= deposited[d.agent] /\ deposited'[d.agent] \in Nat
          /\ deposited[d.agent] \in Nat /\ registry[d.agent].declared \in Nat
          /\ registry'[d.agent].declared \in {registry[d.agent].declared, c.amount}
      BY <1>0, <1>4, <1>5, <1>6
    <3>3. CASE d \in summaries
      BY <1>0, <1>2, <3>1, <3>2, <3>3 DEF StakeInv
    <3>4. CASE d = c /\ d \notin summaries
      <4>1. Summary(c) /\ registry' = [registry EXCEPT ![c.agent].declared = c.amount]
            /\ c \in summaries'
        BY <1>3, <3>1, <3>4 DEF Exit, Goto
      <4>2. registry'[c.agent].declared = c.amount
        BY <1>0, <1>2, <4>1 DEF CliTyped, RegistryAccount
      <4>3. c.pc = "declare"
        BY <1>1, <4>1, <3>4 DEF Deposit, DepositFail, Declare, DeclareFail, ExitAfter, Exit, Goto, At
      <4> QED  BY <1>2, <2>1, <3>2, <3>4, <4>2, <4>3
    <3> QED  BY <1>6, <3>1, <3>3, <3>4
  <2> QED  BY <2>2, <2>3, <2>4 DEF StakeInv
<1>12. TaskInv'
  BY <1>0, <1>2, <1>6, TaskRests DEF Disputing
<1> QED  BY <1>7, <1>9, <1>10, <1>11, <1>12 DEF CliInv

\* While the first k tasks are registered, the next one is k + 1.
LEMMA NextTask ==
  ASSUME NEW k \in 0..MaxTasks, \A t \in Tasks : tasks[t].status # "none" <=> t <= k
  PROVE  NewTask = k + 1
<1>0. k \in Nat /\ MaxTasks \in Nat /\ 1 \in Int /\ k \in Int
  BY WorkstationAssumption
<1>1. {t \in Tasks : tasks[t].status # "none"} = 1..k
  BY <1>0 DEF Tasks
<1>2. Cardinality(1..k) = IF 1 > k THEN 0 ELSE k - 1 + 1
  BY <1>0, FS_Interval
<1>3. Cardinality(1..k) = k
  BY <1>0, <1>2
<1> QED  BY <1>1, <1>3 DEF NewTask

\* A step that changes tasks, and the funds a challenge locks, only.
LEMMA TaskStepKeeps ==
  ASSUME CliInv, CliTyped', TaskInv', NEW c \in commands,
         c.pc \in {"registerTask", "notify"} \/ Disputing(c),
         UNCHANGED <<diskVars, registry, funds, deposited, transferred, receipts>>,
         \A d \in commands' :
           d \in commands \/ d.pc \in {"notify", "fileChallenge", "autoAdjudicate"},
         summaries' \subseteq summaries \cup {c}
  PROVE  CliInv'
<1>0. CliTyped /\ ManifestInv /\ RunInv /\ StakeInv /\ TaskInv
  BY DEF CliInv
<1>1. /\ UNCHANGED <<keypairs, manifests, generated>>
      /\ UNCHANGED <<registry, funds, deposited, transferred, receipts>>
  BY DEF diskVars
<1>2. \A d \in summaries' : d \in summaries \/ d.name \in {"assign", "challenge"}
  BY <1>0 DEF TaskInv
<1>3. \A a \in Agents : Authorised(a) => Authorised(a)'
  BY <1>1 DEF Authorised
<1>4. ManifestInv'
  BY <1>0, <1>1, <1>2, ManifestRests DEF Registering
<1>5. RunInv'
  BY <1>0, <1>1, <1>2, <1>3, RunRests
<1>6. StakeInv'
  BY <1>0, <1>1, <1>2, StakeRests
<1> QED  BY <1>4, <1>5, <1>6 DEF CliInv

\* assign and challenge.
LEMMA TaskKeeps ==
  ASSUME CliInv,
         \E c \in commands :
           RegisterTask(c) \/ Notify(c) \/ FileChallenge(c) \/ AutoAdjudicate(c)
  PROVE  CliInv'
<1>0. /\ CliTyped /\ TaskInv /\ commands \subseteq Command /\ summaries \subseteq Command
      /\ tasks \in [Tasks -> TaskRecord]
  BY DEF CliInv, CliTyped
<1>1. ASSUME NEW c \in commands, RegisterTask(c)
      PROVE  CliInv'
  <2>1. /\ c.pc = "registerTask" /\ c.name \in {"assign", "challenge"} /\ NewTask \in Tasks
        /\ tasks' = [tasks EXCEPT ![NewTask] = [agent |-> c.agent, status |-> "Pending"]]
        /\ UNCHANGED <<diskVars, registry, funds, staked, deposited, transferred, receipts>>
    BY <1>0, <1>1 DEF RegisterTask, At, TaskInv
  <2>2. PICK k \in 0..MaxTasks : \A t \in Tasks : tasks[t].status # "none" <=> t <= k
    BY <1>0 DEF TaskInv
  <2>3. NewTask = k + 1
    BY <2>2, NextTask
  <2> DEFINE n == NewTask
  <2>4. n \in Tasks /\ n = k + 1 /\ k \in Nat /\ MaxTasks \in Nat /\ n \in 1..MaxTasks
    BY <2>1, <2>2, <2>3, WorkstationAssumption DEF Tasks
  <2>5. c.agent \in 0..MaxAgents
    BY <1>0, WorkstationAssumption DEF Command, Agents
  <2>6. /\ tasks' \in [Tasks -> TaskRecord]
        /\ tasks'[n].agent = c.agent /\ tasks'[n].status = "Pending"
        /\ \A t \in Tasks \ {n} : tasks'[t] = tasks[t]
    BY <1>0, <2>1, <2>5 DEF TaskRecord
  <2>7. /\ given' = given /\ summaries' = summaries
        /\ \/ commands' = commands \ {c}
           \/ \E d \in Command :
                /\ d.agent = c.agent /\ d.name = c.name /\ d.task = n
                /\ d.pc = IF c.name = "assign" THEN "notify" ELSE "fileChallenge"
                /\ commands' = (commands \ {c}) \cup {d}
    <3>1. CASE Exit(c)
      BY <3>1 DEF Exit
    <3>2. CASE /\ commands' = (commands \ {c}) \cup
                    {[c EXCEPT !.task = NewTask,
                               !.pc = IF c.name = "assign" THEN "notify" ELSE "fileChallenge"]}
               /\ UNCHANGED <<given, summaries>>
      <4> DEFINE p == IF c.name = "assign" THEN "notify" ELSE "fileChallenge"
      <4> DEFINE d == [c EXCEPT !.task = n, !.pc = p]
      <4>1. p \in {"notify", "fileChallenge"} /\ n \in 0..MaxTasks
        BY <2>4
      <4>2. c \in Command
        BY <1>0
      <4> HIDE DEF n, p
      <4>3. d \in Command
        BY <4>1, <4>2 DEF Command
      <4>4. d.agent = c.agent /\ d.name = c.name /\ d.task = n /\ d.pc = p
        BY <4>2 DEF Command
      <4>5. commands' = (commands \ {c}) \cup {d}
        BY <3>2 DEF n, p
      <4> HIDE DEF d
      <4> QED  BY <3>2, <4>3, <4>4, <4>5 DEF p
    <3> QED  BY <1>1, <3>1, <3>2 DEF RegisterTask
  <2> HIDE DEF n
  <2>8. CliTyped'
    BY <1>0, <2>1, <2>6, <2>7 DEF CliTyped, diskVars
  <2>9. TaskInv'
    <3>1. /\ \A t \in Tasks : tasks[t].status # "none" => t # n
          /\ n \in Tasks /\ tasks[n].status = "none"
      BY <2>2, <2>4 DEF Tasks
    <3>2. \E j \in 0..MaxTasks : \A t \in Tasks : tasks'[t].status # "none" <=> t <= j
      <4>1. k + 1 \in 0..MaxTasks
        BY <2>4
      <4>2. \A t \in Tasks : tasks'[t].status # "none" <=> t <= k + 1
        BY <2>2, <2>4, <2>6 DEF Tasks
      <4> QED  BY <4>1, <4>2
    <3>3. \A d \in commands' : d \in commands \/ (/\ d.agent = c.agent /\ d.name = c.name
                                                  /\ d.task = n
                                                  /\ d.pc = IF c.name = "assign" THEN "notify"
                                                            ELSE "fileChallenge")
      BY <2>7
    <3>4. \A d \in commands :
            Disputing(d) \/ d.pc = "notify" => /\ d.task \in Tasks /\ d.task # n
                                               /\ tasks'[d.task] = tasks[d.task]
      BY <1>0, <2>6, <3>1 DEF TaskInv, Disputing
    <3>5. \A d \in commands' :
            /\ d.pc = "registerTask" => d.name \in {"assign", "challenge"}
            /\ d.pc = "notify" => /\ d.name = "assign" /\ d.task \in Tasks
                                  /\ tasks'[d.task].status # "none"
                                  /\ tasks'[d.task].agent = d.agent
            /\ Disputing(d) => d.name = "challenge" /\ d.task \in Tasks
            /\ d.pc = "fileChallenge" => tasks'[d.task].status = "Pending"
            /\ d.pc = "autoAdjudicate" => tasks'[d.task].status = "Challenged"
      <4>1. ASSUME NEW d \in commands' \ commands
            PROVE  /\ d.agent = c.agent /\ d.name = c.name /\ d.task = n /\ d.task \in Tasks
                   /\ \/ d.pc = "notify" /\ d.name = "assign"
                      \/ d.pc = "fileChallenge" /\ d.name = "challenge"
        BY <2>1, <3>1, <3>3
      <4>2. ASSUME NEW d \in commands
            PROVE  /\ d.pc = "registerTask" => d.name \in {"assign", "challenge"}
                   /\ d.pc = "notify" => /\ d.name = "assign" /\ d.task \in Tasks
                                         /\ tasks'[d.task].status # "none"
                                         /\ tasks'[d.task].agent = d.agent
                   /\ Disputing(d) => d.name = "challenge" /\ d.task \in Tasks
                   /\ d.pc = "fileChallenge" => tasks'[d.task].status = "Pending"
                   /\ d.pc = "autoAdjudicate" => tasks'[d.task].status = "Challenged"
        BY <1>0, <3>4 DEF TaskInv, Disputing
      <4> QED  BY <2>6, <4>1, <4>2 DEF Disputing
    <3>6. \A d, e \in commands' : Disputing(d) /\ Disputing(e) /\ d.task = e.task => d = e
      BY <1>0, <2>7, <3>4 DEF TaskInv
    <3>7. \A d \in summaries' :
            /\ d.name = "assign" => /\ d.task \in Tasks /\ tasks'[d.task].status # "none"
                                    /\ tasks'[d.task].agent = d.agent
            /\ d.name = "challenge" => d.task \in Tasks /\ tasks'[d.task].status = "Decided"
      BY <1>0, <2>6, <2>7, <3>1 DEF TaskInv
    <3> QED  BY <3>2, <3>5, <3>6, <3>7 DEF TaskInv, Disputing
  <2> QED  BY <2>1, <2>7, <2>8, <2>9, TaskStepKeeps
<1>2. ASSUME NEW c \in commands, Notify(c)
      PROVE  CliInv'
  <2>1. /\ c.pc = "notify" /\ Summary(c)
        /\ UNCHANGED <<keypairs, manifests, generated>>
        /\ UNCHANGED <<registry, funds, staked, deposited, tasks, transferred, receipts>>
    BY <1>2 DEF Notify, At, diskVars, chainVars
  <2>2. commands' = commands \ {c} /\ summaries' = summaries \cup {c} /\ given' = given
    BY <2>1 DEF Summary
  <2>3. CliTyped'
    BY <1>0, <2>1, <2>2 DEF CliTyped
  <2>4. TaskInv'
    BY <1>0, <2>1, <2>2 DEF TaskInv, Disputing
  <2> QED  BY <2>1, <2>2, <2>3, <2>4, TaskStepKeeps DEF diskVars
<1>3. ASSUME NEW c \in commands, FileChallenge(c) \/ AutoAdjudicate(c)
      PROVE  CliInv'
  <2> DEFINE status == IF c.pc = "fileChallenge" THEN "Challenged" ELSE "Decided"
  <2>1. /\ Disputing(c) /\ c.name = "challenge" /\ c.task \in Tasks
        /\ tasks[c.task].status \in {"Pending", "Challenged"}
        /\ tasks' = [tasks EXCEPT ![c.task].status = status]
        /\ UNCHANGED <<keypairs, manifests, generated>>
        /\ UNCHANGED <<registry, funds, deposited, transferred, receipts>>
        /\ staked' = staked \/ Slashed(c)
    BY <1>0, <1>3 DEF FileChallenge, AutoAdjudicate, Decided, At, Disputing, TaskInv, diskVars
  <2>2. \/ c.pc = "fileChallenge" /\ Goto(c, "autoAdjudicate")
        \/ c.pc = "autoAdjudicate" /\ Summary(c)
        \/ Exit(c)
    BY <1>3 DEF FileChallenge, AutoAdjudicate, At
  <2>3. /\ given' = given
        /\ \/ commands' = commands \ {c} /\ summaries' = summaries
           \/ /\ commands' = commands \ {c} /\ summaries' = summaries \cup {c}
              /\ c.pc = "autoAdjudicate"
           \/ /\ c.pc = "fileChallenge" /\ summaries' = summaries
              /\ \E d \in Command : /\ d.name = "challenge" /\ d.task = c.task
                                    /\ d.pc = "autoAdjudicate"
                                    /\ commands' = (commands \ {c}) \cup {d}
    <3>1. CASE Exit(c)
      BY <3>1 DEF Exit
    <3>2. CASE c.pc = "autoAdjudicate" /\ Summary(c)
      BY <3>2 DEF Summary
    <3>3. CASE c.pc = "fileChallenge" /\ Goto(c, "autoAdjudicate")
      BY <1>0, <2>1, <3>3, GotoMoves DEF Pcs
    <3> QED  BY <2>2, <3>1, <3>2, <3>3
  <2>4. status \in {"Challenged", "Decided"}
    OBVIOUS
  <2>5. /\ status = "Challenged" <=> c.pc = "fileChallenge"
        /\ status = "Decided" <=> c.pc # "fileChallenge"
    OBVIOUS
  <2> HIDE DEF status
  <2>6. /\ tasks' \in [Tasks -> TaskRecord]
        /\ tasks'[c.task].agent = tasks[c.task].agent /\ tasks'[c.task].status = status
        /\ \A t \in Tasks \ {c.task} : tasks'[t] = tasks[t]
    BY <1>0, <2>1, <2>4 DEF TaskRecord
  <2>7. CliTyped'
    <3>1. staked' \in [Agents -> Nat]
      <4>1. c.agent \in Agents /\ staked \in [Agents -> Nat]
        BY <1>0 DEF CliTyped, Command
      <4> QED  BY <2>1, <4>1, WorkstationAssumption DEF Slashed
    <3> QED  BY <1>0, <2>1, <2>3, <2>6, <3>1 DEF CliTyped
  <2>8. TaskInv'
    <3>1. \E j \in 0..MaxTasks : \A t \in Tasks : tasks'[t].status # "none" <=> t <= j
      <4>1. \A t \in Tasks : tasks'[t].status # "none" <=> tasks[t].status # "none"
        BY <2>1, <2>4, <2>6
      <4> QED  BY <1>0, <4>1 DEF TaskInv
    <3>2. \A d \in commands \ {c} : Disputing(d) => d.task # c.task
      BY <1>0, <2>1 DEF TaskInv
    <3>3. \A t \in Tasks : /\ tasks'[t].agent = tasks[t].agent
                           /\ tasks[t].status # "none" => tasks'[t].status # "none"
                           /\ t # c.task => tasks'[t] = tasks[t]
      BY <2>1, <2>4, <2>6
    <3>4. \A d \in commands \ {c} :
            /\ d.pc = "registerTask" => d.name \in {"assign", "challenge"}
            /\ d.pc = "notify" => /\ d.name = "assign" /\ d.task \in Tasks
                                  /\ tasks'[d.task].status # "none"
                                  /\ tasks'[d.task].agent = d.agent
            /\ Disputing(d) => d.name = "challenge" /\ d.task \in Tasks
            /\ d.pc = "fileChallenge" => tasks'[d.task].status = "Pending"
            /\ d.pc = "autoAdjudicate" => tasks'[d.task].status = "Challenged"
      BY <1>0, <3>2, <3>3 DEF TaskInv, Disputing
    <3>5. \A d \in commands' \ commands :
            /\ d.name = "challenge" /\ d.task = c.task /\ d.pc = "autoAdjudicate"
            /\ c.pc = "fileChallenge"
      BY <2>3
    <3>6. \A d \in commands' : d \in commands \ {c} \/ d \in commands' \ commands \/ d.pc = "autoAdjudicate"
      BY <2>3
    <3>7. \A d \in commands' :
            /\ d.pc = "registerTask" => d.name \in {"assign", "challenge"}
            /\ d.pc = "notify" => /\ d.name = "assign" /\ d.task \in Tasks
                                  /\ tasks'[d.task].status # "none"
                                  /\ tasks'[d.task].agent = d.agent
            /\ Disputing(d) => d.name = "challenge" /\ d.task \in Tasks
            /\ d.pc = "fileChallenge" => tasks'[d.task].status = "Pending"
            /\ d.pc = "autoAdjudicate" => tasks'[d.task].status = "Challenged"
      <4>1. \A d \in commands' : d \in commands \ {c}
               \/ /\ d.name = "challenge" /\ d.task = c.task /\ d.pc = "autoAdjudicate"
                  /\ c.pc = "fileChallenge"
        BY <2>3
      <4> QED  BY <2>1, <2>5, <2>6, <3>4, <4>1 DEF Disputing
    <3>8. \A d, e \in commands' : Disputing(d) /\ Disputing(e) /\ d.task = e.task => d = e
      BY <1>0, <2>3, <3>2 DEF TaskInv
    <3>9. \A d \in summaries' :
            /\ d.name = "assign" => /\ d.task \in Tasks /\ tasks'[d.task].status # "none"
                                    /\ tasks'[d.task].agent = d.agent
            /\ d.name = "challenge" => d.task \in Tasks /\ tasks'[d.task].status = "Decided"
      <4>1. \A d \in summaries : d.name = "challenge" => d.task # c.task
        BY <1>0, <2>1 DEF TaskInv
      <4>2. \A d \in summaries' : d \in summaries \/ (d = c /\ c.pc = "autoAdjudicate")
        BY <2>3
      <4> QED  BY <1>0, <2>1, <2>5, <2>6, <3>3, <4>1, <4>2 DEF TaskInv
    <3> QED  BY <3>1, <3>7, <3>8, <3>9 DEF TaskInv, Disputing
  <2>9. \A d \in commands' :
          d \in commands \/ d.pc \in {"notify", "fileChallenge", "autoAdjudicate"}
    BY <2>3
  <2>10. summaries' \subseteq summaries \cup {c}
    BY <2>3
  <2> QED  BY <2>1, <2>7, <2>8, <2>9, <2>10, TaskStepKeeps DEF diskVars
<1> QED  BY <1>1, <1>2, <1>3

\* run.
LEMMA TransferKeeps ==
  ASSUME CliInv, \E c \in commands : Transfer(c) \/ Upload(c)
  PROVE  CliInv'
<1>0. /\ CliTyped /\ ManifestInv /\ RunInv /\ StakeInv /\ TaskInv
      /\ commands \subseteq Command
      /\ \A d \in Command : d.agent \in Agents /\ d.id \in 1..MaxCommands
  BY DEF CliInv, CliTyped, Command
<1>1. PICK c \in commands : Transfer(c) \/ Upload(c)
  OBVIOUS
<1>2. /\ c.pc \in {"transfer", "upload"} /\ c.name = "run"
      /\ UNCHANGED <<keypairs, manifests, generated>>
      /\ UNCHANGED <<registry, funds, staked, deposited, tasks>>
      /\ transferred \subseteq transferred' /\ receipts \subseteq receipts'
  BY <1>0, <1>1 DEF RunInv, Transfer, Upload, At, diskVars, chainVars
<1>3. /\ given' = given
      /\ \/ commands' = commands \ {c} /\ summaries' = summaries
         \/ /\ commands' = commands \ {c} /\ summaries' = summaries \cup {c}
            /\ c.pc = "upload" /\ (\E p \in receipts' : p.id = c.id)
            /\ transferred' = transferred
         \/ /\ summaries' = summaries /\ <<c.id, c.agent>> \in transferred'
            /\ \E k \in Command : /\ k.pc = "upload" /\ k.name = "run" /\ k.id = c.id
                                  /\ k.agent = c.agent
                                  /\ commands' = (commands \ {c}) \cup {k}
  <2>1. CASE Exit(c)
    BY <2>1 DEF Exit
  <2>2. CASE Upload(c) /\ Summary(c)
    <3>1. PICK ok \in BOOLEAN : receipts' = receipts \cup {[id |-> c.id, attested |-> ok]}
      BY <2>2 DEF Upload
    <3>2. PICK p : p = [id |-> c.id, attested |-> ok]
      OBVIOUS
    <3>3. p \in receipts' /\ p.id = c.id
      BY <3>1, <3>2
    <3> QED  BY <2>2, <3>3 DEF Upload, Summary, At, chainVars
  <2>3. CASE Transfer(c) /\ Goto(c, "upload")
    <3>1. <<c.id, c.agent>> \in transferred'
      BY <2>3 DEF Transfer
    <3>2. PICK k \in Command : /\ k.pc = "upload" /\ k.name = c.name /\ k.id = c.id
                               /\ k.agent = c.agent
                               /\ commands' = (commands \ {c}) \cup {k}
      BY <1>0, <2>3, GotoMoves DEF Pcs
    <3> QED  BY <1>2, <2>3, <3>1, <3>2 DEF Goto
  <2> QED  BY <1>1, <2>1, <2>2, <2>3 DEF Transfer, Upload
<1>4. \A t \in transferred' : t \in transferred \/ (t = <<c.id, c.agent>> /\ c.pc = "transfer")
  BY <1>1 DEF Transfer, Upload, At, chainVars
<1>5. CliTyped'
  <2>1. transferred' \in SUBSET ((1..MaxCommands) \X Agents)
    BY <1>0, <1>4 DEF CliTyped
  <2> QED  BY <1>0, <1>2, <1>3, <2>1 DEF CliTyped
<1>6. \A a \in Agents : Authorised(a) => Authorised(a)'
  BY <1>2, <1>3 DEF Authorised
<1>7. ManifestInv'
  BY <1>0, <1>2, <1>3, <1>5, ManifestRests DEF Registering
<1>8. RunInv'
  <2>1. \A t \in transferred' : Authorised(t[2])'
    <3>1. \A t \in transferred : t[2] \in Agents /\ Authorised(t[2])
      BY <1>0 DEF RunInv, CliTyped
    <3>2. c.pc = "transfer" => Authorised(c.agent) /\ c.agent \in Agents
      BY <1>0 DEF RunInv
    <3>3. <<c.id, c.agent>>[2] = c.agent
      OBVIOUS
    <3> QED  BY <1>4, <1>6, <3>1, <3>2, <3>3
  <2>2. \A d \in commands' : d.pc = "transfer" => d.name = "run" /\ Authorised(d.agent)'
    <3>1. \A d \in commands' : d.pc = "transfer" => d \in commands
      BY <1>3
    <3> QED  BY <1>0, <1>6, <3>1 DEF RunInv
  <2>3. \A d \in commands' :
          d.pc = "upload" => d.name = "run" /\ <<d.id, d.agent>> \in transferred'
    BY <1>0, <1>2, <1>3 DEF RunInv
  <2>4. \A d \in summaries' :
          d.name = "run" => /\ <<d.id, d.agent>> \in transferred'
                              /\ \E p \in receipts' : p.id = d.id
    BY <1>0, <1>2, <1>3 DEF RunInv
  <2> QED  BY <2>1, <2>2, <2>3, <2>4 DEF RunInv
<1>9. StakeInv'
  BY <1>0, <1>2, <1>3, <1>5, StakeRests
<1>10. TaskInv'
  BY <1>0, <1>2, <1>3, TaskRests DEF Disputing
<1> QED  BY <1>5, <1>7, <1>8, <1>9, <1>10 DEF CliInv

LEMMA CliInitially ==
  ASSUME Init
  PROVE  CliInv
<1>1. CliTyped
  BY WorkstationAssumption
     DEF Init, CliTyped, RegistryAccount, TaskRecord
<1>2. ManifestInv /\ RunInv
  BY <1>1 DEF Init, ManifestInv, RunInv
<1>3. StakeInv
  BY DEF Init, StakeInv, DeclaredWasDeposited
<1>4. TaskInv
  <2>1. 0 \in 0..MaxTasks /\ \A t \in Tasks : tasks[t].status # "none" <=> t <= 0
    BY WorkstationAssumption DEF Init, Tasks
  <2> QED  BY <2>1 DEF Init, TaskInv
<1> QED  BY <1>1, <1>2, <1>3, <1>4 DEF CliInv

\* A step of one command, beside any others.
LEMMA CliKeeps ==
  ASSUME CliInv, Next
  PROVE  CliInv'
<1>1. CASE RegisterStart
  BY <1>1, RegisterKeeps
<1>2. CASE StakeStart \/ AssignStart \/ ChallengeStart \/ RunStart
  BY <1>2, StartKeeps
<1>3. ASSUME NEW c \in commands, Step(c)
      PROVE  CliInv'
  <2>1. CASE RegisterAgent(c) \/ RegisterConfirmed(c) \/ RegisterAgentFail(c)
             \/ InitializeFund(c)
    BY <2>1, RegisterKeeps
  <2>2. CASE Deposit(c) \/ DepositFail(c) \/ Declare(c) \/ DeclareFail(c)
    BY <2>2, StakeKeeps
  <2>3. CASE RegisterTask(c) \/ Notify(c) \/ FileChallenge(c) \/ AutoAdjudicate(c)
    BY <2>3, TaskKeeps
  <2>4. CASE Transfer(c) \/ Upload(c)
    BY <2>4, TransferKeeps
  <2>5. CASE Interrupt(c)
    BY <2>5, ExitKeeps DEF Interrupt
  <2> QED  BY <1>3, <2>1, <2>2, <2>3, <2>4, <2>5 DEF Step
<1> QED  BY <1>1, <1>2, <1>3 DEF Next

-----------------------------------------------------------------------------
(* The curve of PumpFun: its formulas                                       *)

CurveOK ==
    /\ curve \in S!BCState
    /\ curve.virtualTokenReserves > 0 /\ curve.virtualSolReserves > 0

\* The quotient, rounded down, is below the dividend.
LEMMA Quotient ==
  ASSUME NEW a \in Nat, NEW b \in Nat \ {0}
  PROVE  a \div b \in Nat /\ (a \div b) * b <= a
OBVIOUS

LEMMA NetIsLess ==
  ASSUME NEW n \in Nat
  PROVE  S!NetOfFee(n) \in Nat /\ S!NetOfFee(n) <= n
BY DEF S!NetOfFee

\* A product that stays below another one bounds the factor.
LEMMA FactorBelow ==
  ASSUME NEW x \in Nat, NEW y \in Nat, NEW b \in Nat \ {0}, x * b < y * b
  PROVE  x < y
OBVIOUS

LEMMA FactorBounded ==
  ASSUME NEW x \in Nat, NEW y \in Nat, NEW b \in Nat \ {0}, x * b <= y * b
  PROVE  x <= y
OBVIOUS

\* The share of a pool a trade moves is less than the pool.
LEMMA ShareOfPool ==
  ASSUME NEW n \in Nat, NEW pool \in Nat \ {0}, NEW other \in Nat \ {0}
  PROVE  LET share == (n * pool) \div (other + n)
         IN  /\ share \in Nat /\ share < pool
             /\ share * (other + n) <= n * pool
<1> DEFINE share == (n * pool) \div (other + n)
<1>1. n * pool \in Nat /\ other + n \in Nat \ {0}
  OBVIOUS
<1>2. share \in Nat /\ share * (other + n) <= n * pool
  BY <1>1, Quotient
<1> HIDE DEF share
<1>3. n * pool < pool * (other + n)
  <2>1. pool * (other + n) = n * pool + pool * other
    OBVIOUS
  <2>2. pool * other \in Nat /\ pool * other > 0
    OBVIOUS
  <2> QED  BY <1>1, <2>1, <2>2
<1>4. share * (other + n) < pool * (other + n)
  <2>1. /\ share * (other + n) \in Nat /\ pool * (other + n) \in Nat
    BY <1>1, <1>2
  <2> QED  BY <1>1, <1>2, <1>3, <2>1
<1>5. share < pool
  BY <1>1, <1>2, <1>4, FactorBelow
<1> QED  BY <1>2, <1>5 DEF share

LEMMA LeastOf ==
  ASSUME NEW m \in Nat, NEW n \in Nat
  PROVE  S!Least(m, n) \in Nat /\ S!Least(m, n) <= m /\ S!Least(m, n) <= n
BY DEF S!Least

\* What a buyer gets: no more than the share, and than the curve still has.
LEMMA BuyBounds ==
  ASSUME NEW s \in S!BCState, s.virtualTokenReserves > 0, s.virtualSolReserves > 0,
         NEW n \in Nat
  PROVE  /\ S!CalcBuyTokens(s, n) \in Nat
         /\ S!CalcBuyTokens(s, n) < s.virtualTokenReserves
         /\ S!CalcBuyTokens(s, n) <= s.realTokenReserves
         /\ S!CalcBuyTokens(s, n) * (s.virtualSolReserves + S!NetOfFee(n))
              <= S!NetOfFee(n) * s.virtualTokenReserves
<1> DEFINE net == S!NetOfFee(n)
           vT == s.virtualTokenReserves
           vS == s.virtualSolReserves
           rT == s.realTokenReserves
           share == (net * vT) \div (vS + net)
           got == S!Least(share, rT)
<1>1. /\ vT \in Nat \ {0} /\ vS \in Nat \ {0} /\ rT \in Nat /\ net \in Nat
  BY NetIsLess DEF S!BCState
<1>2. S!CalcBuyTokens(s, n) = got
  BY DEF S!CalcBuyTokens
<1> HIDE DEF net, vT, vS, rT
<1>3. share \in Nat /\ share < vT /\ share * (vS + net) <= net * vT
  BY <1>1, ShareOfPool
<1> HIDE DEF share
<1>4. got \in Nat /\ got <= share /\ got <= rT
  BY <1>1, <1>3, LeastOf
<1> HIDE DEF got
<1>5. got * (vS + net) <= share * (vS + net)
  BY <1>1, <1>3, <1>4
<1>6. got * (vS + net) <= net * vT
  <2>1. /\ got * (vS + net) \in Nat /\ share * (vS + net) \in Nat /\ net * vT \in Nat
    BY <1>1, <1>3, <1>4
  <2> QED  BY <1>3, <1>5, <2>1
<1>7. got < vT
  BY <1>1, <1>3, <1>4
<1> QED  BY <1>2, <1>4, <1>6, <1>7 DEF net, vT, vS, rT

\* What a seller gets.
LEMMA SellBounds ==
  ASSUME NEW s \in S!BCState, s.virtualTokenReserves > 0, s.virtualSolReserves > 0,
         NEW n \in Nat
  PROVE  /\ S!CalcSellSol(s, n) \in Nat
         /\ S!CalcSellSol(s, n) < s.virtualSolReserves
         /\ S!CalcSellSol(s, n) <= s.realSolReserves
         /\ S!CalcSellSol(s, n)
              <= (n * s.virtualSolReserves) \div (s.virtualTokenReserves + n)
<1> DEFINE vT == s.virtualTokenReserves
           vS == s.virtualSolReserves
           rS == s.realSolReserves
           gross == (n * vS) \div (vT + n)
           net == (gross * 9900) \div 10000
           got == S!Least(net, rS)
<1>1. /\ vT \in Nat \ {0} /\ vS \in Nat \ {0} /\ rS \in Nat
  BY DEF S!BCState
<1>2. S!CalcSellSol(s, n) = got
  BY DEF S!CalcSellSol
<1> HIDE DEF vT, vS, rS
<1>3. gross \in Nat /\ gross < vS
  BY <1>1, ShareOfPool
<1>4. gross = (n * vS) \div (vT + n)
  OBVIOUS
<1> HIDE DEF gross
<1>5. net \in Nat /\ net <= gross
  BY <1>3
<1> HIDE DEF net
<1>6. got \in Nat /\ got <= net /\ got <= rS
  BY <1>1, <1>5, LeastOf
<1> HIDE DEF got
<1>7. got < vS /\ got <= gross
  BY <1>1, <1>3, <1>5, <1>6
<1> QED  BY <1>2, <1>4, <1>6, <1>7 DEF vT, vS, rS

\* What a sale takes from the curve: no more than the curve has.
LEMMA GrossBounds ==
  ASSUME NEW s \in S!BCState, s.virtualTokenReserves > 0, s.virtualSolReserves > 0,
         NEW n \in Nat
  PROVE  /\ S!GrossSol(s, n) \in Nat
         /\ S!GrossSol(s, n) < s.virtualSolReserves
         /\ S!GrossSol(s, n) <= s.realSolReserves
<1> DEFINE vT == s.virtualTokenReserves
           vS == s.virtualSolReserves
           rS == s.realSolReserves
           share == (n * vS) \div (vT + n)
           gross == S!Least(share, rS)
<1>1. /\ vT \in Nat \ {0} /\ vS \in Nat \ {0} /\ rS \in Nat
  BY DEF S!BCState
<1>2. S!GrossSol(s, n) = gross
  BY DEF S!GrossSol
<1> HIDE DEF vT, vS, rS
<1>3. share \in Nat /\ share < vS
  BY <1>1, ShareOfPool
<1> HIDE DEF share
<1>4. gross \in Nat /\ gross <= share /\ gross <= rS
  BY <1>1, <1>3, LeastOf
<1> HIDE DEF gross
<1>5. gross < vS
  BY <1>1, <1>3, <1>4
<1> QED  BY <1>2, <1>4, <1>5 DEF vS, rS

Orders == {"buy", "sell"}

\* A trade leaves a curve on which the next one is defined.
LEMMA TradedIsOK ==
  ASSUME CurveOK, NEW op \in Orders, NEW n \in Nat
  PROVE  /\ S!Quote(curve, op, n) \in Nat
         /\ S!Traded(curve, op, n) \in S!BCState
         /\ S!Traded(curve, op, n).virtualTokenReserves > 0
         /\ S!Traded(curve, op, n).virtualSolReserves > 0
<1> DEFINE vT == curve.virtualTokenReserves
           vS == curve.virtualSolReserves
           rT == curve.realTokenReserves
           rS == curve.realSolReserves
           tokens == S!CalcBuyTokens(curve, n)
           sol == S!GrossSol(curve, n)
           net == S!NetOfFee(n)
<1>1. /\ vT \in Nat /\ vS \in Nat /\ rT \in Nat /\ rS \in Nat /\ vT > 0 /\ vS > 0
  BY DEF CurveOK, S!BCState
<1>2. tokens \in Nat /\ tokens < vT /\ tokens <= rT
  BY BuyBounds DEF CurveOK
<1>3. /\ sol \in Nat /\ sol < vS /\ sol <= rS
      /\ S!CalcSellSol(curve, n) \in Nat
  BY GrossBounds, SellBounds DEF CurveOK
<1>4. net \in Nat
  BY NetIsLess
<1>5. CASE op = "buy"
  <2>1. S!Traded(curve, op, n)
          = [virtualTokenReserves |-> vT + (0 - tokens), virtualSolReserves |-> vS + net,
             realTokenReserves |-> rT + (0 - tokens), realSolReserves |-> rS + net,
             complete |-> rT + (0 - tokens) <= 0]
    BY <1>5 DEF S!Traded
  <2>2. S!Quote(curve, op, n) = tokens
    BY <1>5 DEF S!Quote
  <2> HIDE DEF vT, vS, rT, rS, tokens, net
  <2>3. /\ vT + (0 - tokens) \in Nat /\ vT + (0 - tokens) > 0 /\ rT + (0 - tokens) \in Nat
        /\ vS + net \in Nat /\ vS + net > 0 /\ rS + net \in Nat
    BY <1>1, <1>2, <1>4
  <2> QED  BY <1>2, <2>1, <2>2, <2>3 DEF S!BCState
<1>6. CASE op = "sell"
  <2>1. S!Traded(curve, op, n)
          = [virtualTokenReserves |-> vT + n, virtualSolReserves |-> vS + (0 - sol),
             realTokenReserves |-> rT + n, realSolReserves |-> rS + (0 - sol),
             complete |-> rT + n <= 0]
    BY <1>6 DEF S!Traded
  <2>2. S!Quote(curve, op, n) = S!CalcSellSol(curve, n)
    BY <1>6 DEF S!Quote
  <2> HIDE DEF vT, vS, rT, rS, sol
  <2>3. /\ vS + (0 - sol) \in Nat /\ vS + (0 - sol) > 0 /\ rS + (0 - sol) \in Nat
        /\ vT + n \in Nat /\ vT + n > 0 /\ rT + n \in Nat
    BY <1>1, <1>3
  <2> QED  BY <1>3, <2>1, <2>2, <2>3 DEF S!BCState
<1> QED  BY <1>5, <1>6 DEF Orders

\* The least a trade may give is a natural number, and not below the quote less
\* the slippage.
LEMMA MinOutBounds ==
  ASSUME NEW q \in Nat
  PROVE  /\ S!MinOut(q) \in Nat
         /\ \A x \in Nat : x >= S!MinOut(q) => x * 10000 >= q * (10000 - SlippageBps)
<1> DEFINE bps == SlippageBps
           p == q * bps
           d == p \div 10000
<1>1. bps \in Nat /\ bps <= 10000
  BY WorkstationAssumption
<1>2. S!MinOut(q) = q - d
  BY DEF S!MinOut
<1> HIDE DEF bps
<1>3. q * (10000 - bps) = q * 10000 - p
  BY <1>1
<1>4. p \in Nat /\ p <= q * 10000
  BY <1>1
<1> HIDE DEF p
<1>5. d \in Nat /\ d * 10000 <= p /\ d <= q
  BY <1>4
<1> HIDE DEF d
<1>6. q - d \in Nat /\ \A x \in Nat : x >= q - d => x * 10000 >= q * 10000 - p
  BY <1>4, <1>5
<1> QED  BY <1>2, <1>3, <1>6 DEF bps

\* Buying and selling again gains nothing.
LEMMA RoundTrip ==
  ASSUME CurveOK
  PROVE  RoundTripCosts
<1>1. SUFFICES ASSUME NEW n \in SolAmounts
               PROVE  S!CalcSellSol(S!Traded(curve, "buy", n), S!CalcBuyTokens(curve, n)) <= n
  BY DEF RoundTripCosts, S!RoundTripCosts
<1> DEFINE vT == curve.virtualTokenReserves
           vS == curve.virtualSolReserves
           tokens == S!CalcBuyTokens(curve, n)
           net == S!NetOfFee(n)
           after == S!Traded(curve, "buy", n)
           gross == (tokens * (vS + net)) \div vT
<1>2. n \in Nat
  BY WorkstationAssumption
<1>3. vT \in Nat \ {0} /\ vS \in Nat
  BY DEF CurveOK, S!BCState
<1>4. /\ tokens \in Nat /\ tokens < vT
      /\ tokens * (vS + net) <= net * vT
  BY <1>2, BuyBounds DEF CurveOK
<1>5. net \in Nat /\ net <= n
  BY <1>2, NetIsLess
<1>6. /\ after \in S!BCState /\ after.virtualTokenReserves > 0
      /\ after.virtualSolReserves > 0
  BY <1>2, TradedIsOK DEF Orders
<1>7. /\ after.virtualTokenReserves = vT + (0 - tokens)
      /\ after.virtualSolReserves = vS + net
  BY DEF S!Traded
<1>8. S!CalcSellSol(after, tokens) \in Nat
      /\ S!CalcSellSol(after, tokens)
           <= (tokens * after.virtualSolReserves) \div (after.virtualTokenReserves + tokens)
  BY <1>4, <1>6, SellBounds
<1> DEFINE got == S!CalcSellSol(after, tokens)
<1>9. got \in Nat /\ got <= (tokens * (vS + net)) \div (vT + (0 - tokens) + tokens)
  BY <1>7, <1>8
<1> HIDE DEF vT, vS, tokens, net, after, got
<1>10. vT + (0 - tokens) + tokens = vT
  BY <1>3, <1>4
<1>11. got <= gross
  BY <1>9, <1>10
<1>12. tokens * (vS + net) \in Nat
  BY <1>3, <1>4, <1>5
<1>13. gross \in Nat /\ gross * vT <= tokens * (vS + net)
  BY <1>3, <1>12, Quotient
<1> HIDE DEF gross
<1>14. gross * vT <= net * vT
  <2>1. gross * vT \in Nat /\ net * vT \in Nat
    BY <1>3, <1>5, <1>13
  <2> QED  BY <1>4, <1>12, <1>13, <2>1
<1>15. gross <= net
  BY <1>3, <1>5, <1>13, <1>14, FactorBounded
<1>16. got <= n
  BY <1>2, <1>5, <1>9, <1>11, <1>13, <1>15
<1> QED  BY <1>16 DEF got, after, tokens

-----------------------------------------------------------------------------
(* The scripts: the inductive invariant                                     *)

ScriptTyped ==
    /\ started \in 0..MaxRuns
    /\ CurveOK
    /\ positions \in [Agents -> SUBSET (1..MaxRuns)]
    /\ landed \in SUBSET [run : 1..MaxRuns, n : 1..MaxTxs, ok : BOOLEAN]
    /\ fills \in SUBSET [run : 1..MaxRuns, quoted : Nat, received : Nat]
    /\ signedReceipts \in SUBSET [run : 1..MaxRuns, names : BOOLEAN]
    /\ registered \in SUBSET (1..MaxRuns)
    /\ uploaded \in SUBSET (1..MaxRuns) /\ attested \in SUBSET (1..MaxRuns)
    /\ completed \in SUBSET S!Completion

Checked(r) == S!LooksAtErrors(r)

\* The transactions of a script that are in a block, by number.
Numbers(id) == {t.n : t \in {u \in landed : u.run = id}}

HasLanded(id) == \E t \in landed : t.run = id
NoneFailed(id) == \A t \in landed : t.run = id => t.ok
HasReceipt(id) == \E p \in signedReceipts : p.run = id

\* The transactions of the script, if it sends any, are behind it.
Recording == {"registering", "signing", "reporting", "uploading", "attesting"}

\* A script in progress: what it has sent, and recorded, is there.
RunOK(r) ==
    /\ r \in S!Run /\ r.id <= started
    /\ r.pc = "deciding" => r.op = "none"
    /\ r.pc \in {"deciding", "building", "authorising"} => r.sent = 0 /\ r.txs = 0
    /\ r.pc = "sending" => r.sent < r.txs
    /\ r.pc \in Recording => r.sent = r.txs
    /\ r.pc # "showing" => Numbers(r.id) = 1..r.sent
    /\ r.pc = "sending" /\ r.tool = "pumpfun" => r.minOut = S!MinOut(r.quoted)
    /\ Checked(r) => NoneFailed(r.id)
    /\ r.tool = "sol" =>
         /\ r.pc \in Recording => HasLanded(r.id)
         /\ r.pc \in Recording \ {"registering"} => r.id \in registered
         /\ r.pc \in {"reporting", "uploading", "attesting"} => HasReceipt(r.id)
         /\ r.pc = "attesting" => r.id \in uploaded

RecordsOK ==
    /\ attested \subseteq uploaded /\ uploaded \subseteq registered
    /\ \A id \in uploaded : HasReceipt(id) /\ \E t \in landed : t.run = id /\ t.ok

CompletedOK(c) ==
    /\ HasReceipt(c.id)
    /\ Numbers(c.id) = 1..c.txs
    /\ Checked(c) => NoneFailed(c.id)
    /\ c.tool = "sol" => c.id \in attested

FillsOK == \A f \in fills : f.received >= S!MinOut(f.quoted)

\* The number of a script is its own, and one that has completed sends nothing.
ScriptInv ==
    /\ ScriptTyped
    /\ \A r \in runs : RunOK(r)
    /\ \A r, s \in runs : r.id = s.id => r = s
    /\ \A t \in landed : t.run <= started
    /\ \A c \in completed : c.id <= started
    /\ \A c \in completed, r \in runs : c.id = r.id => r.pc = "showing"
    /\ RecordsOK
    /\ \A c \in completed : CompletedOK(c)
    /\ FillsOK

-----------------------------------------------------------------------------
(* The scripts: what a step of one of them leaves alone                     *)

\* Another script changes no number; a transaction adds its own.
LEMMA NumbersRest ==
  ASSUME NEW id, landed \subseteq landed', \A t \in landed' \ landed : t.run # id
  PROVE  Numbers(id)' = Numbers(id)
BY DEF Numbers

LEMMA NumbersGrow ==
  ASSUME NEW id, NEW t, t.run = id, landed' = landed \cup {t}
  PROVE  Numbers(id)' = Numbers(id) \cup {t.n}
BY DEF Numbers

\* A step of the script r: it goes on as s or ends, and adds under its own
\* number only.
Advances(r, s) ==
    /\ started' = started
    /\ runs' = (runs \ {r}) \cup {s} \/ runs' = runs \ {r}
    /\ landed \subseteq landed' /\ signedReceipts \subseteq signedReceipts'
    /\ registered \subseteq registered' /\ uploaded \subseteq uploaded'
    /\ attested \subseteq attested' /\ completed \subseteq completed'
    /\ \A t \in landed' \ landed : t.run = r.id
    /\ \A c \in completed' \ completed : c.id = r.id /\ c.tool = r.tool
    /\ r.pc = "showing" => landed' = landed /\ runs' = runs \ {r}

LEMMA OthersRest ==
  ASSUME ScriptInv, NEW r \in runs, NEW s, Advances(r, s), NEW o \in runs, o # r
  PROVE  RunOK(o)'
<1>1. RunOK(o) /\ o.id # r.id
  BY DEF ScriptInv
<1>2. HasLanded(o.id) => HasLanded(o.id)'
  BY DEF Advances, HasLanded
<1>3. NoneFailed(o.id) => NoneFailed(o.id)'
  BY <1>1 DEF Advances, NoneFailed
<1>4. HasReceipt(o.id) => HasReceipt(o.id)'
  BY DEF Advances, HasReceipt
<1>5. /\ started' = started /\ registered \subseteq registered'
      /\ uploaded \subseteq uploaded'
  BY DEF Advances
<1>6. Numbers(o.id)' = Numbers(o.id)
  BY <1>1, NumbersRest DEF Advances
<1> QED  BY <1>1, <1>2, <1>3, <1>4, <1>5, <1>6 DEF RunOK

\* What has to be shown of a step of one script.
LEMMA ScriptKeeps ==
  ASSUME ScriptInv, ScriptTyped', NEW r \in runs, NEW s, Advances(r, s),
         runs' = (runs \ {r}) \cup {s} => RunOK(s)' /\ s.id = r.id,
         \A c \in completed' \ completed :
           CompletedOK(c)' /\ (runs' = (runs \ {r}) \cup {s} => s.pc = "showing"),
         RecordsOK', FillsOK'
  PROVE  ScriptInv'
<1>1. /\ started' = started
      /\ runs' = (runs \ {r}) \cup {s} \/ runs' = runs \ {r}
      /\ r.id <= started
      /\ \A q \in runs \ {r} : q.id # r.id
  BY DEF Advances, ScriptInv, RunOK
<1>2. \A q \in runs' : RunOK(q)'
  <2>1. SUFFICES ASSUME NEW q \in runs' PROVE RunOK(q)'
    OBVIOUS
  <2>2. CASE q \in runs /\ q # r
    BY <2>2, OthersRest
  <2>3. CASE ~(q \in runs /\ q # r)
    <3>1. q = s /\ runs' = (runs \ {r}) \cup {s}
      BY <1>1, <2>3
    <3> QED  BY <3>1
  <2> QED  BY <2>2, <2>3
<1>3. \A p, q \in runs' : p.id = q.id => p = q
  BY <1>1 DEF ScriptInv
<1>4. \A t \in landed' : t.run <= started'
  BY <1>1 DEF ScriptInv, Advances
<1>5. \A c \in completed' : c.id <= started'
  BY <1>1 DEF ScriptInv, Advances
<1>6. \A c \in completed', q \in runs' : c.id = q.id => q.pc = "showing"
  <2>1. SUFFICES ASSUME NEW c \in completed', NEW q \in runs', c.id = q.id
                 PROVE  q.pc = "showing"
    OBVIOUS
  <2>2. CASE c \in completed /\ q \in runs /\ q # r
    BY <2>1, <2>2 DEF ScriptInv
  <2>3. CASE c \in completed /\ ~(q \in runs /\ q # r)
    <3>1. q = s /\ runs' = (runs \ {r}) \cup {s} /\ q.id = r.id
      BY <1>1, <2>3
    <3>2. r.pc = "showing"
      BY <2>1, <2>3, <3>1 DEF ScriptInv
    <3>3. runs' = runs \ {r}
      BY <3>2 DEF Advances
    <3> QED  BY <2>3, <3>3
  <2>4. CASE c \notin completed
    <3>1. c.id = r.id
      BY <2>4 DEF Advances
    <3> QED  BY <1>1, <2>1, <2>4, <3>1
  <2> QED  BY <2>2, <2>3, <2>4
<1>7. \A c \in completed' : CompletedOK(c)'
  <2>1. SUFFICES ASSUME NEW c \in completed PROVE CompletedOK(c)'
    OBVIOUS
  <2>2. CompletedOK(c) /\ (c.id = r.id => r.pc = "showing")
    BY DEF ScriptInv
  <2>3. Numbers(c.id)' = Numbers(c.id)
    <3>1. CASE c.id = r.id
      <4>1. landed' = landed
        BY <2>2, <3>1 DEF Advances
      <4> QED  BY <4>1, NumbersRest
    <3>2. CASE c.id # r.id
      BY <3>2, NumbersRest DEF Advances
    <3> QED  BY <3>1, <3>2
  <2>4. NoneFailed(c.id) => NoneFailed(c.id)'
    BY <2>2 DEF Advances, NoneFailed
  <2>5. HasReceipt(c.id) => HasReceipt(c.id)'
    BY DEF Advances, HasReceipt
  <2>6. attested \subseteq attested'
    BY DEF Advances
  <2> QED  BY <2>2, <2>3, <2>4, <2>5, <2>6 DEF CompletedOK
<1> QED  BY <1>2, <1>3, <1>4, <1>5, <1>6, <1>7 DEF ScriptInv

\* A step that records nothing: it goes on, or ends, with or without one more
\* transaction in a block.  Where confirmations are looked at it goes on only
\* after a transaction that has not failed.
Sends(r, s) ==
    \/ /\ landed' = landed
       /\ \/ runs' = (runs \ {r}) \cup {s} /\ s.sent = r.sent
          \/ runs' = runs \ {r}
    \/ \E ok \in BOOLEAN :
         /\ r.sent < MaxTxs
         /\ landed' = landed \cup {[run |-> r.id, n |-> r.sent + 1, ok |-> ok]}
         /\ \/ /\ runs' = (runs \ {r}) \cup {s} /\ (Checked(r) => ok)
               /\ s.sent = r.sent + 1
            \/ runs' = runs \ {r}

LEMMA QuietKeeps ==
  ASSUME ScriptInv, NEW r \in runs, NEW s \in S!Run, Sends(r, s),
         UNCHANGED <<started, signedReceipts, registered, uploaded, attested, completed>>,
         CurveOK', positions' \in [Agents -> SUBSET (1..MaxRuns)],
         fills' \in SUBSET [run : 1..MaxRuns, quoted : Nat, received : Nat], FillsOK',
         r.pc # "showing" \/ (landed' = landed /\ runs' = runs \ {r}),
         s.id = r.id, s.tool = r.tool,
         Checked(s) => Checked(r),
         s.pc \in {"building", "authorising"} => s.sent = 0 /\ s.txs = 0,
         s.pc \in {"signing", "registering"} => s.sent = s.txs,
         s.pc = "sending" => s.sent < s.txs,
         s.pc = "sending" /\ s.tool = "pumpfun" => s.minOut = S!MinOut(s.quoted),
         s.pc \in {"building", "authorising", "sending", "signing", "registering"},
         runs' = runs \ {r} \/
           (s.tool = "sol" => s.pc # "signing"),
         runs' = runs \ {r} \/
           (s.pc \in Recording /\ s.tool = "sol" => HasLanded(s.id)')
  PROVE  ScriptInv'
<1>0. /\ ScriptTyped /\ RunOK(r) /\ RecordsOK /\ r.id <= started
      /\ MaxTxs \in Nat /\ r.sent \in Nat /\ r.id \in 1..MaxRuns
      /\ r \in S!Run
  BY WorkstationAssumption DEF ScriptInv, RunOK, S!Run
<1>1. (landed' = landed /\ (s.sent = r.sent \/ runs' = runs \ {r})) \/ \E t : /\ t \in [run : 1..MaxRuns, n : 1..MaxTxs, ok : BOOLEAN]
                                 /\ t.run = r.id /\ landed' = landed \cup {t}
                                 /\ t.n = r.sent + 1
                                 /\ \/ (Checked(r) => t.ok) /\ s.sent = r.sent + 1
                                    \/ runs' = runs \ {r}
  <2>1. SUFFICES ASSUME ~(landed' = landed /\ (s.sent = r.sent \/ runs' = runs \ {r}))
                 PROVE  \E t : /\ t \in [run : 1..MaxRuns, n : 1..MaxTxs, ok : BOOLEAN]
                               /\ t.run = r.id /\ landed' = landed \cup {t}
                               /\ t.n = r.sent + 1
                               /\ \/ (Checked(r) => t.ok) /\ s.sent = r.sent + 1
                                  \/ runs' = runs \ {r}
    OBVIOUS
  <2>2. PICK ok \in BOOLEAN :
          /\ r.sent < MaxTxs
          /\ landed' = landed \cup {[run |-> r.id, n |-> r.sent + 1, ok |-> ok]}
          /\ \/ /\ runs' = (runs \ {r}) \cup {s} /\ (Checked(r) => ok)
                /\ s.sent = r.sent + 1
             \/ runs' = runs \ {r}
    BY <2>1 DEF Sends
  <2> DEFINE t == [run |-> r.id, n |-> r.sent + 1, ok |-> ok]
  <2>3. r.sent + 1 \in 1..MaxTxs
    BY <1>0, <2>2
  <2>4. t \in [run : 1..MaxRuns, n : 1..MaxTxs, ok : BOOLEAN] /\ t.run = r.id /\ t.ok = ok
        /\ t.n = r.sent + 1
    BY <1>0, <2>3
  <2>5. landed' = landed \cup {t}
    BY <2>2
  <2>6. ((Checked(r) => ok) /\ s.sent = r.sent + 1) \/ runs' = runs \ {r}
    BY <2>2
  <2> HIDE DEF t
  <2> QED  BY <2>4, <2>5, <2>6
<1>2. landed' \in SUBSET [run : 1..MaxRuns, n : 1..MaxTxs, ok : BOOLEAN]
      /\ landed \subseteq landed' /\ \A t \in landed' \ landed : t.run = r.id
  BY <1>0, <1>1 DEF ScriptTyped
<1>3. runs' = (runs \ {r}) \cup {s} \/ runs' = runs \ {r}
  BY DEF Sends
<1>4. ScriptTyped'
  BY <1>0, <1>2 DEF ScriptTyped
<1>5. Advances(r, s)
  BY <1>2, <1>3 DEF Advances
<1>6. ASSUME runs' # runs \ {r}
      PROVE  RunOK(s)'
  <2>1. Checked(s) => NoneFailed(s.id)'
    <3>1. Checked(r) => NoneFailed(r.id)
      BY <1>0 DEF RunOK
    <3>2. Checked(r) => \A t \in landed' \ landed : t.ok
      BY <1>1, <1>6
    <3> QED  BY <3>1, <3>2 DEF NoneFailed
  <2>2. s.pc \in Recording /\ s.tool = "sol" => HasLanded(s.id)'
    BY <1>6
  <2>3. /\ s.tool = "sol" => s.pc \notin Recording \ {"registering"}
        /\ s.pc \in Recording => s.sent = s.txs
        /\ s.pc # "deciding"
    BY <1>6 DEF Recording
  <2>4. Numbers(s.id)' = 1..s.sent
    <3>1. Numbers(r.id) = 1..r.sent
      <4>1. r.pc # "showing"
        BY <1>6
      <4> QED  BY <1>0, <4>1 DEF RunOK
    <3>2. CASE landed' = landed /\ s.sent = r.sent
      <4>1. Numbers(r.id)' = Numbers(r.id)
        BY <3>2, NumbersRest
      <4> QED  BY <3>1, <3>2, <4>1
    <3>3. CASE ~(landed' = landed /\ s.sent = r.sent)
      <4>1. PICK t : /\ t.run = r.id /\ landed' = landed \cup {t}
                     /\ t.n = r.sent + 1 /\ s.sent = r.sent + 1
        BY <1>1, <1>6, <3>3
      <4>2. Numbers(r.id)' = (1..r.sent) \cup {r.sent + 1}
        BY <3>1, <4>1, NumbersGrow
      <4>3. (1..r.sent) \cup {r.sent + 1} = 1..(r.sent + 1)
        BY <1>0
      <4> QED  BY <4>1, <4>2, <4>3
    <3> QED  BY <3>2, <3>3
  <2>5. s.pc \in {"reporting", "uploading", "attesting"} => s.pc \in Recording \ {"registering"}
    BY DEF Recording
  <2> QED  BY <1>0, <2>1, <2>2, <2>3, <2>4, <2>5 DEF RunOK
<1>7. RecordsOK'
  BY <1>0, <1>2 DEF RecordsOK, HasReceipt
<1>8. runs' = (runs \ {r}) \cup {s} => runs' # runs \ {r}
  BY DEF ScriptInv
<1>9. \A c \in completed' \ completed :
        CompletedOK(c)' /\ (runs' = (runs \ {r}) \cup {s} => s.pc = "showing")
  OBVIOUS
<1>10. runs' = (runs \ {r}) \cup {s} => RunOK(s)' /\ s.id = r.id
  BY <1>6, <1>8
<1> QED  BY <1>4, <1>5, <1>7, <1>9, <1>10, ScriptKeeps

-----------------------------------------------------------------------------
(* The scripts: every step                                                  *)

MarketsRest == UNCHANGED <<curve, positions, fills>>

RecordsRest == UNCHANGED <<signedReceipts, registered, uploaded, attested, completed>>

LEMMA MarketsAtRest ==
  ASSUME ScriptInv, MarketsRest
  PROVE  /\ CurveOK' /\ positions' \in [Agents -> SUBSET (1..MaxRuns)]
         /\ fills' \in SUBSET [run : 1..MaxRuns, quoted : Nat, received : Nat] /\ FillsOK'
BY DEF ScriptInv, ScriptTyped, MarketsRest, CurveOK, FillsOK

LEMMA RunFacts ==
  ASSUME ScriptInv, NEW r \in runs
  PROVE  /\ r \in S!Run /\ RunOK(r) /\ r.id <= started
         /\ r.sent \in Nat /\ r.txs \in 0..MaxTxs /\ r.id \in 1..MaxRuns
         /\ r.pc \in {"deciding", "building", "authorising"} => r.sent = 0 /\ r.txs = 0
         /\ r.pc = "sending" => r.sent < r.txs /\ r.sent < MaxTxs
         /\ MaxTxs \in Nat /\ MaxTxs > 0
BY WorkstationAssumption DEF ScriptInv, RunOK, S!Run

\* A script that ends, with nothing more done.
LEMMA LeaveKeeps ==
  ASSUME ScriptInv, NEW r \in runs, S!Leave(r), MarketsRest, RecordsRest, landed' = landed
  PROVE  ScriptInv'
<1>1. runs' = runs \ {r} /\ started' = started
  BY DEF S!Leave
<1>2. ScriptTyped'
  BY <1>1 DEF ScriptInv, ScriptTyped, MarketsRest, RecordsRest, CurveOK
<1>3. Advances(r, r)
  BY <1>1 DEF Advances, RecordsRest
<1>4. RecordsOK' /\ FillsOK'
  BY DEF ScriptInv, RecordsOK, FillsOK, HasReceipt, RecordsRest, MarketsRest
<1>5. runs' # (runs \ {r}) \cup {r} /\ completed' \ completed = {}
  BY <1>1 DEF RecordsRest
<1> QED  BY <1>2, <1>3, <1>4, <1>5, ScriptKeeps

\* A script that is given the keypair of an agent.
LEMMA StartScriptKeeps ==
  ASSUME ScriptInv, CliTyped, S!StartScript
  PROVE  ScriptInv'
<1>0. /\ ScriptTyped /\ started \in Nat /\ MaxRuns \in Nat /\ MaxTxs \in Nat
      /\ \A tool \in Tools : S!KeypairsOf(tool) \subseteq Agents
  BY WorkstationAssumption DEF ScriptInv, ScriptTyped, CliTyped, Agents, S!KeypairsOf
<1>1. PICK tool \in Tools, a \in Agents :
        runs' = runs \cup {[id |-> started', tool |-> tool, agent |-> a, pc |-> "deciding",
                            op |-> "none", amount |-> 0, quoted |-> 0, minOut |-> 0,
                            position |-> 0, txs |-> 0, sent |-> 0]}
  BY <1>0 DEF S!StartScript
<1>2. /\ started' = started + 1 /\ started < MaxRuns /\ landed' = landed
      /\ MarketsRest /\ RecordsRest
  BY DEF S!StartScript, S!marketVars, S!recordVars, MarketsRest, RecordsRest
<1>3. started' \in 1..MaxRuns
  BY <1>0, <1>2
<1>4. PICK s : s = [id |-> started', tool |-> tool, agent |-> a, pc |-> "deciding",
                    op |-> "none", amount |-> 0, quoted |-> 0, minOut |-> 0,
                    position |-> 0, txs |-> 0, sent |-> 0]
  OBVIOUS
<1>5. /\ s \in S!Run /\ s.id = started + 1 /\ s.pc = "deciding" /\ s.sent = 0
      /\ s.txs = 0 /\ s.op = "none" /\ s.tool = tool /\ runs' = runs \cup {s}
  BY <1>0, <1>1, <1>2, <1>3, <1>4 DEF S!Run, S!Operations
<1>6. ScriptTyped'
  BY <1>0, <1>2, <1>3 DEF ScriptTyped, MarketsRest, RecordsRest, CurveOK
<1>7. \A q \in runs : q.id \in Nat /\ q.id <= started /\ RunOK(q)
  BY <1>0 DEF ScriptInv, RunOK, S!Run
<1>8. \A t \in landed : t.run \in Nat /\ t.run <= started
  BY <1>0 DEF ScriptInv, ScriptTyped
<1>9. \A c \in completed : c.id \in Nat /\ c.id <= started /\ CompletedOK(c)
  BY <1>0 DEF ScriptInv, ScriptTyped, S!Completion
<1>10. \A q \in runs' : RunOK(q)'
  <2>1. \A q \in runs : RunOK(q)'
    <3>1. SUFFICES ASSUME NEW q \in runs PROVE RunOK(q)'
      OBVIOUS
    <3>2. RunOK(q) /\ q.id <= started'
      BY <1>0, <1>2, <1>7
    <3> QED
      BY <1>2, <3>2 DEF RunOK, NoneFailed, HasLanded, HasReceipt, Numbers, RecordsRest
  <2>2. RunOK(s)'
    <3>0. \A t \in landed : t.run # s.id
      BY <1>0, <1>5, <1>8
    <3>1. NoneFailed(s.id)'
      BY <1>2, <3>0 DEF NoneFailed
    <3>2. s.id <= started'
      BY <1>0, <1>2, <1>5
    <3>3. s.pc \notin Recording \cup {"sending"}
      BY <1>5 DEF Recording
    <3>4. Numbers(s.id)' = 1..s.sent
      BY <1>2, <1>5, <3>0 DEF Numbers
    <3> QED  BY <1>5, <3>1, <3>2, <3>3, <3>4 DEF RunOK, Recording
  <2>3. SUFFICES ASSUME NEW q \in runs' PROVE RunOK(q)'
    OBVIOUS
  <2>4. q \in runs \/ q = s
    BY <1>5
  <2> QED  BY <2>1, <2>2, <2>4
<1>11. \A p, q \in runs' : p.id = q.id => p = q
  BY <1>0, <1>5, <1>7 DEF ScriptInv
<1>12. /\ \A t \in landed' : t.run <= started'
       /\ \A c \in completed' : c.id <= started'
  BY <1>0, <1>2, <1>8, <1>9 DEF RecordsRest
<1>13. \A c \in completed', q \in runs' : c.id = q.id => q.pc = "showing"
  BY <1>0, <1>2, <1>5, <1>9 DEF ScriptInv, RecordsRest
<1>14. /\ RecordsOK' /\ FillsOK' /\ \A c \in completed' : CompletedOK(c)'
  BY <1>2, <1>9 DEF ScriptInv, RecordsOK, FillsOK, CompletedOK, HasReceipt, Numbers,
                    NoneFailed, RecordsRest, MarketsRest
<1> QED  BY <1>6, <1>10, <1>11, <1>12, <1>13, <1>14 DEF ScriptInv

LEMMA OrderIsNat ==
  ASSUME NEW op \in Orders
  PROVE  S!OrderAmounts(op) \subseteq Nat
BY WorkstationAssumption DEF S!OrderAmounts

LEMMA OthersTradeKeeps ==
  ASSUME ScriptInv, S!OthersTrade
  PROVE  ScriptInv'
<1>1. PICK op \in Orders : \E n \in S!OrderAmounts(op) : curve' = S!Traded(curve, op, n)
  BY DEF S!OthersTrade, Orders
<1>2. PICK n \in Nat : curve' = S!Traded(curve, op, n)
  BY <1>1, OrderIsNat
<1>3. CurveOK'
  BY <1>2, TradedIsOK DEF CurveOK, ScriptInv, ScriptTyped
<1>4. UNCHANGED <<runs, started, positions, fills, landed>> /\ RecordsRest
  BY DEF S!OthersTrade, S!recordVars, RecordsRest
<1>5. ScriptTyped'
  BY <1>3, <1>4 DEF ScriptInv, ScriptTyped, RecordsRest
<1>6. \A r \in runs' : RunOK(r)'
  BY <1>4 DEF ScriptInv, RunOK, NoneFailed, HasLanded, HasReceipt, Numbers, RecordsRest
<1>7. \A c \in completed' : CompletedOK(c)'
  BY <1>4 DEF ScriptInv, CompletedOK, NoneFailed, Numbers, HasReceipt, RecordsRest
<1>8. RecordsOK' /\ FillsOK'
  BY <1>4 DEF ScriptInv, RecordsOK, FillsOK, HasReceipt, RecordsRest
<1> QED  BY <1>4, <1>5, <1>6, <1>7, <1>8 DEF ScriptInv, RecordsRest

\* A step towards the transactions of the operation.
LEMMA PrepareKeeps ==
  ASSUME ScriptInv, NEW r \in runs, NEW s \in S!Run, S!MoveOrLeave(r, s),
         MarketsRest, RecordsRest, landed' = landed,
         r.pc \in {"deciding", "building"}, s.id = r.id, s.tool = r.tool,
         s.sent = 0, Checked(s) => Checked(r),
         \/ s.pc \in {"building", "authorising"} /\ s.txs = 0
         \/ /\ s.pc = "sending" /\ s.txs > 0
            /\ s.tool = "pumpfun" => s.minOut = S!MinOut(s.quoted)
         \/ s.pc = "signing" /\ s.tool # "sol" /\ s.txs = 0
  PROVE  ScriptInv'
<1>1. Sends(r, s) /\ started' = started
  BY RunFacts DEF S!MoveOrLeave, S!Move, S!Leave, Sends
<1>2. /\ CurveOK' /\ positions' \in [Agents -> SUBSET (1..MaxRuns)]
      /\ fills' \in SUBSET [run : 1..MaxRuns, quoted : Nat, received : Nat] /\ FillsOK'
  BY MarketsAtRest
<1>3. UNCHANGED <<started, signedReceipts, registered, uploaded, attested, completed>>
  BY <1>1 DEF RecordsRest
<1>4. /\ s.pc = "sending" => s.sent < s.txs
      /\ s.pc \in {"building", "authorising"} => s.sent = 0 /\ s.txs = 0
      /\ s.pc \in {"signing", "registering"} => s.sent = s.txs
      /\ s.pc = "sending" /\ s.tool = "pumpfun" => s.minOut = S!MinOut(s.quoted)
      /\ s.pc \in {"building", "authorising", "sending", "signing", "registering"}
      /\ r.pc # "showing" /\ (s.tool = "sol" => s.pc # "signing")
      /\ ~(s.pc \in Recording /\ s.tool = "sol")
  BY DEF Recording
<1> QED  BY <1>1, <1>2, <1>3, <1>4, QuietKeeps

LEMMA DecideKeeps ==
  ASSUME ScriptInv, NEW r \in runs, NEW ops \in SUBSET S!Operations, S!Decide(r, ops)
  PROVE  ScriptInv'
<1>1. /\ r.pc = "deciding" /\ landed' = landed /\ MarketsRest /\ RecordsRest
      /\ S!Leave(r) \/ \E op \in ops : S!Move(r, [r EXCEPT !.op = op, !.pc = "building"])
  BY DEF S!Decide, S!marketVars, S!recordVars, MarketsRest, RecordsRest
<1>2. CASE S!Leave(r)
  BY <1>1, <1>2, LeaveKeeps
<1>3. ASSUME NEW op \in ops, S!Move(r, [r EXCEPT !.op = op, !.pc = "building"])
      PROVE  ScriptInv'
  <2> DEFINE s == [r EXCEPT !.op = op, !.pc = "building"]
  <2>1. r \in S!Run /\ r.sent = 0 /\ r.txs = 0 /\ r.op = "none"
    BY <1>1, RunFacts DEF RunOK
  <2>2. /\ s \in S!Run /\ s.id = r.id /\ s.tool = r.tool /\ s.sent = r.sent
        /\ s.pc = "building" /\ s.txs = r.txs
    BY <2>1 DEF S!Run
  <2>3. S!MoveOrLeave(r, s)
    BY <1>3 DEF S!MoveOrLeave
  <2> HIDE DEF s
  <2>4. Checked(s) => Checked(r)
    BY <2>1, <2>2 DEF Checked, S!LooksAtErrors
  <2> QED  BY <1>1, <2>1, <2>2, <2>3, <2>4, PrepareKeeps
<1> QED  BY <1>1, <1>2, <1>3

\* A script moves on to send a number of transactions, or none.
LEMMA BuiltKeeps ==
  ASSUME ScriptInv, NEW r \in runs, r.pc = "building", r.tool \notin {"pumpfun", "sol"},
         NEW n \in 0..MaxTxs, NEW p \in {r.position} \cup (1..MaxRuns),
         NEW s, s = S!Loop([r EXCEPT !.position = p], n),
         S!Move(r, s), landed' = landed, MarketsRest, RecordsRest
  PROVE  ScriptInv'
<1> DEFINE pc == IF n = 0 THEN "signing" ELSE "sending"
<1>1. r \in S!Run /\ r.sent = 0 /\ n \in Nat /\ p \in Nat
  BY RunFacts, WorkstationAssumption DEF S!Run
<1>2. pc \in {"signing", "sending"} /\ (pc = "signing" <=> n = 0)
  OBVIOUS
<1>3. s = [[r EXCEPT !.position = p] EXCEPT !.txs = n, !.pc = pc]
  BY DEF S!Loop
<1> HIDE DEF pc
<1>4. /\ s \in S!Run /\ s.id = r.id /\ s.tool = r.tool /\ s.op = r.op /\ s.sent = r.sent
      /\ s.pc = pc /\ s.txs = n
  BY <1>1, <1>2, <1>3 DEF S!Run
<1>5. S!MoveOrLeave(r, s) /\ (Checked(s) => Checked(r))
  BY <1>4 DEF S!MoveOrLeave, Checked, S!LooksAtErrors
<1> QED  BY <1>1, <1>2, <1>4, <1>5, PrepareKeeps

LEMMA BuildKeeps ==
  ASSUME ScriptInv, NEW r \in runs, r.tool \notin {"pumpfun", "sol"},
         NEW txs \in SUBSET (0..MaxTxs), S!Build(r, txs)
  PROVE  ScriptInv'
<1>1. /\ r.pc = "building" /\ landed' = landed /\ MarketsRest /\ RecordsRest
      /\ S!Leave(r) \/ \E n \in txs : S!Move(r, S!Loop(r, n))
  BY DEF S!Build, S!marketVars, S!recordVars, MarketsRest, RecordsRest
<1>2. CASE S!Leave(r)
  BY <1>1, <1>2, LeaveKeeps
<1>3. ASSUME NEW n \in txs, S!Move(r, S!Loop(r, n))
      PROVE  ScriptInv'
  <2>1. r \in S!Run
    BY RunFacts
  <2>2. r = [r EXCEPT !.position = r.position]
    BY <2>1 DEF S!Run
  <2> DEFINE s == S!Loop([r EXCEPT !.position = r.position], n)
  <2>3. S!Move(r, s) /\ n \in 0..MaxTxs
    BY <1>3, <2>2
  <2> QED  BY <1>1, <2>3, BuiltKeeps
<1> QED  BY <1>1, <1>2, <1>3

LEMMA ReadPositionKeeps ==
  ASSUME ScriptInv, NEW r \in runs, S!ReadPosition(r)
  PROVE  ScriptInv'
<1>1. /\ r.pc = "building" /\ r.tool = "meteora" /\ landed' = landed
      /\ MarketsRest /\ RecordsRest
      /\ \/ S!Leave(r)
         \/ \E p \in positions[r.agent], n \in 0..MaxTxs :
              S!Move(r, S!Loop([r EXCEPT !.position = p], n))
  BY DEF S!ReadPosition, S!At, S!marketVars, S!recordVars, MarketsRest, RecordsRest
<1>2. CASE S!Leave(r)
  BY <1>1, <1>2, LeaveKeeps
<1>3. ASSUME NEW p \in positions[r.agent], NEW n \in 0..MaxTxs,
             S!Move(r, S!Loop([r EXCEPT !.position = p], n))
      PROVE  ScriptInv'
  <2>1. p \in 1..MaxRuns
    BY RunFacts DEF S!Run, ScriptInv, ScriptTyped
  <2> DEFINE s == S!Loop([r EXCEPT !.position = p], n)
  <2>2. S!Move(r, s)
    BY <1>3
  <2> QED  BY <1>1, <2>1, <2>2, BuiltKeeps
<1> QED  BY <1>1, <1>2, <1>3

LEMMA QuotePumpFunKeeps ==
  ASSUME ScriptInv, NEW r \in runs, NEW op \in Orders, S!QuotePumpFun(r, op)
  PROVE  ScriptInv'
<1>1. /\ r.pc = "building" /\ landed' = landed /\ MarketsRest /\ RecordsRest
      /\ \/ S!Leave(r)
         \/ \E n \in S!OrderAmounts(op) :
              S!Move(r, [r EXCEPT !.amount = n, !.quoted = S!Quote(curve, op, n),
                                  !.minOut = S!MinOut(S!Quote(curve, op, n)),
                                  !.txs = 1, !.pc = "sending"])
  BY DEF S!QuotePumpFun, S!At, S!marketVars, S!recordVars, MarketsRest, RecordsRest
<1>2. CASE S!Leave(r)
  BY <1>1, <1>2, LeaveKeeps
<1>3. ASSUME NEW n \in S!OrderAmounts(op),
             S!Move(r, [r EXCEPT !.amount = n, !.quoted = S!Quote(curve, op, n),
                                 !.minOut = S!MinOut(S!Quote(curve, op, n)),
                                 !.txs = 1, !.pc = "sending"])
      PROVE  ScriptInv'
  <2> DEFINE q == S!Quote(curve, op, n)
             m == S!MinOut(q)
             one == 1
             s == [r EXCEPT !.amount = n, !.quoted = q, !.minOut = m, !.txs = one,
                            !.pc = "sending"]
  <2>1. n \in Nat
    BY OrderIsNat
  <2>2. q \in Nat
    BY <2>1, TradedIsOK DEF ScriptInv, ScriptTyped
  <2>3. S!MoveOrLeave(r, s)
    BY <1>3 DEF S!MoveOrLeave
  <2> HIDE DEF q
  <2>4. m \in Nat /\ m = S!MinOut(q)
    BY <2>2, MinOutBounds
  <2>5. one \in 0..MaxTxs /\ one > 0
    BY RunFacts
  <2> HIDE DEF m, one
  <2>6. r \in S!Run /\ r.sent = 0
    BY <1>1, RunFacts
  <2>7. /\ s \in S!Run /\ s.id = r.id /\ s.tool = r.tool /\ s.op = r.op /\ s.sent = r.sent
        /\ s.pc = "sending" /\ s.txs = one /\ s.minOut = m /\ s.quoted = q
    BY <2>1, <2>2, <2>4, <2>5, <2>6 DEF S!Run
  <2> HIDE DEF s
  <2>8. Checked(s) => Checked(r)
    BY <2>7 DEF Checked, S!LooksAtErrors
  <2> QED  BY <1>1, <2>3, <2>4, <2>5, <2>6, <2>7, <2>8, PrepareKeeps
<1> QED  BY <1>1, <1>2, <1>3

\* The outcome of sending a transaction, with or without a look at its error.
Confirms(r, s) ==
    /\ started' = started
    /\ \/ \E ok \in BOOLEAN :
            /\ landed' = landed \cup {[run |-> r.id, n |-> r.sent + 1, ok |-> ok]}
            /\ \/ runs' = (runs \ {r}) \cup {s} /\ (Checked(r) => ok)
               \/ runs' = runs \ {r}
       \/ landed' = landed /\ runs' = runs \ {r}

LEMMA ConfirmsKeeps ==
  ASSUME ScriptInv, NEW r \in runs, NEW s \in S!Run, Confirms(r, s), RecordsRest,
         CurveOK', positions' \in [Agents -> SUBSET (1..MaxRuns)],
         fills' \in SUBSET [run : 1..MaxRuns, quoted : Nat, received : Nat], FillsOK',
         r.pc \in {"building", "authorising", "sending"}, s.id = r.id, s.tool = r.tool,
         Checked(s) => Checked(r), s.sent = r.sent + 1 \/ runs' = runs \ {r},
         s.pc \in {"authorising", "sending", "signing", "registering"},
         s.pc \in {"signing", "registering"} => s.sent = s.txs,
         s.pc = "authorising" => s = r /\ runs' = runs \ {r},
         s.pc = "sending" => s.sent < s.txs,
         s.pc = "sending" /\ s.tool = "pumpfun" => s.minOut = S!MinOut(s.quoted),
         s.tool = "sol" => s.pc # "signing"
  PROVE  ScriptInv'
<1>1. r.sent < MaxTxs
  BY RunFacts
<1>2. Sends(r, s) /\ started' = started
  BY <1>1 DEF Confirms, Sends
<1>3. runs' = runs \ {r} \/ (s.pc \in Recording /\ s.tool = "sol" => HasLanded(s.id)')
  <2>1. SUFFICES ASSUME runs' # runs \ {r} PROVE HasLanded(s.id)'
    OBVIOUS
  <2>2. PICK ok \in BOOLEAN :
          landed' = landed \cup {[run |-> r.id, n |-> r.sent + 1, ok |-> ok]}
    BY <2>1 DEF Confirms
  <2>3. PICK t : t = [run |-> r.id, n |-> r.sent + 1, ok |-> ok]
    OBVIOUS
  <2>4. t \in landed' /\ t.run = s.id
    BY <2>2, <2>3
  <2> QED  BY <2>4 DEF HasLanded
<1>4. UNCHANGED <<started, signedReceipts, registered, uploaded, attested, completed>>
  BY <1>2 DEF RecordsRest
<1>5. /\ s.pc \in {"building", "authorising"} => s.sent = 0 /\ s.txs = 0
      /\ r.pc # "showing"
      /\ s.pc \in {"building", "authorising", "sending", "signing", "registering"}
  BY RunFacts
<1> QED  BY <1>2, <1>3, <1>4, <1>5, QuietKeeps

\* One of the transactions of an operation.
LEMMA SentKeeps ==
  ASSUME ScriptInv, NEW r \in runs, Confirms(r, S!Sent(r)), RecordsRest,
         CurveOK', positions' \in [Agents -> SUBSET (1..MaxRuns)],
         fills' \in SUBSET [run : 1..MaxRuns, quoted : Nat, received : Nat], FillsOK',
         r.pc = "sending", r.tool # "sol"
  PROVE  ScriptInv'
<1> DEFINE n == r.sent + 1
           pc == IF n = r.txs THEN "signing" ELSE r.pc
           s == [r EXCEPT !.sent = n, !.pc = pc]
<1>1. /\ r \in S!Run /\ RunOK(r) /\ r.sent \in Nat /\ r.txs \in 0..MaxTxs
      /\ r.sent < r.txs /\ MaxTxs \in Nat
  BY RunFacts
<1>2. n \in 0..MaxTxs /\ n <= r.txs
  BY <1>1
<1>3. /\ pc \in {"sending", "signing"} /\ n = r.sent + 1
      /\ pc = "sending" => n < r.txs
      /\ pc = "signing" => n = r.txs
  BY <1>1, <1>2
<1>4. S!Sent(r) = s
  BY <1>1 DEF S!Sent, S!Run
<1> HIDE DEF n, pc
<1>5. /\ s \in S!Run /\ s.id = r.id /\ s.tool = r.tool /\ s.pc = pc /\ s.sent = n
      /\ s.op = r.op /\ s.txs = r.txs /\ s.minOut = r.minOut /\ s.quoted = r.quoted
  BY <1>1, <1>2, <1>3 DEF S!Run
<1>6. s.pc = "sending" /\ s.tool = "pumpfun" => s.minOut = S!MinOut(s.quoted)
  BY <1>1, <1>5 DEF RunOK
<1>7. Confirms(r, s)
  BY <1>4
<1> HIDE DEF s
<1>8. Checked(s) => Checked(r)
  BY <1>5 DEF Checked, S!LooksAtErrors
<1> QED  BY <1>3, <1>5, <1>6, <1>7, <1>8, ConfirmsKeeps

\* The only transaction of an operation.
LEMMA SentOnceKeeps ==
  ASSUME ScriptInv, NEW r \in runs,
         Confirms(r, [r EXCEPT !.txs = 1, !.sent = 1, !.pc = "signing"]), RecordsRest,
         CurveOK', positions' \in [Agents -> SUBSET (1..MaxRuns)],
         fills' \in SUBSET [run : 1..MaxRuns, quoted : Nat, received : Nat], FillsOK',
         r.pc = "building", r.tool # "sol"
  PROVE  ScriptInv'
<1> DEFINE one == 1
           s == [r EXCEPT !.txs = one, !.sent = one, !.pc = "signing"]
<1>1. r \in S!Run /\ one \in 0..MaxTxs /\ one = r.sent + 1
  BY RunFacts
<1>2. Confirms(r, s)
  OBVIOUS
<1> HIDE DEF one
<1>3. /\ s \in S!Run /\ s.id = r.id /\ s.tool = r.tool /\ s.op = r.op /\ s.pc = "signing"
      /\ s.sent = one /\ s.txs = one
  BY <1>1 DEF S!Run
<1> HIDE DEF s
<1>4. Checked(s) => Checked(r)
  BY <1>3 DEF Checked, S!LooksAtErrors
<1> QED  BY <1>1, <1>2, <1>3, <1>4, ConfirmsKeeps

\* The adapters whose transactions leave curve and positions alone.
LEMMA TransactionKeeps ==
  ASSUME ScriptInv, NEW r \in runs,
         \/ S!ExecuteSolTransfer(r) \/ S!SignAndSendTx(r) \/ S!SwapViaTradeApi(r)
         \/ S!AddLiquidityCpmm(r) \/ S!RemoveLiquidityCpmm(r) \/ S!CollectFees(r)
         \/ S!SwapTokens(r) \/ S!ExecuteSwap(r) \/ S!CreateDCAOrder(r)
         \/ S!CreateLimitOrder(r)
  PROVE  ScriptInv'
<1>1. MarketsRest /\ RecordsRest
  BY DEF S!ExecuteSolTransfer, S!SignAndSendTx, S!SwapViaTradeApi, S!AddLiquidityCpmm,
         S!RemoveLiquidityCpmm, S!CollectFees, S!SwapTokens, S!ExecuteSwap,
         S!CreateDCAOrder, S!CreateLimitOrder, S!marketVars, S!recordVars, MarketsRest,
         RecordsRest
<1>2. /\ CurveOK' /\ positions' \in [Agents -> SUBSET (1..MaxRuns)]
      /\ fills' \in SUBSET [run : 1..MaxRuns, quoted : Nat, received : Nat] /\ FillsOK'
  BY <1>1, MarketsAtRest
<1>3. CASE S!ExecuteSolTransfer(r)
  <2> DEFINE one == 1
             s == [r EXCEPT !.txs = one, !.sent = one, !.pc = "registering"]
  <2>1. r \in S!Run /\ one \in 0..MaxTxs /\ r.pc = "building" /\ one = r.sent + 1
    BY <1>3, RunFacts DEF S!ExecuteSolTransfer, S!At
  <2>2. Confirms(r, s)
    BY <1>3 DEF S!ExecuteSolTransfer, S!SendAndConfirm, S!MoveOrLeave, S!Move, S!Leave,
                S!Land, Confirms
  <2> HIDE DEF one
  <2>3. /\ s \in S!Run /\ s.id = r.id /\ s.tool = r.tool /\ s.op = r.op
        /\ s.pc = "registering" /\ s.sent = one /\ s.txs = one
    BY <2>1 DEF S!Run
  <2> HIDE DEF s
  <2>4. Checked(s) => Checked(r)
    BY <2>3 DEF Checked, S!LooksAtErrors
  <2> QED  BY <1>1, <1>2, <2>1, <2>2, <2>3, <2>4, ConfirmsKeeps
<1>4. CASE S!SignAndSendTx(r) \/ S!SwapViaTradeApi(r)
  <2>1. /\ r.pc = "sending"
        /\ r.tool = "kamino" \/ (r.tool = "raydium" /\ r.op = "swap")
        /\ r.pc = "sending" /\ r.tool # "sol" /\ S!SendUnchecked(r, S!Sent(r))
    BY <1>4 DEF S!SignAndSendTx, S!SwapViaTradeApi, S!At
  <2>2. Confirms(r, S!Sent(r))
    BY <2>1 DEF S!SendUnchecked, S!MoveOrLeave, S!Move, S!Leave, S!Land, Confirms, Checked,
                S!LooksAtErrors
  <2> QED  BY <1>1, <1>2, <2>1, <2>2, SentKeeps
<1>5. CASE S!AddLiquidityCpmm(r) \/ S!RemoveLiquidityCpmm(r) \/ S!CollectFees(r)
  <2>1. r.pc = "sending" /\ r.tool # "sol"
    BY <1>5 DEF S!AddLiquidityCpmm, S!RemoveLiquidityCpmm, S!CollectFees, S!At
  <2>2. Confirms(r, S!Sent(r))
    BY <1>5 DEF S!AddLiquidityCpmm, S!RemoveLiquidityCpmm, S!CollectFees,
                S!SendAndConfirm, S!MoveOrLeave, S!Move, S!Leave, S!Land, Confirms
  <2> QED  BY <1>1, <1>2, <2>1, <2>2, SentKeeps
<1>6. CASE S!SwapTokens(r) \/ S!ExecuteSwap(r) \/ S!CreateDCAOrder(r)
  <2>1. r.pc = "building" /\ r.tool # "sol"
    BY <1>6 DEF S!SwapTokens, S!ExecuteSwap, S!CreateDCAOrder, S!At
  <2>2. Confirms(r, [r EXCEPT !.txs = 1, !.sent = 1, !.pc = "signing"])
    BY <1>6 DEF S!SwapTokens, S!ExecuteSwap, S!CreateDCAOrder, S!SendAndConfirm,
                S!MoveOrLeave, S!Move, S!Leave, S!Land, Confirms
  <2> QED  BY <1>1, <1>2, <2>1, <2>2, SentOnceKeeps
<1>7. CASE S!CreateLimitOrder(r)
  <2>1. r.pc = "authorising" /\ r.tool = "jupiter" /\ r \in S!Run
    BY <1>7, RunFacts DEF S!CreateLimitOrder, S!At
  <2>2. Confirms(r, r) /\ runs' = runs \ {r}
    BY <1>7 DEF S!CreateLimitOrder, S!SendAndConfirm, S!Leave, S!Land, Confirms
  <2> QED  BY <1>1, <1>2, <2>1, <2>2, ConfirmsKeeps
<1> QED  BY <1>3, <1>4, <1>5, <1>6, <1>7

\* Meteora: a position is opened, and closed.
LEMMA PositionKeeps ==
  ASSUME ScriptInv, NEW r \in runs, S!AddLiquidity(r) \/ S!RemoveLiquidity(r)
  PROVE  ScriptInv'
<1>1. r.id \in 1..MaxRuns /\ r.agent \in Agents
  BY RunFacts DEF S!Run
<1>2. positions' \in [Agents -> SUBSET (1..MaxRuns)]
  <2>1. \/ positions' = positions
        \/ positions' = [positions EXCEPT ![r.agent] = @ \cup {r.id}]
        \/ positions' = [positions EXCEPT ![r.agent] = @ \ {r.position}]
    BY DEF S!AddLiquidity, S!RemoveLiquidity, S!SendAndConfirm
  <2> QED  BY <1>1, <2>1 DEF ScriptInv, ScriptTyped
<1>3. UNCHANGED <<curve, fills>> /\ RecordsRest
  BY DEF S!AddLiquidity, S!RemoveLiquidity, S!recordVars, RecordsRest
<1>4. /\ CurveOK' /\ FillsOK'
      /\ fills' \in SUBSET [run : 1..MaxRuns, quoted : Nat, received : Nat]
  BY <1>3 DEF ScriptInv, ScriptTyped, CurveOK, FillsOK
<1>5. CASE S!AddLiquidity(r)
  <2>1. Confirms(r, [r EXCEPT !.txs = 1, !.sent = 1, !.pc = "signing"])
        /\ r.pc = "building" /\ r.tool # "sol"
    BY <1>5 DEF S!AddLiquidity, S!SendAndConfirm, S!MoveOrLeave, S!Move, S!Leave, S!Land,
                S!At, Confirms
  <2> QED  BY <1>2, <1>3, <1>4, <2>1, SentOnceKeeps
<1>6. CASE S!RemoveLiquidity(r)
  <2>1. Confirms(r, S!Sent(r)) /\ r.pc = "sending" /\ r.tool # "sol"
    BY <1>6 DEF S!RemoveLiquidity, S!SendAndConfirm, S!MoveOrLeave, S!Move, S!Leave,
                S!Land, S!At, Confirms
  <2> QED  BY <1>2, <1>3, <1>4, <2>1, SentKeeps
<1> QED  BY <1>5, <1>6

\* PumpFun: a trade at the curve it finds, for minOut at least.
LEMMA TradeKeeps ==
  ASSUME ScriptInv, NEW r \in runs, NEW op \in Orders, S!Trade(r, op)
  PROVE  ScriptInv'
<1>1. /\ r.pc = "sending" /\ r.tool = "pumpfun" /\ positions' = positions /\ RecordsRest
      /\ Confirms(r, S!Sent(r))
  BY DEF S!Trade, S!At, S!SendAndConfirm, S!MoveOrLeave, S!Move, S!Leave, S!Land,
         Confirms, S!recordVars, RecordsRest
<1>2. \/ curve' = curve /\ fills' = fills
      \/ /\ S!Quote(curve, op, r.amount) >= r.minOut
         /\ curve' = S!Traded(curve, op, r.amount)
         /\ fills' = fills \cup {[run |-> r.id, quoted |-> r.quoted,
                                  received |-> S!Quote(curve, op, r.amount)]}
  BY DEF S!Trade, S!SendAndConfirm
<1>3. /\ r.amount \in Nat /\ r.quoted \in Nat /\ r.id \in 1..MaxRuns
      /\ r.minOut = S!MinOut(r.quoted)
  BY <1>1, RunFacts DEF S!Run, RunOK
<1>4. /\ S!Quote(curve, op, r.amount) \in Nat
      /\ S!Traded(curve, op, r.amount) \in S!BCState
      /\ S!Traded(curve, op, r.amount).virtualTokenReserves > 0
      /\ S!Traded(curve, op, r.amount).virtualSolReserves > 0
  BY <1>3, TradedIsOK DEF ScriptInv, ScriptTyped
<1>5. CurveOK' /\ positions' \in [Agents -> SUBSET (1..MaxRuns)]
  BY <1>1, <1>2, <1>4 DEF ScriptInv, ScriptTyped, CurveOK
<1>6. fills' \in SUBSET [run : 1..MaxRuns, quoted : Nat, received : Nat]
  BY <1>2, <1>3, <1>4 DEF ScriptInv, ScriptTyped
<1>7. FillsOK'
  BY <1>2, <1>3 DEF ScriptInv, FillsOK
<1> QED  BY <1>1, <1>5, <1>6, <1>7, SentKeeps

\* The receipt is signed: with the summary, or without it.
LEMMA ReceiptKeeps ==
  ASSUME ScriptInv, NEW r \in runs, NEW names \in BOOLEAN, S!Sign(r, names),
         r.tool # "sol",
         S!FullLoop(r) \/ (S!Leave(r) /\ UNCHANGED completed)
  PROVE  ScriptInv'
<1> DEFINE s == [r EXCEPT !.pc = "showing"]
<1>1. /\ r.pc = "signing" /\ landed' = landed /\ MarketsRest
      /\ UNCHANGED <<registered, uploaded, attested>>
      /\ signedReceipts' = signedReceipts \cup {[run |-> r.id, names |-> names]}
  BY DEF S!Sign, S!marketVars, MarketsRest
<1>2. /\ started' = started
      /\ \/ /\ runs' = (runs \ {r}) \cup {s}
            /\ completed' = completed \cup
                 {[id |-> r.id, tool |-> r.tool, op |-> r.op, txs |-> r.txs]}
         \/ runs' = runs \ {r} /\ completed' = completed
  BY DEF S!FullLoop, S!Leave, S!Move
<1>3. r \in S!Run /\ RunOK(r) /\ r.id \in 1..MaxRuns
  BY RunFacts
<1>4. s \in S!Run /\ s.id = r.id /\ s.tool = r.tool /\ s.op = r.op /\ s.pc = "showing"
  BY <1>3 DEF S!Run
<1> HIDE DEF s
<1>5. PICK p : p = [run |-> r.id, names |-> names]
  OBVIOUS
<1>6. PICK c : c = [id |-> r.id, tool |-> r.tool, op |-> r.op, txs |-> r.txs]
  OBVIOUS
<1>7. /\ p \in [run : 1..MaxRuns, names : BOOLEAN] /\ p.run = r.id
      /\ c \in S!Completion /\ c.id = r.id /\ c.tool = r.tool /\ c.op = r.op /\ c.txs = r.txs
      /\ signedReceipts' = signedReceipts \cup {p}
      /\ completed' \in {completed, completed \cup {c}}
  BY <1>1, <1>2, <1>3, <1>5, <1>6 DEF S!Run, S!Completion
<1>8. ScriptTyped'
  <2>1. ScriptTyped
    BY DEF ScriptInv
  <2>2. /\ signedReceipts' \in SUBSET [run : 1..MaxRuns, names : BOOLEAN]
        /\ completed' \in SUBSET S!Completion
    BY <1>7, <2>1 DEF ScriptTyped
  <2> QED  BY <1>1, <1>2, <2>1, <2>2 DEF ScriptTyped, MarketsRest, CurveOK
<1>9. Advances(r, s)
  BY <1>1, <1>2, <1>7 DEF Advances
<1>10. RunOK(s)'
  <2>1. NoneFailed(r.id) => NoneFailed(s.id)'
    BY <1>1, <1>4 DEF NoneFailed
  <2>2. s.id <= started' /\ (Checked(s) => NoneFailed(s.id)')
    BY <1>2, <1>3, <1>4, <2>1 DEF RunOK, Checked, S!LooksAtErrors
  <2>3. s.pc \notin Recording
    BY <1>4 DEF Recording
  <2> QED  BY <1>4, <2>2, <2>3 DEF RunOK
<1>11. CompletedOK(c)'
  <2>1. HasReceipt(c.id)'
    BY <1>7 DEF HasReceipt
  <2>2. Numbers(c.id)' = 1..c.txs
    <3>1. Numbers(r.id) = 1..r.sent /\ r.sent = r.txs
      BY <1>1, <1>3 DEF RunOK, Recording
    <3>2. Numbers(r.id)' = Numbers(r.id)
      BY <1>1, NumbersRest
    <3> QED  BY <1>7, <3>1, <3>2
  <2>3. Checked(c) => NoneFailed(c.id)'
    BY <1>1, <1>3, <1>7 DEF RunOK, NoneFailed, Checked, S!LooksAtErrors
  <2> QED  BY <1>7, <2>1, <2>2, <2>3 DEF CompletedOK
<1>12. \A d \in completed' \ completed :
         CompletedOK(d)' /\ (runs' = (runs \ {r}) \cup {s} => s.pc = "showing")
  <2>1. SUFFICES ASSUME NEW d \in completed' \ completed PROVE CompletedOK(d)'
    BY <1>4
  <2>2. d = c
    BY <1>7
  <2> QED  BY <1>11, <2>2
<1>13. RecordsOK' /\ FillsOK'
  BY <1>1, <1>7 DEF ScriptInv, RecordsOK, FillsOK, HasReceipt, MarketsRest
<1> QED  BY <1>4, <1>8, <1>9, <1>10, <1>12, <1>13, ScriptKeeps

\* A step of a transfer script that records its task at one place.
LEMMA TransferRecords ==
  ASSUME ScriptInv, NEW r \in runs, r.tool = "sol", r.pc # "showing",
         NEW s \in S!Run, s.id = r.id, s.tool = r.tool,
         s.op = r.op, s.sent = r.sent, s.txs = r.txs,
         s.pc \in {"signing", "reporting", "uploading", "attesting", "showing"},
         started' = started, runs' = (runs \ {r}) \cup {s} \/ runs' = runs \ {r},
         MarketsRest, landed' = landed,
         signedReceipts' = signedReceipts \/
           \E names \in BOOLEAN :
             signedReceipts' = signedReceipts \cup {[run |-> r.id, names |-> names]},
         registered' \in {registered, registered \cup {r.id}},
         uploaded' \in {uploaded, uploaded \cup {r.id}},
         attested' \in {attested, attested \cup {r.id}},
         r.id \in uploaded' =>
           r.id \in uploaded \/ (r.pc \in Recording /\ HasReceipt(r.id)'),
         r.id \in uploaded' => r.id \in registered',
         r.id \in attested' => r.id \in uploaded',
         completed' = completed \/
           /\ completed' = completed \cup
                {[id |-> r.id, tool |-> r.tool, op |-> r.op, txs |-> r.txs]}
           /\ HasReceipt(r.id)' /\ r.id \in attested' /\ s.pc = "showing"
           /\ r.pc \in Recording,
         runs' = runs \ {r} \/
           (/\ s.pc # "showing" => r.pc \in Recording /\ r.id \in registered'
            /\ s.pc \in {"reporting", "uploading", "attesting"} => HasReceipt(r.id)'
            /\ s.pc = "attesting" => r.id \in uploaded')
  PROVE  ScriptInv'
<1>1. r \in S!Run /\ RunOK(r) /\ r.id \in 1..MaxRuns /\ ScriptTyped
  BY RunFacts DEF ScriptInv
<1>2. PICK c : c = [id |-> r.id, tool |-> r.tool, op |-> r.op, txs |-> r.txs]
  OBVIOUS
<1>3. /\ c \in S!Completion /\ c.id = r.id /\ c.tool = r.tool /\ c.txs = r.txs
      /\ completed' \in {completed, completed \cup {c}}
  BY <1>1, <1>2 DEF S!Run, S!Completion
<1>4. /\ signedReceipts \subseteq signedReceipts'
      /\ signedReceipts' \in SUBSET [run : 1..MaxRuns, names : BOOLEAN]
  <2>1. signedReceipts \in SUBSET [run : 1..MaxRuns, names : BOOLEAN]
    BY <1>1 DEF ScriptTyped
  <2>2. CASE signedReceipts' = signedReceipts
    BY <2>1, <2>2
  <2>3. ASSUME NEW names \in BOOLEAN,
               signedReceipts' = signedReceipts \cup {[run |-> r.id, names |-> names]}
        PROVE  /\ signedReceipts \subseteq signedReceipts'
               /\ signedReceipts' \in SUBSET [run : 1..MaxRuns, names : BOOLEAN]
    BY <1>1, <2>1, <2>3
  <2> QED  BY <2>2, <2>3
<1>5. ScriptTyped'
  <2>1. completed' \in SUBSET S!Completion
    BY <1>1, <1>3 DEF ScriptTyped
  <2>2. /\ registered' \in SUBSET (1..MaxRuns) /\ uploaded' \in SUBSET (1..MaxRuns)
        /\ attested' \in SUBSET (1..MaxRuns)
    BY <1>1 DEF ScriptTyped
  <2> QED  BY <1>1, <1>4, <2>1, <2>2 DEF ScriptTyped, MarketsRest, CurveOK
<1>6. Advances(r, s)
  BY <1>3, <1>4 DEF Advances
<1>7. /\ HasLanded(r.id)' <=> HasLanded(r.id)
      /\ NoneFailed(r.id)' /\ NoneFailed(r.id)
      /\ Numbers(r.id)' = 1..r.sent
  BY <1>1, NumbersRest DEF HasLanded, NoneFailed, RunOK, Checked, S!LooksAtErrors
<1>8. r.pc \in Recording => HasLanded(r.id) /\ r.sent = r.txs
  BY <1>1 DEF RunOK
<1>9. (runs' = (runs \ {r}) \cup {s}) => RunOK(s)' /\ s.id = r.id
  <2>1. SUFFICES ASSUME runs' = (runs \ {r}) \cup {s} PROVE RunOK(s)'
    OBVIOUS
  <2>2. runs' # runs \ {r}
    BY <2>1 DEF ScriptInv
  <2>3. /\ s.pc # "showing" => r.pc \in Recording /\ r.id \in registered'
        /\ s.pc \in {"reporting", "uploading", "attesting"} => HasReceipt(s.id)'
        /\ s.pc = "attesting" => r.id \in uploaded'
    BY <2>2
  <2>4. /\ NoneFailed(s.id)' /\ Numbers(s.id)' = 1..s.sent
        /\ s.pc \in Recording => HasLanded(s.id)' /\ s.sent = s.txs /\ s.id \in registered'
    <3>1. s.pc \in Recording => s.pc # "showing"
      BY DEF Recording
    <3> QED  BY <1>7, <1>8, <2>3, <3>1
  <2>5. s.id <= started'
    BY <1>1 DEF RunOK
  <2> QED  BY <2>3, <2>4, <2>5 DEF RunOK
<1>10. \A d \in completed' \ completed :
         CompletedOK(d)' /\ (runs' = (runs \ {r}) \cup {s} => s.pc = "showing")
  <2>1. SUFFICES ASSUME NEW d \in completed' \ completed
                 PROVE  CompletedOK(d)' /\ s.pc = "showing"
    OBVIOUS
  <2>2. d = c /\ HasReceipt(r.id)' /\ r.id \in attested' /\ s.pc = "showing"
        /\ r.pc \in Recording
    BY <1>3, <2>1
  <2>3. Numbers(d.id)' = 1..d.txs /\ NoneFailed(d.id)' /\ HasReceipt(d.id)'
    BY <1>3, <1>7, <1>8, <2>2
  <2> QED  BY <1>3, <2>2, <2>3 DEF CompletedOK
<1>11. RecordsOK' /\ FillsOK'
  <2>1. RecordsOK /\ FillsOK
    BY DEF ScriptInv
  <2>2. \A id \in uploaded : HasReceipt(id)'
    BY <1>4, <2>1 DEF RecordsOK, HasReceipt
  <2>3. r.id \in uploaded' => HasReceipt(r.id)' /\ \E t \in landed' : t.run = r.id /\ t.ok
    BY <1>7, <1>8, <2>1, <2>2 DEF RecordsOK, HasLanded, NoneFailed
  <2> QED  BY <2>1, <2>2, <2>3 DEF RecordsOK, FillsOK, MarketsRest
<1> QED  BY <1>5, <1>6, <1>9, <1>10, <1>11, ScriptKeeps

\* test-sol-transfer after the transfer: task, receipt, upload, attestation.
LEMMA SolRecordKeeps ==
  ASSUME ScriptInv, NEW r \in runs,
         \/ S!RegisterTask(r) \/ S!SolTransferReceipt(r) \/ S!ReportCompletion(r)
         \/ S!UploadReceipt(r) \/ S!SubmitAttestation(r)
  PROVE  ScriptInv'
<1>1. /\ r.tool = "sol" /\ r.pc \in Recording /\ MarketsRest /\ landed' = landed
  BY DEF S!RegisterTask, S!SolTransferReceipt, S!ReportCompletion, S!UploadReceipt,
         S!SubmitAttestation, S!Sign, S!At, S!marketVars, MarketsRest, Recording
<1>2. r \in S!Run /\ RunOK(r) /\ RecordsOK /\ r.pc # "showing"
  BY <1>1, RunFacts DEF ScriptInv, Recording
<1>3. CASE S!RegisterTask(r)
  <2> DEFINE s == [r EXCEPT !.pc = "signing"]
  <2>1. /\ s \in S!Run /\ s.id = r.id /\ s.tool = r.tool /\ s.pc = "signing"
        /\ s.op = r.op /\ s.sent = r.sent /\ s.txs = r.txs
    BY <1>2 DEF S!Run
  <2>2. /\ started' = started /\ (runs' = (runs \ {r}) \cup {s} \/ runs' = runs \ {r})
        /\ registered' \in {registered, registered \cup {r.id}}
        /\ runs' = runs \ {r} \/ r.id \in registered'
        /\ UNCHANGED <<signedReceipts, uploaded, attested, completed>>
    BY <1>3 DEF S!RegisterTask, S!MoveOrLeave, S!Move, S!Leave
  <2> HIDE DEF s
  <2>3. /\ r.id \in uploaded' => r.id \in registered'
        /\ r.id \in attested' => r.id \in uploaded'
    BY <1>2, <2>2 DEF RecordsOK
  <2> QED  BY <1>1, <1>2, <2>1, <2>2, <2>3, TransferRecords
<1>4. CASE S!SolTransferReceipt(r)
  <2> DEFINE s == [r EXCEPT !.pc = "reporting"]
  <2>1. /\ s \in S!Run /\ s.id = r.id /\ s.tool = r.tool /\ s.pc = "reporting"
        /\ s.op = r.op /\ s.sent = r.sent /\ s.txs = r.txs
    BY <1>2 DEF S!Run
  <2>2. /\ started' = started /\ runs' = (runs \ {r}) \cup {s}
        /\ signedReceipts' = signedReceipts \cup {[run |-> r.id, names |-> TRUE]}
        /\ r.pc = "signing"
        /\ UNCHANGED <<registered, uploaded, attested, completed>>
    BY <1>4 DEF S!SolTransferReceipt, S!Sign, S!Move
  <2> HIDE DEF s
  <2>3. r.id \in registered' /\ HasReceipt(r.id)'
    <3>1. PICK p : p = [run |-> r.id, names |-> TRUE]
      OBVIOUS
    <3>2. p \in signedReceipts' /\ p.run = r.id
      BY <2>2, <3>1
    <3> QED  BY <1>1, <1>2, <2>2, <3>2 DEF RunOK, HasReceipt, Recording
  <2>4. /\ r.id \in uploaded' => r.id \in registered'
        /\ r.id \in attested' => r.id \in uploaded'
    BY <1>2, <2>2 DEF RecordsOK
  <2> QED  BY <1>1, <1>2, <2>1, <2>2, <2>3, <2>4, TransferRecords
<1>4a. CASE S!ReportCompletion(r)
  <2> DEFINE s == [r EXCEPT !.pc = "uploading"]
  <2>1. /\ s \in S!Run /\ s.id = r.id /\ s.tool = r.tool /\ s.pc = "uploading"
        /\ s.op = r.op /\ s.sent = r.sent /\ s.txs = r.txs
    BY <1>2 DEF S!Run
  <2>2. /\ started' = started /\ (runs' = (runs \ {r}) \cup {s} \/ runs' = runs \ {r})
        /\ r.pc = "reporting" /\ RecordsRest
    BY <1>4a DEF S!ReportCompletion, S!At, S!MoveOrLeave, S!Move, S!Leave, S!recordVars,
                 RecordsRest
  <2> HIDE DEF s
  <2>3. UNCHANGED <<signedReceipts, registered, uploaded, attested, completed>>
    BY <2>2 DEF RecordsRest
  <2>4. r.id \in registered' /\ HasReceipt(r.id)'
    BY <1>1, <1>2, <2>2, <2>3 DEF RunOK, HasReceipt, Recording
  <2>5. r.id \in attested' => r.id \in uploaded'
    BY <1>2, <2>3 DEF RecordsOK
  <2> QED  BY <1>1, <1>2, <2>1, <2>2, <2>3, <2>4, <2>5, TransferRecords
<1>5. CASE S!UploadReceipt(r)
  <2> DEFINE s == [r EXCEPT !.pc = "attesting"]
  <2>1. /\ s \in S!Run /\ s.id = r.id /\ s.tool = r.tool /\ s.pc = "attesting"
        /\ s.op = r.op /\ s.sent = r.sent /\ s.txs = r.txs
    BY <1>2 DEF S!Run
  <2>2. /\ started' = started /\ (runs' = (runs \ {r}) \cup {s} \/ runs' = runs \ {r})
        /\ uploaded' \in {uploaded, uploaded \cup {r.id}}
        /\ runs' = runs \ {r} \/ r.id \in uploaded'
        /\ r.pc = "uploading"
        /\ UNCHANGED <<signedReceipts, registered, attested, completed>>
    BY <1>5 DEF S!UploadReceipt, S!At, S!MoveOrLeave, S!Move, S!Leave
  <2> HIDE DEF s
  <2>3. r.id \in registered' /\ HasReceipt(r.id)'
    BY <1>1, <1>2, <2>2 DEF RunOK, HasReceipt, Recording
  <2>4. r.id \in attested' => r.id \in uploaded'
    BY <1>2, <2>2 DEF RecordsOK
  <2> QED  BY <1>1, <1>2, <2>1, <2>2, <2>3, <2>4, TransferRecords
<1>6. CASE S!SubmitAttestation(r)
  <2> DEFINE s == [r EXCEPT !.pc = "showing"]
  <2>1. /\ s \in S!Run /\ s.id = r.id /\ s.tool = r.tool /\ s.pc = "showing"
        /\ s.op = r.op /\ s.sent = r.sent /\ s.txs = r.txs
    BY <1>2 DEF S!Run
  <2>2. /\ started' = started /\ (runs' = (runs \ {r}) \cup {s} \/ runs' = runs \ {r})
        /\ attested' \in {attested, attested \cup {r.id}}
        /\ \/ completed' = completed
           \/ /\ completed' = completed \cup
                   {[id |-> r.id, tool |-> r.tool, op |-> r.op, txs |-> r.txs]}
              /\ r.id \in attested'
        /\ r.pc = "attesting"
        /\ UNCHANGED <<signedReceipts, registered, uploaded>>
    BY <1>6 DEF S!SubmitAttestation, S!FullLoop, S!At, S!Move, S!Leave
  <2> HIDE DEF s
  <2>3. r.id \in registered' /\ r.id \in uploaded' /\ HasReceipt(r.id)'
    BY <1>1, <1>2, <2>2 DEF RunOK, HasReceipt, Recording
  <2> QED  BY <1>1, <1>2, <2>1, <2>2, <2>3, TransferRecords
<1> QED  BY <1>3, <1>4, <1>4a, <1>5, <1>6

\* A script that sends nothing here: a JWT is fetched, a price is looked up.
LEMMA FetchKeeps ==
  ASSUME ScriptInv, NEW r \in runs, S!GetJupiterJwt(r) \/ S!ExecutePythDecision(r)
  PROVE  ScriptInv'
<1> DEFINE pc == IF r.tool = "pyth" THEN "signing" ELSE "authorising"
           s == [r EXCEPT !.pc = pc]
<1>1. /\ r.pc = "building" /\ landed' = landed /\ MarketsRest /\ RecordsRest
      /\ S!MoveOrLeave(r, s)
  BY DEF S!GetJupiterJwt, S!ExecutePythDecision, S!At, S!marketVars, S!recordVars,
         MarketsRest, RecordsRest
<1>2. pc = "authorising" \/ (pc = "signing" /\ r.tool = "pyth")
  OBVIOUS
<1> HIDE DEF pc
<1>3. r \in S!Run /\ r.sent = 0 /\ r.txs = 0
  BY <1>1, RunFacts
<1>4. /\ s \in S!Run /\ s.id = r.id /\ s.tool = r.tool /\ s.op = r.op /\ s.sent = r.sent
      /\ s.txs = r.txs /\ s.pc = pc
  BY <1>2, <1>3 DEF S!Run
<1> HIDE DEF s
<1>5. Checked(s) => Checked(r)
  BY <1>4 DEF Checked, S!LooksAtErrors
<1> QED  BY <1>1, <1>2, <1>3, <1>4, <1>5, PrepareKeeps

LEMMA ShowKeeps ==
  ASSUME ScriptInv, NEW r \in runs, S!Show(r) \/ S!Kill(r)
  PROVE  ScriptInv'
<1>1. S!Leave(r) /\ MarketsRest /\ RecordsRest /\ landed' = landed
  BY DEF S!Show, S!Kill, S!marketVars, S!recordVars, MarketsRest, RecordsRest
<1> QED  BY <1>1, LeaveKeeps

\* A step of one script, by the adapter it drives.
LEMMA ScriptStepKeeps ==
  ASSUME ScriptInv, NEW r \in runs, S!ScriptStep(r)
  PROVE  ScriptInv'
<1>0. 1 \in 0..MaxTxs
  BY RunFacts
<1>1. CASE S!SolTransferStep(r)
  <2>1. CASE S!SolTransferDecision(r)
    BY <2>1, DecideKeeps DEF S!SolTransferDecision, S!Operations
  <2> QED  BY <1>1, <2>1, TransactionKeeps, SolRecordKeeps DEF S!SolTransferStep
<1>2. CASE S!KaminoStep(r)
  <2>1. CASE S!KaminoDecision(r)
    BY <2>1, DecideKeeps DEF S!KaminoDecision, S!Operations
  <2>2. CASE S!BuildKaminoTx(r)
    BY <1>0, <2>2, BuildKeeps DEF S!BuildKaminoTx, S!At
  <2>3. CASE S!KaminoReceipt(r)
    BY <2>3, ReceiptKeeps DEF S!KaminoReceipt, S!SignAndComplete, S!At
  <2>4. CASE S!ShowPosition(r)
    BY <2>4, ShowKeeps DEF S!ShowPosition
  <2> QED  BY <1>2, <2>1, <2>2, <2>3, <2>4, TransactionKeeps DEF S!KaminoStep
<1>3. CASE S!RaydiumStep(r)
  <2>1. CASE S!RaydiumDecision(r)
    BY <2>1, DecideKeeps DEF S!RaydiumDecision, S!Operations
  <2>2. CASE S!BuildRaydiumTx(r)
    <3>1. PICK txs \in SUBSET (0..MaxTxs) : S!Build(r, txs)
      BY <1>0, <2>2 DEF S!BuildRaydiumTx
    <3>2. r.tool = "raydium"
      BY <2>2 DEF S!BuildRaydiumTx, S!At
    <3> QED  BY <3>1, <3>2, BuildKeeps
  <2>3. CASE S!RaydiumReceipt(r)
    BY <2>3, ReceiptKeeps DEF S!RaydiumReceipt, S!SignAndComplete, S!At
  <2>4. CASE S!ShowPool(r)
    BY <2>4, ShowKeeps DEF S!ShowPool
  <2> QED  BY <1>3, <2>1, <2>2, <2>3, <2>4, TransactionKeeps DEF S!RaydiumStep
<1>4. CASE S!MeteoraStep(r)
  <2>1. CASE S!MeteoraDecision(r)
    BY <2>1, DecideKeeps DEF S!MeteoraDecision, S!Operations
  <2>2. CASE S!MeteoraReceipt(r)
    BY <2>2, ReceiptKeeps DEF S!MeteoraReceipt, S!SignAndComplete, S!At
  <2>3. CASE S!ShowMeteora(r)
    BY <2>3, ShowKeeps DEF S!ShowMeteora
  <2> QED  BY <1>4, <2>1, <2>2, <2>3, PositionKeeps, ReadPositionKeeps, TransactionKeeps
           DEF S!MeteoraStep
<1>5. CASE S!PumpFunStep(r)
  <2>1. CASE S!PumpFunDecision(r)
    BY <2>1, DecideKeeps DEF S!PumpFunDecision, S!Operations
  <2>2. CASE S!PumpFunReceipt(r)
    BY <2>2, ReceiptKeeps DEF S!PumpFunReceipt, S!SignAndComplete, S!At
  <2>3. CASE S!ShowCurve(r)
    BY <2>3, ShowKeeps DEF S!ShowCurve
  <2>4. CASE S!BuyTokens(r) \/ S!SellTokens(r)
    BY <2>4, QuotePumpFunKeeps, TradeKeeps DEF S!BuyTokens, S!SellTokens, Orders
  <2> QED  BY <1>5, <2>1, <2>2, <2>3, <2>4 DEF S!PumpFunStep
<1>6. CASE S!JupiterStep(r)
  <2>1. CASE S!JupiterDecision(r)
    BY <2>1, DecideKeeps DEF S!JupiterDecision, S!Operations
  <2>2. CASE S!JupiterReceipt(r)
    BY <2>2, ReceiptKeeps DEF S!JupiterReceipt, S!SignAndComplete, S!At
  <2> QED  BY <1>6, <2>1, <2>2, TransactionKeeps, FetchKeeps, ShowKeeps DEF S!JupiterStep
<1>7. CASE S!PythStep(r)
  <2>1. CASE S!ParsePythCommand(r)
    BY <2>1, DecideKeeps DEF S!ParsePythCommand, S!Operations
  <2>2. CASE S!SignOutput(r)
    BY <2>2, ReceiptKeeps DEF S!SignOutput, S!SignAndComplete, S!At
  <2> QED  BY <1>7, <2>1, <2>2, FetchKeeps, ShowKeeps DEF S!PythStep
<1>8. CASE S!Kill(r)
  BY <1>8, ShowKeeps
<1> QED  BY <1>1, <1>2, <1>3, <1>4, <1>5, <1>6, <1>7, <1>8 DEF S!ScriptStep

LEMMA ScriptsInitially ==
  ASSUME S!Init
  PROVE  ScriptInv
<1>1. CurveOK
  BY DEF S!Init, CurveOK, S!BCState
<1>2. ScriptTyped
  BY <1>1, WorkstationAssumption DEF S!Init, ScriptTyped
<1> QED  BY <1>2 DEF S!Init, ScriptInv, RecordsOK, FillsOK

LEMMA ScriptsKeep ==
  ASSUME ScriptInv, CliTyped, S!Next
  PROVE  ScriptInv'
BY StartScriptKeeps, OthersTradeKeeps, ScriptStepKeeps DEF S!Next

LEMMA ScriptsRest ==
  ASSUME ScriptInv, UNCHANGED scriptVars
  PROVE  ScriptInv'
<1>1. UNCHANGED <<runs, started, landed>> /\ MarketsRest /\ RecordsRest
  BY DEF scriptVars, MarketsRest, RecordsRest
<1>2. ScriptTyped'
  BY <1>1 DEF ScriptInv, ScriptTyped, CurveOK, MarketsRest, RecordsRest
<1>3. \A r \in runs' : RunOK(r)'
  BY <1>1 DEF ScriptInv, RunOK, NoneFailed, HasLanded, HasReceipt, Numbers, RecordsRest
<1>4. \A c \in completed' : CompletedOK(c)'
  BY <1>1 DEF ScriptInv, CompletedOK, NoneFailed, Numbers, HasReceipt, RecordsRest
<1>5. RecordsOK' /\ FillsOK'
  BY <1>1 DEF ScriptInv, RecordsOK, FillsOK, HasReceipt, RecordsRest, MarketsRest
<1> QED  BY <1>1, <1>2, <1>3, <1>4, <1>5 DEF ScriptInv, RecordsRest

-----------------------------------------------------------------------------
(* Both beside each other                                                   *)

WorkstationInv == CliInv /\ ScriptInv

LEMMA CliRests ==
  ASSUME CliInv, UNCHANGED vars
  PROVE  CliInv'
<1>1. UNCHANGED <<keypairs, manifests, generated, registry, funds, staked, deposited, locked, tasks,
                  transferred, receipts, commands, given, summaries>>
  BY DEF vars, diskVars, chainVars, terminalVars
<1>2. \A a \in Agents : Authorised(a) => Authorised(a)'
  BY <1>1 DEF Authorised
<1>3. CliTyped'
  BY <1>1 DEF CliInv, CliTyped
<1> QED  BY <1>1, <1>2, <1>3, ManifestRests, RunRests, StakeRests, TaskRests DEF CliInv

\* No step of a command, a script or another trader breaks what was recorded.
THEOREM WorkstationCorrect == WorkstationSpec => []WorkstationInv
<1>1. WorkstationInit => WorkstationInv
  BY CliInitially, ScriptsInitially DEF WorkstationInit, WorkstationInv
<1>2. WorkstationInv /\ [WorkstationNext]_workstationVars => WorkstationInv'
  <2>1. SUFFICES ASSUME WorkstationInv, [WorkstationNext]_workstationVars
                 PROVE  WorkstationInv'
    OBVIOUS
  <2>2. CliInv /\ ScriptInv /\ CliTyped
    BY <2>1 DEF WorkstationInv, CliInv
  <2>3. CASE CliStep
    BY <2>2, <2>3, CliKeeps, ScriptsRest DEF CliStep, WorkstationInv
  <2>4. CASE ScriptStep
    <3>1. S!Next /\ UNCHANGED vars
      BY <2>4 DEF ScriptStep, S!Next, vars, diskVars, chainVars
    <3> QED  BY <2>2, <3>1, CliRests, ScriptsKeep DEF WorkstationInv
  <2>5. CASE UNCHANGED workstationVars
    BY <2>2, <2>5, CliRests, ScriptsRest DEF workstationVars, WorkstationInv
  <2> QED  BY <2>1, <2>3, <2>4, <2>5 DEF WorkstationNext
<1> QED  BY <1>1, <1>2, PTL DEF WorkstationSpec

\* What a command has waited for before its summary has happened, whatever failed
\* and whichever commands ran beside it.
THEOREM SummaryCorrect == WorkstationSpec => []AwaitedStepsHappened
<1>1. WorkstationInv => AwaitedStepsHappened
  BY DEF WorkstationInv, CliInv, ManifestInv, RunInv, StakeInv, TaskInv, AwaitedStepsHappened
<1> QED  BY <1>1, WorkstationCorrect, PTL

\* The stake that is declared to verify_agent was deposited before.
THEOREM DepositCorrect == WorkstationSpec => []DeclaredWasDeposited
<1>1. WorkstationInv => DeclaredWasDeposited
  BY DEF WorkstationInv, CliInv, StakeInv
<1> QED  BY <1>1, WorkstationCorrect, PTL

\* run transfers for an agent only while the chain, if it knows the agent, knows
\* it for SOL_TRANSFER.
THEOREM TransferCorrect == WorkstationSpec => []TransfersAreAuthorised
<1>1. WorkstationInv => TransfersAreAuthorised
  BY DEF WorkstationInv, CliInv, RunInv, Authorised, TransfersAreAuthorised
<1> QED  BY <1>1, WorkstationCorrect, PTL

\* An attested transfer has a receipt at the API, which was signed for a task on
\* the chain and a transfer that succeeded.
THEOREM RecordCorrect == WorkstationSpec => []RecordsInOrder
<1>1. WorkstationInv => RecordsInOrder
  BY DEF WorkstationInv, ScriptInv, RecordsOK, HasReceipt, RecordsInOrder,
         S!RecordsInOrder, S!Landed
<1> QED  BY <1>1, WorkstationCorrect, PTL

\* "Full loop complete!" is printed after a signed receipt and every transaction
\* that was built, none of them failed where the script looks at errors, and the
\* attestation of a transfer.
THEOREM LoopCorrect == WorkstationSpec => []FullLoopIsTrue
<1>1. WorkstationInv => FullLoopIsTrue
  <2>1. SUFFICES ASSUME ScriptInv, NEW c \in completed
                 PROVE  /\ \E p \in signedReceipts : p.run = c.id
                        /\ {t.n : t \in S!Landed(c.id)} = 1..c.txs
                        /\ S!LooksAtErrors(c) => \A t \in S!Landed(c.id) : t.ok
                        /\ c.tool = "sol" => c.id \in attested
    BY DEF WorkstationInv, FullLoopIsTrue, S!FullLoopIsTrue
  <2>2. CompletedOK(c)
    BY <2>1 DEF ScriptInv
  <2>3. S!Landed(c.id) = {t \in landed : t.run = c.id}
    BY DEF S!Landed
  <2>4. {t.n : t \in S!Landed(c.id)} = 1..c.txs
    BY <2>2, <2>3 DEF CompletedOK, Numbers
  <2> QED
    BY <2>2, <2>3, <2>4 DEF CompletedOK, HasReceipt, NoneFailed, Checked
<1> QED  BY <1>1, WorkstationCorrect, PTL

\* No trade on the curve gives less than its quote less the slippage, whatever
\* others trade in between.
THEOREM SlippageCorrect == WorkstationSpec => []SlippageIsBounded
<1>1. WorkstationInv => SlippageIsBounded
  <2>1. SUFFICES ASSUME ScriptInv, NEW f \in fills
                 PROVE  f.received * 10000 >= f.quoted * (10000 - SlippageBps)
    BY DEF WorkstationInv, SlippageIsBounded, S!SlippageIsBounded
  <2>2. f.quoted \in Nat /\ f.received \in Nat /\ f.received >= S!MinOut(f.quoted)
    BY <2>1 DEF ScriptInv, ScriptTyped, FillsOK
  <2> QED  BY <2>2, MinOutBounds
<1> QED  BY <1>1, WorkstationCorrect, PTL

\* On any curve the trades lead to, buying and selling again gains nothing.
THEOREM CurveCorrect == WorkstationSpec => []RoundTripCosts
<1>1. WorkstationInv => RoundTripCosts
  BY RoundTrip DEF WorkstationInv, ScriptInv, ScriptTyped
<1> QED  BY <1>1, WorkstationCorrect, PTL

=============================================================================
