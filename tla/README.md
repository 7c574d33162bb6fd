# Dolores: TLA+ models, checks and proofs

Dolores is a protocol for autonomous agents on Solana: an agent is registered,
stake is put behind it, it executes tasks and is attested for them, and whoever
finds it at fault files a challenge that may slash its stake and reputation.
This directory holds TLA+ models of the three on-chain programs and their
composition, of the agent runtime, of the caches the API keeps of the chain, of
the web client, and of the CLI and the adapter scripts of an operator's machine;
the TLC configurations that check them; and TLAPS proofs of the properties that
matter most. Paths below are relative to the repository root (`src/` in
`PROJECT.json`).

## 1. Inventory

| Component | State it keeps | Operations | Talks to |
|---|---|---|---|
| `dolores_fund` (`dolores-programs/programs/dolores_fund`) | `FundAccount`, one `StakerPosition` per staker, lamports of the vault PDA | initialize_fund, stake, community_stake, withdraw_stake, deposit_rewards, claim_rewards, execute_slash, lock_fund, unlock_fund, apply_slash_to_staker | called by wallets and, by CPI, by `dolores_adjudication` |
| `dolores_registry` (`dolores-programs/programs/dolores-programs`) | `RegistryAccount` per agent, `VerifyResult` per caller and agent | register_agent, submit_attestation, verify_agent, write_arweave_cid, record_slash, update_declared_stake | called by wallets, the API, `dolores_adjudication` |
| `dolores_adjudication` | `TaskRecord` and `Challenge` per task | register_task, complete_task, file_challenge, auto_adjudicate | CPIs lock_fund, unlock_fund, execute_slash, record_slash |
| Agent runtime (`apps/agents/src/poll.ts`, `index.ts`, ...) | in memory only: the `processing` flag, the ticks under way | poll, decide, execute, complete on chain, submit | indexer over HTTP, Solana, a language model |
| API, tasks and challenges (`apps/api/src/sync`, `tasks`, `attestation/challenges`) | `task:` and `challenge:` keys of RocksDB | handlers of five events, list of unresolved challenges | Solana logs, key-value store |
| API, agents and attestations (`sync`, `agents`, `attestation/services`, `receipts`) | `agent:`, `attestation:` and `receipt-cid:` keys | refill, backfill, handlers of three events, refetch, manifest fetch, receipt upload | Solana logs and accounts, IPFS, key-value store |
| API, authentication (`auth`) | one outstanding nonce per wallet, in memory | generateChallenge, verifyAndIssueToken, guard | the client |
| Web client (`apps/client/src`) | state of the React components, the token in localStorage | sign-in, registration wizard, filing of challenges, lists and polls | wallet extension, API, Solana |
| CLI (`apps/cli`) | files of keypairs and manifests | register, stake, challenge, assign, run; queries | several transactions per command, API |
| Adapter scripts (`apps/agents/src/test-*.ts` and the adapters they drive) | none that lasts | one instruction, from parsing to receipt, for seven tools | protocols' APIs and SDKs, Solana, API |
| Others | none that matters here | IPFS node, shared types, IDLs, Solana helpers | |

What is hard, and what correctness means, per component:

- **Fund.** A slash changes the books at once and every position later, one by
  one, whenever somebody asks; stake, rewards and slashed lamports share one
  vault; three counters and the positions are reduced by separate roundings.
  Correct means: the books agree with the positions and the lamports, nobody is
  paid from another's stake, each staker bears each slash once, and a challenge
  freezes the stake it may slash.
- **Registry.** Saturating counters, attestations that may be sent again,
  verdicts and declared stake that are copies of something that changes.
  Correct means: reputation is earned once per attestation, bans are for good,
  what callers trust is current.
- **Adjudication.** Deadlines race completions, challenges and verdicts; one
  lock serves all challenges of an agent; a verdict aborts if a CPI does, and the
  accounts of fund, registry and their programs are whatever the transaction names.
  Correct means: two accounts tell one story, a task is judged once, a completion
  in time is a defence, and fund and registry count the verdicts that reach them.
- **Agent runtime.** Overlapping timer ticks, a flag tested before an `await` and
  set after it, failures and restarts between the transfer, the on-chain
  completion and the report. Correct means: a task is executed once, and the
  chain and the indexer hold the receipt of a real execution.
- **API caches.** Handlers that are not awaited, records read at one await and
  put back at a later one, events lost while the process is down, keys of one
  second. Correct means: what is served is a past of the chain, and the caches
  end up where the chain is.
- **Sign-in.** One nonce per wallet and several tabs asking. Correct means: a
  nonce is good once, whatever message is sent again, and only while it is the
  outstanding one.
- **Web client.** Requests nobody cancels, answers for an input that has changed,
  phases that fail one by one and are retried, clicks before a button is
  disabled. Correct means: rows, receipts and successes are those of what the
  page shows, and one registration is under way at a time.
- **CLI and scripts.** Rows of transactions and requests, each of which may fail
  or take effect unnoticed, in several terminals on the same files. Correct
  means: what a command waits for has happened when it says so, records are made
  in order, and a trade keeps to its quote. What the summaries say beyond that is
  not all true (section 4).

`PROJECT.json` lists every hazard at its line with the properties that cover it.

## 2. Plan

1. `Fund`, `Registry`, `Adjudication`: one program each. *Done, every safety
   property proved.*
2. `Protocol`, the composition of the three programs with the CPIs. *Done; that it
   implements each program alone is proved, and its invariants are.*
3. `AgentRuntime`. *Done and proved.*
4. `TaskView`, what a reader of the API may rely on, and `TaskCache`, which
   implements it. *Done; the refinement and both invariants proved.*
5. `AgentCache`. *Done and proved.*
6. `Session`, `Registration`, `Challenging`, `Browsing`, composed in `Client`.
   *Done; every safety property proved of the composition.*
7. `Cli` and `Scripts`, composed in `Workstation`. *Done; every safety property
   proved of the composition.*
8. `Dispute`, what adjudication promises, and `Escrow`, what the three programs
   promise together. *Done; both refinements proved, that of `Dispute` for each of
   `Adjudication` and `Protocol`.*

Nothing of the plan is left. One extension was considered and given up: a bound
between counters and positions after a slash. There is none in either direction.
A slash that is applied late also hits stake deposited after it, so positions
fall below the counters; a position slashed once is exempt, so they stay above.
What holds after a slash is said by `SplitCoversTotal`, `NoSilentLoss` and `Solvent`.

## 3. Modules

| Module | Models |
|---|---|
| `Dispute` | abstract: what adjudication promises about each task |
| `Escrow` | abstract: how the stake answers for disputes; extends `Dispute` |
| `Fund` | `dolores_fund`, one fund |
| `Registry` | `dolores_registry`, one agent |
| `Adjudication` | `dolores_adjudication`, all tasks of one agent |
| `Protocol` | the three together, with the CPIs |
| `AgentRuntime` | polling and task processing of `apps/agents` |
| `TaskView` | abstract: the statuses the API may serve for a task |
| `TaskCache` | the API's tasks and challenges: the listener, its handlers, the list of unresolved challenges |
| `AgentCache` | the API's record of an agent, its attestations and receipts |
| `Session` | sign-in: `AuthContext`, `WalletButton`, `AuthService` |
| `Registration` | the wizard of the register page with `useAgentRegistration` |
| `Challenging` | the challenge form of an attestation, the list of pending challenges |
| `Browsing` | pages that poll, page and filter: tasks, challenges, attestations, agents and positions of a wallet |
| `Client` | the four, one page open at a time, one wallet |
| `Cli` | register, stake, challenge, assign, run |
| `Scripts` | the adapter scripts, with PumpFun's curve |
| `Workstation` | `Cli` and `Scripts` on the same keypairs and registry |
| `MC*` | model values, amounts and symmetry for TLC |
| `ProtocolProofs` | theorems about `Fund` and `Protocol` |
| `RegistryProofs`, `AdjudicationProofs`, `AgentRuntimeProofs`, `TaskCacheProofs`, `AgentCacheProofs` | theorems about the module of that name |
| `ClientProofs`, `WorkstationProofs` | theorems about the compositions and the modules in them |

**How code becomes actions.** A Solana transaction is atomic, so an instruction is
one action: its guard collects the `require!`s, the account constraints and what
the runtime demands of the lamports moved; its primed variables are the fields
written. A CPI is a conjunct of the caller's action (`Protocol`), because a callee
that aborts undoes the caller too. In TypeScript an action is the code from one
`await` to the next, and a `pc` names the await a piece of work stands at; the
effect of a call and its answer are one step, and a `...Fail` action stands for
a call that is refused, or takes effect although its answer is lost. `map` in
`PROJECT.json` gives the lines of every definition. Variables a comment calls
*history* are no state of the program; they remember what properties speak of.

**Fund.** `fund` is the `FundAccount`, `positions[s]` the `StakerPosition` of `s`,
`vault` the lamports of the vault PDA, `now` the clock. `slashes` is a history
variable. Saturating and truncating arithmetic keeps its width (`U64Max`,
`U16Max`). `CanCredit` and `CanDebit` are the runtime's rules: rent exemption,
and only the owner of an account may debit it. `VaultSystemOwned` says who owns
the vault: Anchor's `init` without an `owner` gives it to the program
(`lib.rs:447`), so the faithful value is `FALSE`. Under it nothing ever leaves
the vault: run `fund_vault` shows a stake that cannot be withdrawn, and theorem
`NothingLeavesTheVault` that no lamport comes out. The other runs use `TRUE`, the
ownership the comments describe, since withdrawals, claims and slashes would
otherwise never happen in them; the other proofs hold for both values. `overpaid`
is a history variable: what claims took beyond the rewards there were. Lamports
sent to the vault by other than an instruction are not modelled; they would only
make it richer. lock, unlock and execute_slash accept any signer, as the code does.

**Registry.** `credits` counts accepted attestations per output.
`verify_ed25519_ix` compares bytes of the previous instruction at fixed offsets
and does not read that instruction's header, so passing it does not establish
that the operator signed anything: `CanAttest` has no such condition, and any
output may be attested.

**Adjudication.** `tasks[t]` and `challenges[t]` are the two accounts; status
`Unregistered`/`Unfiled` stands for an account that does not exist, and `init` makes a challenge only
where there is none. The verdict
is split in its two paths, `SlashAgent` and `DismissChallenge`.

**Protocol.** The module extends `Fund` and has the other two programs as instances
`R` and `A`; the clock is the one the fund reads. `OpenFund` and `ClockStep` are
`InitializeFund` and `Tick` of the fund with the rest unchanged.
`AnyCaller` says whether there are callers but the repository's own clients. They
may call lock_fund, unlock_fund, execute_slash and record_slash directly, which
accept any signer, and they may name other accounts: adjudication takes fund,
registry and the two programs as `AccountInfo`s and compares them with nothing. So
a transaction reaches a subset `own` of the agent's two accounts (`Namings`): a
filing that names another fund, or a program that does nothing, locks nothing here;
a verdict may slash the fund and not the registry, or the reverse. What reached
which program is remembered in `reached`, direct slashes in `direct`, and in `held`
the open challenges that did lock the fund and that nothing has unlocked since. A
verdict about another agent that names this one's fund is a direct slash.
update_declared_stake, which touches none of the state the properties speak of, is
left to `Registry`.

**Dispute and Escrow.** `Dispute` has no clock and no accounts: per task what the
agent has done (`work`), how far its dispute has come (`dispute`), what is held
against it (`claim`). `Adjudication` maps its two accounts to that: `WorkOf` compares
completed_at with the deadline, `ClaimOf` drops of a proof all but whether it is
there. A missed deadline may be found of work that is due or late and denied of
work that is due or in time; of work that is due it is the time of the verdict
that decides, so the abstract verdict may be either. `Escrow` adds one number, the
total stake of the fund, and the set of disputes that hold it: a dispute may hold
the stake from its opening, held stake does not leave by a withdrawal, and an
upheld dispute takes the penalty or, where the transaction named another fund,
nothing. Anyone may lift the hold (unlock_fund). Both modules are about the order
of steps across accounts, programs and clock; neither promises that a verdict
comes, since nothing in the repository schedules one.

**AgentRuntime.** `processing` is the flag of `startPolling`; `ticks[i]` a timer
callback under way; `listed` what the indexer returns as pending; `status` and
`recorded` the `TaskRecord`; `paid`, `executed` history. The pending-tasks,
`/complete` and `/status` endpoints are modelled from how the runtime uses them:
the API in this repository does not serve them. The PATCH that reports a
completion and the POST of the receipt are two steps.

**TaskCache and TaskView.** `tasks` and `challenges` are the keys of the store,
`jobs` the handlers that have not finished, each with the record its last `get`
returned. An event starts its handler if the process is `up` and is lost
otherwise. `Stop` is a shutdown or a crash: handlers die where they stand, the
store keeps what was put. The `reader` is a request that takes the keys of the
challenges, reads them one by one, sorts what is unresolved by the time of filing
(`filedAt`) and answers with the entries from `offset` on, at most `Limit`. `View` maps this to `TaskView`: the
past of a task is read off its `TaskRecord`, `served` is the status in the
cache. `TaskView` allows an old status to come back, since two overlapping
handlers do that; it forbids one the chain never gave the task, and that a task
disappears.

**AgentCache.** `registry` is the chain's account of one agent, `agent` its
cached record, `attestations` the records keyed by second, `receipts` the
entries from output hash to CID. `phase` is where the process is between boot,
refill, backfill and listening. A CID stands for the manifest behind it;
the manifests of `Undescribed` have no description, so an agent with one is
fetched again on every request. A miss puts the record up to twice, once with the
manifest's name and once more. The event of a slash is logged and nothing else, so
`RecordSlash` opens a `gap` at once.

**Session, Registration, Challenging, Browsing, Client.** A nonce is a number
handed out in order; a token is told by its wallet; a row or a task list by the
input it was asked for. The pages share the wallet alone, and no two of them are
open in one tab, so `Client` opens a page at the beginning and stays on it:
`ClientSpec` is a disjunction over pages, with the wallet changing underneath.
`Session` also has the other tabs and browsers that ask for a challenge, and
`Resend`: a request of `/auth/verify` made before arrives once more. `Registration`
counts `register` alone as under way: the transaction of `writeArweaveCid` is not
covered by the hook's flag. A challenge lands only for wallets `WithFund`: the modal
derives the fund with the challenger as its operator.

**Cli, Scripts, Workstation.** A command or a script in progress is a record with
the step it stands at; several of them are alive at once. `summaries` and
`completed` hold those that have printed their success. A verdict may slash the
stake (`Slashed`), and the API's answer to a receipt says whether it was attested. A
script loops over the transactions it was given, possibly none (`Loop`).
test-sol-transfer and test-pyth take a keypair file of their own (`KeypairsOf`), so
they may use one the CLI has deleted. For PumpFun the quote
and the trade are computed as `calcBuyTokens` and `calcSellSol` do, in small
integers; other protocols accept or refuse. In `Workstation`, `register` makes
the keypairs that the scripts use, and interrupts of either leave the rest.

Definitions marked `mutation` are faulty variants of the definition that follows
them (a dropped guard, a wrong rounding, a missing write). No specification uses
them; `PROJECT.json` pairs each with the property that fails when the variant
replaces the original, which shows that the property can fail.

Every module of code states its `TypeOK`. Those of `Fund`, `Registry`, `Adjudication`
and `AgentRuntime` are proved, and the first two say that arithmetic keeps its
width; the others (`ProtocolTypeOK`, `TypeOK` of `TaskCache` and `AgentCache`,
`ClientTypeOK`, `WorkstationTypeOK`) document the variables. None is among the
runs' properties.

## 4. Runs

Passing runs (`tlc -config X.cfg M`):

| Run | Shows | Bounds |
|---|---|---|
| `fund` | `SplitCoversTotal`, `BooksBalance`, `Solvent`, `LockedStakeStays`, `NoSilentLoss` | 2 stakers, stakes of 10 up to 20, slashes of 7, one deposit of 5, 2 slashes, 2 clock readings |
| `registry` | `ReputationIsEarned`, `BanIsPermanent` | 2 callers, 2 outputs, 2 attestations each, ceiling 150, slash counter up to 4 |
| `adjudication` | `StatusesAgree`, `InTimeNeverSlashed`, `VerdictIsFinal`, `JudgesDisputes` | 2 tasks, 5 clock readings, proofs of 0, 1024 and 1025 bytes |
| `protocol` | `HeldIsLocked`, `SlashesAgree`, `HoldsInEscrow` | 2 tasks, 1 staker, any caller and any accounts named, one direct slash per program, 2 slashes of the fund, 2 clock readings |
| `agent` | `CompletedWasExecuted`, `OneReceiptPerTask` | 2 ticks, 2 tasks, failures of every call, 2 payments per task, 2 seconds |
| `task_cache` | `InSyncWhenQuiet`, `ListIsSound`, `ServesThePast`, `Settles` | 2 tasks, 5 events between them, 2 filing times, pages of 1 entry at 2 offsets, any number of stops and starts, one request at a time |
| `agent_cache` | `NameIsOfCid`, `ScoreHasItsTime`, `CurrentWhenQuiet`, `ReceiptIsLinked` | 2 CIDs, one without a description, 2 attestations, 3 changes of the account, 2 pieces of work at once beside the process |
| `client` | `SuccessIsComplete`, `OneRegistrationAtATime`, `ChallengeNamesItsTask`, `PendingIsOfWallet`, `RowsAreOfPage`, `SpentNonceIsRefused`, `PollingSettles` | 2 wallets with an agent each, 2 templates, 3 nonces, 2 keypairs, 2 clicks, 2 filings, 2 requests at once, pages of 2 rows |
| `workstation` | `AwaitedStepsHappened`, `DeclaredWasDeposited`, `TransfersAreAuthorised`, `RecordsInOrder`, `FullLoopIsTrue`, `SlippageIsBounded`, `RoundTripCosts` | 2 agents, 1 task, 3 commands or scripts together, 2 terminals, 2 scripts, loops of 0 to 2 transactions, one trade of others |

Why these bounds are enough to be interesting: a slash of 7 divides neither a
stake of 10 nor two of them, so ratio and remainders round; with two slashes one
position can meet both, one or none. A deposit of 5 cannot be shared evenly by
two equal stakers. The registry's ceiling is met by the second full attestation,
and its slash counter saturates after the slash that bans. Five clock readings
leave room before, at and after a deadline for filing, completing and judging.
Two ticks and two tasks give every overlap of two executions, of the same task
and of different ones, and a second payment for one task. Five events take one task
through its whole life, up to four of its handlers overlapping, or bring two tasks
to their challenges and one of them to its verdict; handlers of one task never
touch another's records, and what two tasks compete for, the page, has room for
one. Two filings of two challenges, two kinds of accounts a transaction may leave
out and a direct call of each program are what it takes to part lock, fund and
registry. Two CIDs, two pieces of work and the
refill are what it takes to bring an old record back. Two wallets and two agents
let every answer be one for the wrong input, lists of 1, 4 and 5 rows end on, and
in the middle of, a page of 2, and three nonces leave one to be replaced, one to
expire or be used, and one for the request that is sent again. Three commands suffice for register, stake and one that
depends on them, and for two registrations beside a script. The curve is small
enough that every rounding shows, and a trade of somebody else may fall between
quote and fill.

Bounds that cut behaviour are constants named in the modules: `StakeCap`,
`RewardCap`, `MaxTime`, `MaxSlashes`, `MaxDirect`, `MaxAttestations`, `MaxPayments`,
`Times`, `MaxEvents`, `MaxCids`, `MaxChanges`, `MaxJobs`, `MaxNonces`, `MaxAgents`, `MaxClicks`, `MaxFilings`,
`MaxPending`, `MaxRequests`, `MaxTasks`, `MaxCommands`, `MaxTerminals`, `MaxRuns`,
`MaxTrades`, `MaxTxs`, `MaxStarted`. The proofs need none of them to be small.
Symmetry is used where only names differ and never in a run with a liveness
property. Deadlock checking is off where the bounded system really stops:
`adjudication` once every task is judged and time is up, `task_cache` and
`agent_cache` when the chain has done all it may and the process is idle,
`client` and `workstation` when clicks, nonces or commands are used up.

`BooksBalance` speaks of the time before the first slash; what a slash does to the
books is the subject of `SplitCoversTotal`, `NoSilentLoss` and `Solvent`. `Solvent`
does not say that the vault can pay everybody: after a slash a claim may exceed the
claimant's share and is paid out of stake. It says that nothing else is ever
missing. `HeldIsLocked` and `HoldsInEscrow` speak of challenges that took the lock and
have not lost it to another verdict, a slash or an unlock; that the code lets them
lose it is run `protocol_two_tasks`. `InSyncWhenQuiet`, `CurrentWhenQuiet` and
`RowsAreOfPage` except what a history variable marks: events nobody heard, that are
ignored or that overlapped (`gap`), requests that overlapped or failed (`astray`).
The code makes no promise there; what still holds then is said by `ServesThePast`,
`NameIsOfCid` and `PollingSettles`, and the lost updates themselves are hazards
without a property. `InSyncWhenQuiet` compares statuses and which of completedAt and
disputeReason are set. `ListIsSound` speaks of the first page where something was
left out, and of every page for what it lists. `FullLoopIsTrue` leaves out the
success of transactions for the Kamino script and the swap of the Raydium script,
which do not look at it.

**Fairness.**

- `Settles`: weak fairness of a task's handler steps. RocksDB answers, and node
  runs the continuation. Nothing is asked of the chain or of a restart: a process
  that stays down has missed events, which is what the property excepts.
- `PollingSettles`: weak fairness of the interval, and of the end of a request; strong
  fairness of the answer to a poll, that is, of polls made again and again some
  succeed. The user is not assumed to do anything but keep to an agent.

No property says that a verdict comes: nothing in the repository calls
auto_adjudicate again once `dolores challenge` has called it, so no fairness of it
could be justified.

**Where code and documents part** (runs expected to find a violation; quotes and
lines in `PROJECT.json`):

| Run | What the run shows |
|---|---|
| `protocol_two_tasks` | one verdict unlocks the fund for all challenges |
| `fund_vault` | a stake cannot be withdrawn from the vault as initialize_fund creates it |
| `workstation_keypair` | a registration that lands but is not confirmed loses its keypair |

**Also met while modelling**, read from the code and present in the models, but
without a run of its own. Where a definition is named it states what a comment
says and is violated by the model:

*Programs.*
- A position slashed once is exempt from later slashes (`Fund!EverySlashApplies`,
  `dolores_fund` `lib.rs:374`).
- A challenge filed early takes the agent's time away
  (`Adjudication!FullTermBeforeSlash`, `lib.rs:191`).
- A verdict may name another fund and registry, and then costs the agent nothing
  (`Protocol!VerdictCosts`, `README.md:275`, `dolores_adjudication` `lib.rs:505`).
- A challenge against a poor fund cannot be upheld (`dolores_fund` `lib.rs:312`).
- A slash is not applied when a staker withdraws or claims (`CanWithdraw` takes the
  position as stored), and is applied to stake deposited after it (`SlashDue`).
- After a slash the claims of unreduced positions add up to more than the rewards.
- Nothing pays `pending_slash_amount` to the challenger, and the next slash
  overwrites it. The operator's stake is reduced by the same ratio as everybody's.
- `SubmitAttestation` accepts the same output any number of times, and takes the
  header of the Ed25519 instruction on trust.
- A `VerifyResult` is never refreshed, and the declared stake outlives the stake.

*Agent runtime and scripts.*
- Two ticks execute the same task (`AgentRuntime!NoOverlap`, `poll.ts:44`), and a
  payment without a completion on chain is made again at the next poll.
- `OutputHash` leaves out the nested objects, the transaction among them.
- A transfer is made before its task is registered (`Scripts!TaskBeforeExecution`):
  `submit.ts:46` asks for the other order, `test-sol-transfer.ts:99` does this one.
- A script prints that its operation was executed although no transaction was sent
  for it, or one has failed (`Scripts!ExecutedIsTrue`, `test-raydium.ts:166`,
  `test-meteora.ts:190`, `test-kamino.ts:167`); Kamino's "max" sends the amount 0; the Jupiter swap ignores
  `slippageBps`; a limit order leaves no receipt.

*API.*
- A manifest fetched for one CID is stored under a later one
  (`AgentCache!ManifestIsOfCid`, `attestation.service.ts:279`).
- The backfill leaves a score with the time of another attestation
  (`AgentCache!BackfillKeepsChronology`, `attestation.service.ts:116`).
- A second attestation within a second replaces the first.
- handleAttestationSubmitted builds its record outside its `try`.
- The builders of register_task, file_challenge and auto_adjudicate transactions
  pass arguments the programs do not take, and always throw.

*Web client.*
- The hash on chain may be that of another template than the manifest
  (`Registration!HashIsOfManifest`, `Step3RegisterOnChain.tsx:192`); the page may show
  that it is loading with nothing under way (`LoadingHasWork`,
  `register/page.tsx:92`); a phase may be skipped for another keypair
  (`SkipsOnlyWhatSucceeded`).
- A filing that ends after its modal was closed shows its outcome in the next one
  (`Challenging!OutcomeIsOfAttestation`, `AttestationDetailsModal.tsx:128`).
- A token that arrives after a disconnect stays
  (`Session!LoggedOutWithoutWallet`, `AuthContext.tsx:119`), and the stored token is
  wiped by every mount, since the wallet connects later.
- Applying a filter again keeps the rows of the old offset
  (`challenges/page.tsx:199`).
- The modal takes the challenger for the operator when it derives the fund.

*CLI.*
- A declaration misses earlier stakes and slashes (`Cli!DeclaredIsStaked`,
  `stake.ts:120`).
- `register` prints "Agent fully set up!" also without a fund
  (`Cli!SetUpIsComplete`, `register.ts:187`), and names a command `fund-init` that does
  not exist.
- `run` prints "submit_attestation fired on-chain" and "Reputation score
  incremented" also when the API attested nothing (`Cli!AttestationFired`,
  `run.ts:254`).
- Web client and CLI hash the same template differently
  (`packages/shared/src/capability.ts`, `apps/cli/src/templates.ts`).

## 5. Proofs

Every safety property of a passing run is a theorem
`Spec => ...`, for every value of the constants that meets the modules' named
assumptions:

- `Fund`: finitely many stakers, amounts in u64, a cap under which the u64 product
  of execute_slash does not saturate (1.8 million SOL for the real constants).
- `Registry`: a slash counter that can count to three. `AgentRuntime`: finitely many
  tasks, a `NoHash` that is no hash. `Adjudication`: the agent is one of the wallets.
- `Protocol`: the slash of a verdict is among the amounts a slash can have, the
  challengers of the fund include the wallets that file, and the agent is one of
  the wallets.
- `Browsing`: an agent has an operator and a number of rows, a page has rows.
  `Client`, `Workstation`, `AgentCache`: bounds are naturals, `None` is no task and
  no template, a slippage is at most all of it. `TaskCache`: finitely many tasks,
  times, limit and offsets are naturals.

One theorem has a hypothesis beside these: `NothingLeavesTheVault` is about the vault
as initialize_fund creates it, owned by the program. All others hold for either
owner, with or without rewards, and for either value of `AnyCaller`.

**Fund** (`ProtocolProofs`).

- `TypeCorrect`: saturation is what keeps every subtraction natural, and the slash
  ratio stays within the denominator because the amount is covered.
- `SplitCorrect`: `SplitCoversTotal` is not inductive: a withdrawal saturates the
  total before a half only if the total is larger, and a slash's two roundings
  down must be weighed against the rounding of the ratio. `SplitInv` adds `TypeOK`,
  that the two halves stay under the cap, and that a ratio is stored only after a
  slash; one arithmetic lemma bounds what the halves keep of a slash.
- `LockCorrect`, `LossCorrect`: withdrawals are excluded by the lock and a slash
  clears it; positions shrink in WithdrawStake, by what the vault pays, and in
  ApplySlashToStaker, which sets the flag it requires unset.
- `BooksCorrect`: `BooksBalance` for any finite number of stakers. The sum over the
  positions is the number of staked lamports (`Lamports`, a set of pairs), so what
  an instruction does to the sum is a fact about cardinalities (`StakeMoves`):
  one position grows by `a`, and so does the count, with no induction over the
  stakers. `BooksInv` adds the roles (`RolesAgree`: a withdrawal takes from the half
  that `is_validator` names), that no ratio is stored before a slash, and that
  nothing is there before initialize_fund. `CapFits` excludes saturation, and a
  claim takes from vault and pot alike.
- `NothingLeavesTheVault`: every payment asks `CanDebit`, which then fails, and all
  other instructions add to the vault or leave it.
- `SolventCorrect`: `SolventInv` adds the types and that before initialize_fund nobody
  has a stake. Applying a slash only lowers what is owed, withdrawals and
  claims take the same from both sides, and what a claim takes beyond the pot is
  what it adds to `overpaid`.

**The programs together** (`ProtocolProofs`).

- `FundImplemented`, `RegistryImplemented`, `AdjudicationImplemented`: every
  instruction of `Protocol`, with its CPIs, is one of each program alone or leaves
  that program alone. So every result about a program holds of the protocol
  (`FundKeepsItsPromises` says it for the fund), whoever calls and whatever a
  transaction names.
- `HeldCorrect`: `HeldInv` adds `DisputesAgree` (types and `StatusesAgree`: a filed
  challenge cannot be filed again) and that a lock is only on a fund that exists,
  which initialize_fund would otherwise reset. Every instruction that clears the
  lock ends every hold, and one about another fund ends only its own.
- `SlashesCorrect`: `SlashesInv` adds that finitely many verdicts have reached a
  program, so that one more can be counted; it needs `DisputesAgree`, by which a
  verdict upholds a challenge that was not upheld before. The registry's counter
  agrees as far as a u8 goes.

- `DisputesJudged`: the three programs implement `Dispute`, for any number of tasks
  whoever calls: a direct slash is no verdict. The argument is that of
  `JudgesCorrect` below, with one step for every instruction of the protocol.
- `EscrowCorrect`: they implement `Escrow`. `EscrowInv` joins `HeldInv`, by which a
  dispute that holds stake means a locked fund and so no withdrawal, with
  `EvidenceInv` (below) and with the fact that a fund that is not initialised holds
  no stake, or initialize_fund would lose it. Deposits strictly add since the
  programs demand a minimum and, under `CapFits`, do not saturate; a verdict that
  reaches the fund takes the penalty whole because execute_slash requires the stake
  to cover it, and one that does not leaves the stake and ends its own hold.

**Registry** (`RegistryProofs`): the score stays under its ceiling; a ban survives
every instruction, saturation included. `EarnedCorrect`: `ReputationIsEarned`, by
counting accepted attestations as above; slashes only lower the score.

**Adjudication** (`AdjudicationProofs`): only the conjunction `DisputeInv` of `TypeOK`,
`StatusesAgree` and `InTimeNeverSlashed` is inductive: that a filed or judged
challenge leaves no way to register, complete or file again follows from the
guards on the task's status only where the statuses agree. `VerdictIsFinal` needs
it too: the guards look at one account, the property speaks of both.
`JudgesCorrect` is the refinement of `Dispute`, for any number of tasks. It needs
`EvidenceInv`, that is `TypeOK`, `StatusesAgree` and `CompletionsArePast`: no completion
carries a time to come, and a task that is unregistered or pending carries none. That a verdict
agrees with the evidence follows from the guard of the verdict, the deadline
having passed (`EvidenceUpholds`) or not (`EvidenceDismisses`); each instruction then
maps to the abstract step of its task, and the clock to a stutter.

**AgentRuntime** (`AgentRuntimeProofs`): that a tick carries the receipt of an
execution (`TickInv`) gives `CompletedWasExecuted`; `OneReceiptPerTask` needs `AloneInv`: a
tick that submits has come through complete_task, which takes a task once, so it
is the only one of its task, nothing was uploaded for that task before, and the
hash on chain is that of its receipt. Neither the flag nor the list of pending
tasks is used: it is complete_task alone that keeps overlapping executions apart.

**TaskCache** (`TaskCacheProofs`), for any number of tasks and overlapping handlers.

- `ServesPast`, the refinement of `TaskView`: `PastInv` says that every handler under
  way is justified by the chain (`Justifies`), and that the flags of a `TaskRecord`
  remember what its status went through (`Remembers`); then each write of a handler
  shows a status of the past, a transaction adds one that is new
  (`ForwardOnly`), and every other step stutters. The handlers' `pc` does not matter
  to it, which is why no order of them does any harm.
- `SyncCorrect`: `InSyncWhenQuiet`. `SyncInv` says what the one handler of an
  undisturbed task has written at each `pc`: the records are those of the chain
  before its event (`Pre`) up to its put, and those after it from then on.
- `ListCorrect`: `ListIsSound`. `ListInv` follows a request for the list: since it took
  the keys, the challenge of an undisturbed task has only moved forward
  (`Becomes`), so what is found open was open all along; and what a page leaves
  out of it comes after everything on the page (`Pages`).

**AgentCache** (`AgentCacheProofs`), for any number of events, requests and pieces of
work in progress. `CacheInv` says of every piece of work what the record it carries
is worth (`JobInv`): its name is of its CID, its pair of score and time is of the past unless
the backfill has written, an event brings a pair the registry has had, and an
attestation whose receipt came first is going to be linked. `NameCorrect`,
`ScoreCorrect` and `LinkCorrect` follow from it. What makes it inductive is that
attestations are numbered without gaps (`ChainInv`: no event is about an attestation
to come), and that a refill may only make up for the backfill when nothing else
carries a record. `CurrentCorrect`: `QuietInv` adds that, as long as nothing was
missed or overlapped, an event is handled alone (`Touching = {j}`), its handler will
put the current record (`Announces`), and a record fetched is current. A slash,
whose event is ignored, ends that.

**Client** (`ClientProofs`). `ClientInv` joins an invariant for each page, with the pages
that are not open asking for nothing.

- `NonceCorrect`: `SpentNonceIsRefused`. Nonces are handed out in order (`HandedOut`),
  none is outstanding for two wallets (`OneWallet`), and an outstanding one that is
  fresh is not spent (`FreshIsUnspent`), since the answer that spends it deletes it:
  so a request sent again finds nothing to answer. `OneWallet` is what makes the third
  inductive: what one wallet spends could otherwise still be good for another.
- `SuccessCorrect`, `RegisterCorrect`: a call of the wizard has passed the checks of
  the phases before it (`CallInv`), and the fund exists with its agent (`ChainInv`); only
  the call that holds the flag takes it back (`FlagInv`).
- `ChallengeCorrect`, `PendingCorrect`: a request that is not cancelled is for what the
  page shows (`ModalInv`, `PendingInv`), and a filing keeps the pair of attestation
  and task it was begun with (`FilingInv`).
- `RowsCorrect`: until something goes astray, every request under way is the page's
  own (`ListInv`, `OwnedInv`).

**Workstation** (`WorkstationProofs`). `WorkstationInv` is `CliInv` and `ScriptInv`. It says
of every command and script what has happened by the time it stands at its `pc`.

- `SummaryCorrect`, `DepositCorrect`, `TransferCorrect`: a manifest on disk is the one
  on chain as long as it is there (`ManifestInv`), which is what authorises a transfer
  (`RunInv`); a declaration follows its deposit (`StakeInv`); a task is disputed by
  one command, since tasks are numbered in order (`TaskInv`).
- `RecordCorrect`, `LoopCorrect`: scripts have numbers of their own, so a step adds to
  the records of its script and none other (`Advances`); a receipt, a task, an
  attestation are made in that order (`RunOK`, `RecordsOK`, `CompletedOK`).
- `SlippageCorrect`: a fill is at least the minimum sent with the trade (`FillsOK`).
  `CurveCorrect`: `RoundTripCosts` on every curve with both reserves positive, for
  every amount: two lemmas on truncating division bound what a sale of what was
  just bought gives back; the curve keeps its reserves positive through every trade.

Only model-checked: the liveness properties `Settles` and `PollingSettles` (fairness
is beyond the prover). The runs that expect a violation have counterexamples;
`NothingLeavesTheVault` proves what `fund_vault` shows in one of them.

## 6. Not modelled

- The content of what is passed along: manifests, receipts, proofs, prompts and
  what a language model answers to them. Hashes are taken for injective.
- Requests that only read and format: the API's pages and DTOs, verify, history
  and task-status of the CLI, prices, portfolios, the landing page, cards and the
  explorer of the client.
- Requests that never return. No model has one, so what a hanging request does to
  the flag of `startPolling` (`poll.ts:17`) is not shown.
- Rent and fees beyond the vault's rent exemption; the fund's events Staked,
  Unstaked and SlashExecuted, whose handlers only log (FundInitialized refetches the
  agent, which `RequestDetails` of `AgentCache` stands for); fields nothing reads (`staked_at`,
  `total_claimed`, `last_reward_epoch`, bumps, time stamps of the registry); the
  challenge bond, which file_challenge writes down and nobody collects.
- The API's transaction builders that always throw (section 4), and the expiry of
  a token, which nothing but time decides.
- IPFS node, key-value store and Solana clients: external, each call answers,
  refuses, or takes effect without an answer.
- `temp_lib.rs` is an earlier registry that no program compiles.
