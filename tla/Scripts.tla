-------------------------------- MODULE Scripts --------------------------------
(***************************************************************************)
(* The scripts that drive the DeFi adapters: one instruction each, parsed  *)
(* by the language model, built by the API or SDK of a protocol, sent, and *)
(* recorded in a receipt the agent signs.  test-sol-transfer also gives    *)
(* the receipt to the API and the attestation to the registry.             *)
(*                                                                         *)
(* Scripts share keypairs, registry, positions and markets.  The bonding   *)
(* curve of PumpFun is modelled with its arithmetic, since its quote is    *)
(* computed here; the other protocols accept or refuse a transaction.      *)
(* Scripts with commands of display only end where they began.             *)
(***************************************************************************)
EXTENDS Integers, FiniteSets

CONSTANTS
    Agents,
    Tools,               \* the scripts that are run
    SolAmounts, TokenAmounts,  \* what PumpFun orders buy for, and sell
    SlippageBps,         \* the slippage of an order
    MaxRuns, MaxTrades,  \* bounds: scripts started, trades of others
    MaxTxs               \* bound: transactions an SDK splits one operation in

VARIABLES
    keypairs, generated, registry,  \* of the CLI: keypair files, agents, RegistryAccounts
    runs, started,       \* scripts in progress, scripts started
    curve, trades,       \* the bonding curve, trades of others on it
    positions,           \* agent -> its positions in the Meteora pool
    landed,              \* transactions in a block, whether or not they failed
    fills,               \* trades on the curve: what was quoted, what was received
    receipts,            \* receipts the agent has signed
    registered, uploaded, attested,   \* scripts that have recorded their task so
    completed            \* scripts that have printed "Full loop complete!"

marketVars == <<curve, trades, positions, fills>>
recordVars == <<receipts, registered, uploaded, attested, completed>>

scriptVars == <<runs, started, marketVars, landed, recordVars>>

Operations ==
    {"none", "transfer", "deposit", "withdraw", "borrow", "repay", "swap", "add",
     "remove", "collect", "buy", "sell", "dca", "limit", "price"}

Run ==
    [id : 1..MaxRuns, tool : Tools, agent : Agents,
     pc : {"deciding", "building", "sending", "registering", "signing", "reporting",
           "uploading", "attesting", "authorising", "showing"},
     op : Operations,
     amount : Nat, quoted : Nat, minOut : Nat, position : Nat,
     txs : 0..MaxTxs, sent : 0..MaxTxs]

Completion == [id : 1..MaxRuns, tool : Tools, op : Operations, txs : 0..MaxTxs]

BCState ==
    [virtualTokenReserves : Nat, virtualSolReserves : Nat,
     realTokenReserves : Nat, realSolReserves : Nat, complete : BOOLEAN]

TypeOK ==
    /\ runs \in SUBSET Run /\ started \in 0..MaxRuns
    /\ curve \in BCState /\ trades \in 0..MaxTrades
    /\ positions \in [Agents -> SUBSET (1..MaxRuns)]
    /\ landed \in SUBSET [run : 1..MaxRuns, n : 1..MaxTxs, ok : BOOLEAN]
    /\ fills \in SUBSET [run : 1..MaxRuns, quoted : Nat, received : Nat]
    /\ receipts \in SUBSET [run : 1..MaxRuns, names : BOOLEAN]
    /\ registered \in SUBSET (1..MaxRuns)
    /\ uploaded \in SUBSET (1..MaxRuns) /\ attested \in SUBSET (1..MaxRuns)
    /\ completed \in SUBSET Completion

Init ==
    /\ runs = {} /\ started = 0
    /\ curve = [virtualTokenReserves |-> 20000, virtualSolReserves |-> 6000,
                realTokenReserves |-> 5000, realSolReserves |-> 1000, complete |-> FALSE]
    /\ trades = 0
    /\ positions = [a \in Agents |-> {}]
    /\ landed = {} /\ fills = {} /\ receipts = {}
    /\ registered = {} /\ uploaded = {} /\ attested = {} /\ completed = {}

-----------------------------------------------------------------------------
(* A script in progress                                                     *)

At(r, tool, pc) == r \in runs /\ r.tool = tool /\ r.pc = pc

Move(r, s) == runs' = (runs \ {r}) \cup {s} /\ UNCHANGED started

\* A return, or an error that main reports.
Leave(r) == runs' = runs \ {r} /\ UNCHANGED started

MoveOrLeave(r, s) == Move(r, s) \/ Leave(r)

\* The adapters look the keypair up where the CLI keeps it; test-sol-transfer
\* takes a file of its working directory and test-pyth one of the Solana tools,
\* so copies the CLI knows nothing of.
KeypairsOf(tool) == IF tool \in {"sol", "pyth"} THEN 1..generated ELSE keypairs

StartScript ==
    /\ started < MaxRuns
    /\ started' = started + 1
    /\ \E tool \in Tools : \E a \in KeypairsOf(tool) :
         runs' = runs \cup {[id |-> started', tool |-> tool, agent |-> a, pc |-> "deciding",
                             op |-> "none", amount |-> 0, quoted |-> 0, minOut |-> 0,
                             position |-> 0, txs |-> 0, sent |-> 0]}
    /\ UNCHANGED <<marketVars, landed, recordVars>>

\* The answer of the model is one of the operations, or the script ends: the
\* answer is no JSON, rejects the instruction, or asks for the status.
Decide(r, ops) ==
    /\ r.pc = "deciding"
    /\ \/ \E op \in ops : Move(r, [r EXCEPT !.op = op, !.pc = "building"])
       \/ Leave(r)
    /\ UNCHANGED <<marketVars, landed, recordVars>>

\* The loop over the n transactions that were built, possibly none.
Loop(r, n) == [r EXCEPT !.txs = n, !.pc = IF n = 0 THEN "signing" ELSE "sending"]

\* The transactions of the operation are built, or their building fails.
Build(r, txs) ==
    /\ r.pc = "building"
    /\ \/ \E n \in txs : Move(r, Loop(r, n))
       \/ Leave(r)
    /\ UNCHANGED <<marketVars, landed, recordVars>>

Land(r, ok) == landed' = landed \cup {[run |-> r.id, n |-> r.sent + 1, ok |-> ok]}

Sent(r) == [r EXCEPT !.sent = @ + 1, !.pc = IF r.sent + 1 = r.txs THEN "signing" ELSE @]

\* sendAndConfirmTransaction: an error of the transaction is thrown, and so is a
\* confirmation that does not come in time.
SendAndConfirm(r, next, effect, nothing) ==
    \/ effect /\ Land(r, TRUE) /\ MoveOrLeave(r, next)
    \/ nothing /\ Land(r, FALSE) /\ Leave(r)
    \/ nothing /\ UNCHANGED landed /\ Leave(r)

\* sendTransaction and confirmTransaction: the error that comes with a
\* confirmation is not looked at.
SendUnchecked(r, next) ==
    \/ \E ok \in BOOLEAN : Land(r, ok) /\ MoveOrLeave(r, next)
    \/ UNCHANGED landed /\ Leave(r)

\* The receipt is built and signed; names tells whether it holds the signature
\* of a transaction.
Sign(r, names) ==
    /\ r.pc = "signing"
    /\ receipts' = receipts \cup {[run |-> r.id, names |-> names]}
    /\ UNCHANGED <<marketVars, landed, registered, uploaded, attested>>

FullLoop(r) ==
    /\ completed' = completed \cup
         {[id |-> r.id, tool |-> r.tool, op |-> r.op, txs |-> r.txs]}
    /\ Move(r, [r EXCEPT !.pc = "showing"])

SignAndComplete(r, names) == Sign(r, names) /\ FullLoop(r)

\* The status that follows the summary; the script ends, whatever it fetches.
Show(r) ==
    /\ r.pc = "showing"
    /\ Leave(r)
    /\ UNCHANGED <<marketVars, landed, recordVars>>

-----------------------------------------------------------------------------
(* test-sol-transfer                                                        *)

SolTransferDecision(r) == At(r, "sol", "deciding") /\ Decide(r, {"transfer"})

ExecuteSolTransfer(r) ==
    /\ At(r, "sol", "building")
    /\ SendAndConfirm(r, [r EXCEPT !.txs = 1, !.sent = 1, !.pc = "registering"], TRUE, TRUE)
    /\ UNCHANGED <<marketVars, recordVars>>

RegisterTask(r) ==
    /\ At(r, "sol", "registering")
    /\ \/ /\ registered' = registered \cup {r.id}
          /\ MoveOrLeave(r, [r EXCEPT !.pc = "signing"])
       \/ UNCHANGED registered /\ Leave(r)
    /\ UNCHANGED <<marketVars, landed, receipts, uploaded, attested, completed>>

SolTransferReceipt(r) ==
    /\ At(r, "sol", "signing")
    /\ Sign(r, TRUE) /\ Move(r, [r EXCEPT !.pc = "reporting"])
    /\ UNCHANGED completed

\* PATCH /complete: the status of its answer is not looked at.
ReportCompletion(r) ==
    /\ At(r, "sol", "reporting")
    /\ MoveOrLeave(r, [r EXCEPT !.pc = "uploading"])
    /\ UNCHANGED <<marketVars, landed, recordVars>>

AttestFirst(r) ==                        \* mutation: attested before it is uploaded
    /\ At(r, "sol", "uploading")
    /\ registry[r.agent].registered
    /\ attested' = attested \cup {r.id}
    /\ Move(r, [r EXCEPT !.pc = "attesting"])
    /\ UNCHANGED <<marketVars, landed, receipts, registered, uploaded, completed>>

\* The indexer may have taken the receipt although its answer is lost.
UploadReceipt(r) ==
    /\ At(r, "sol", "uploading")
    /\ \/ /\ uploaded' = uploaded \cup {r.id}
          /\ MoveOrLeave(r, [r EXCEPT !.pc = "attesting"])
       \/ UNCHANGED uploaded /\ Leave(r)
    /\ UNCHANGED <<marketVars, landed, receipts, registered, attested, completed>>

SubmitAttestationRegardless(r) ==        \* mutation: its error is only reported
    /\ At(r, "sol", "attesting")
    /\ \/ registry[r.agent].registered /\ attested' = attested \cup {r.id}
       \/ UNCHANGED attested
    /\ FullLoop(r)
    /\ UNCHANGED <<marketVars, landed, receipts, registered, uploaded>>

\* submit_attestation needs the RegistryAccount of the agent.
SubmitAttestation(r) ==
    /\ At(r, "sol", "attesting")
    /\ \/ /\ registry[r.agent].registered
          /\ attested' = attested \cup {r.id}
          /\ FullLoop(r) \/ (Leave(r) /\ UNCHANGED completed)
       \/ UNCHANGED <<attested, completed>> /\ Leave(r)
    /\ UNCHANGED <<marketVars, landed, receipts, registered, uploaded>>

SolTransferStep(r) ==
    \/ SolTransferDecision(r) \/ ExecuteSolTransfer(r) \/ RegisterTask(r)
    \/ SolTransferReceipt(r) \/ ReportCompletion(r) \/ UploadReceipt(r)
    \/ SubmitAttestation(r)

-----------------------------------------------------------------------------
(* test-kamino                                                              *)

KaminoDecision(r) ==
    At(r, "kamino", "deciding") /\ Decide(r, {"deposit", "withdraw", "borrow", "repay"})

BuildKaminoTx(r) == At(r, "kamino", "building") /\ Build(r, {1})

SignAndSendTx(r) ==
    /\ At(r, "kamino", "sending")
    /\ SendUnchecked(r, Sent(r))
    /\ UNCHANGED <<marketVars, recordVars>>

KaminoReceipt(r) == At(r, "kamino", "signing") /\ SignAndComplete(r, TRUE)

ShowPosition(r) == At(r, "kamino", "showing") /\ Show(r)

KaminoStep(r) ==
    \/ KaminoDecision(r) \/ BuildKaminoTx(r) \/ SignAndSendTx(r)
    \/ KaminoReceipt(r) \/ ShowPosition(r)

-----------------------------------------------------------------------------
(* test-raydium                                                             *)

RaydiumDecision(r) ==
    At(r, "raydium", "deciding") /\ Decide(r, {"swap", "add", "remove"})

\* The trade API may answer with any list of transactions for a swap, an empty
\* one too; the liquidity operations are one transaction.
BuildRaydiumTx(r) ==
    /\ At(r, "raydium", "building")
    /\ Build(r, IF r.op = "swap" THEN 0..MaxTxs ELSE {1})

SwapViaTradeApi(r) ==
    /\ At(r, "raydium", "sending") /\ r.op = "swap"
    /\ SendUnchecked(r, Sent(r))
    /\ UNCHANGED <<marketVars, recordVars>>

AddLiquidityCpmm(r) ==
    /\ At(r, "raydium", "sending") /\ r.op = "add"
    /\ SendAndConfirm(r, Sent(r), TRUE, TRUE)
    /\ UNCHANGED <<marketVars, recordVars>>

RemoveLiquidityCpmm(r) ==
    /\ At(r, "raydium", "sending") /\ r.op = "remove"
    /\ SendAndConfirm(r, Sent(r), TRUE, TRUE)
    /\ UNCHANGED <<marketVars, recordVars>>

\* main passes the list of signatures under a name buildReceipt does not read.
RaydiumReceipt(r) == At(r, "raydium", "signing") /\ SignAndComplete(r, FALSE)

ShowPool(r) == At(r, "raydium", "showing") /\ Show(r)

RaydiumStep(r) ==
    \/ RaydiumDecision(r) \/ BuildRaydiumTx(r) \/ SwapViaTradeApi(r)
    \/ AddLiquidityCpmm(r) \/ RemoveLiquidityCpmm(r) \/ RaydiumReceipt(r) \/ ShowPool(r)

-----------------------------------------------------------------------------
(* test-meteora                                                             *)

MeteoraDecision(r) ==
    At(r, "meteora", "deciding") /\ Decide(r, {"add", "remove", "swap", "collect"})

\* A new position, under a keypair generated for it.
AddLiquidity(r) ==
    /\ At(r, "meteora", "building") /\ r.op = "add"
    /\ SendAndConfirm(r, [r EXCEPT !.txs = 1, !.sent = 1, !.pc = "signing"],
                      positions' = [positions EXCEPT ![r.agent] = @ \cup {r.id}],
                      UNCHANGED positions)
    /\ UNCHANGED <<curve, trades, fills, recordVars>>

\* removeLiquidity and collectFees work on the first position they are given,
\* and throw where there is none; what the SDK returns may be no transaction.
ReadPosition(r) ==
    /\ At(r, "meteora", "building") /\ r.op \in {"remove", "collect"}
    /\ \/ \E p \in positions[r.agent], n \in 0..MaxTxs :
            Move(r, Loop([r EXCEPT !.position = p], n))
       \/ Leave(r)
    /\ UNCHANGED <<marketVars, landed, recordVars>>

\* All of the liquidity, and the last transaction closes the position, or a part
\* of it.  A transaction on a position another script has closed fails.
RemoveLiquidity(r) ==
    /\ At(r, "meteora", "sending") /\ r.op = "remove"
    /\ SendAndConfirm(r, Sent(r),
         /\ r.position \in positions[r.agent]
         /\ \/ UNCHANGED positions
            \/ /\ r.sent + 1 = r.txs
               /\ positions' = [positions EXCEPT ![r.agent] = @ \ {r.position}],
         UNCHANGED positions)
    /\ UNCHANGED <<curve, trades, fills, recordVars>>

CollectFees(r) ==
    /\ At(r, "meteora", "sending") /\ r.op = "collect"
    /\ SendAndConfirm(r, Sent(r), r.position \in positions[r.agent], TRUE)
    /\ UNCHANGED <<marketVars, recordVars>>

\* The quote bounds what the swap must give; the pool holds it to that.
SwapTokens(r) ==
    /\ At(r, "meteora", "building") /\ r.op = "swap"
    /\ SendAndConfirm(r, [r EXCEPT !.txs = 1, !.sent = 1, !.pc = "signing"], TRUE, TRUE)
    /\ UNCHANGED <<marketVars, recordVars>>

\* As in test-raydium.
MeteoraReceipt(r) == At(r, "meteora", "signing") /\ SignAndComplete(r, FALSE)

ShowMeteora(r) == At(r, "meteora", "showing") /\ Show(r)

MeteoraStep(r) ==
    \/ MeteoraDecision(r) \/ AddLiquidity(r) \/ ReadPosition(r) \/ RemoveLiquidity(r)
    \/ CollectFees(r) \/ SwapTokens(r) \/ MeteoraReceipt(r) \/ ShowMeteora(r)

-----------------------------------------------------------------------------
(* test-pumpfun                                                             *)

Least(m, n) == IF m < n THEN m ELSE n

\* What the fee leaves of an amount of SOL.
NetOfFee(solIn) == (solIn * 10000) \div 10100

CalcBuyTokens(s, solIn) ==
    Least((NetOfFee(solIn) * s.virtualTokenReserves)
            \div (s.virtualSolReserves + NetOfFee(solIn)),
          s.realTokenReserves)

CalcSellSolAtSpot(s, tokensIn) ==        \* mutation: at the price before the sale
    Least((((tokensIn * s.virtualSolReserves) \div s.virtualTokenReserves) * 9900)
            \div 10000, s.realSolReserves)

\* What a sale takes from the curve, the fee included.
GrossSol(s, tokensIn) ==
    Least((tokensIn * s.virtualSolReserves) \div (s.virtualTokenReserves + tokensIn),
          s.realSolReserves)

CalcSellSol(s, tokensIn) ==
    LET gross == (tokensIn * s.virtualSolReserves) \div (s.virtualTokenReserves + tokensIn)
    IN  Least((gross * 9900) \div 10000, s.realSolReserves)

Quote(s, op, n) == IF op = "buy" THEN CalcBuyTokens(s, n) ELSE CalcSellSol(s, n)

MinOutOfNothing(expected) == 0           \* mutation: any price will do

MinOut(expected) == expected - (expected * SlippageBps) \div 10000

\* The curve after a trade, as the program of PumpFun changes it.
Traded(s, op, n) ==
    LET dToken == IF op = "buy" THEN 0 - CalcBuyTokens(s, n) ELSE n
        dSol   == IF op = "buy" THEN NetOfFee(n) ELSE 0 - GrossSol(s, n)
    IN  [virtualTokenReserves |-> s.virtualTokenReserves + dToken,
         virtualSolReserves   |-> s.virtualSolReserves + dSol,
         realTokenReserves    |-> s.realTokenReserves + dToken,
         realSolReserves      |-> s.realSolReserves + dSol,
         complete             |-> s.realTokenReserves + dToken <= 0]

OrderAmounts(op) == IF op = "buy" THEN SolAmounts ELSE TokenAmounts

\* Anyone may trade on the curve.
OthersTrade ==
    /\ trades < MaxTrades /\ ~curve.complete
    /\ trades' = trades + 1
    /\ \E op \in {"buy", "sell"} : \E n \in OrderAmounts(op) : curve' = Traded(curve, op, n)
    /\ UNCHANGED <<runs, started, positions, fills, landed, recordVars>>

PumpFunDecision(r) == At(r, "pumpfun", "deciding") /\ Decide(r, {"buy", "sell"})

\* buyTokens and sellTokens read the curve and quote on it.
QuotePumpFun(r, op) ==
    /\ At(r, "pumpfun", "building") /\ r.op = op
    /\ \/ /\ ~curve.complete
          /\ \E n \in OrderAmounts(op) :
               Move(r, [r EXCEPT !.amount = n, !.quoted = Quote(curve, op, n),
                                 !.minOut = MinOut(Quote(curve, op, n)),
                                 !.txs = 1, !.pc = "sending"])
       \/ Leave(r)
    /\ UNCHANGED <<marketVars, landed, recordVars>>

\* The program trades at the curve it finds, for minOut at least.
Trade(r, op) ==
    /\ At(r, "pumpfun", "sending") /\ r.op = op
    /\ SendAndConfirm(r, Sent(r),
         /\ ~curve.complete
         /\ Quote(curve, op, r.amount) >= r.minOut
         /\ curve' = Traded(curve, op, r.amount)
         /\ fills' = fills \cup {[run |-> r.id, quoted |-> r.quoted,
                                  received |-> Quote(curve, op, r.amount)]},
         UNCHANGED <<curve, fills>>)
    /\ UNCHANGED <<trades, positions, recordVars>>

BuyTokens(r) == QuotePumpFun(r, "buy") \/ Trade(r, "buy")

SellTokens(r) == QuotePumpFun(r, "sell") \/ Trade(r, "sell")

PumpFunReceipt(r) == At(r, "pumpfun", "signing") /\ SignAndComplete(r, TRUE)

ShowCurve(r) == At(r, "pumpfun", "showing") /\ Show(r)

PumpFunStep(r) ==
    \/ PumpFunDecision(r) \/ BuyTokens(r) \/ SellTokens(r) \/ PumpFunReceipt(r)
    \/ ShowCurve(r)

-----------------------------------------------------------------------------
(* test-jupiter                                                             *)

\* The words of the instruction choose between the three; the model parses
\* swaps and limit orders.
JupiterDecision(r) == At(r, "jupiter", "deciding") /\ Decide(r, {"swap", "limit", "dca"})

\* Order and execution of a swap: any status but Success is an error.
ExecuteSwap(r) ==
    /\ At(r, "jupiter", "building") /\ r.op = "swap"
    /\ SendAndConfirm(r, [r EXCEPT !.txs = 1, !.sent = 1, !.pc = "signing"], TRUE, TRUE)
    /\ UNCHANGED <<marketVars, recordVars>>

CreateDCAOrder(r) ==
    /\ At(r, "jupiter", "building") /\ r.op = "dca"
    /\ SendAndConfirm(r, [r EXCEPT !.txs = 1, !.sent = 1, !.pc = "signing"], TRUE, TRUE)
    /\ UNCHANGED <<marketVars, recordVars>>

\* A limit order needs the JWT of a signed challenge.
GetJupiterJwt(r) ==
    /\ At(r, "jupiter", "building") /\ r.op = "limit"
    /\ MoveOrLeave(r, [r EXCEPT !.pc = "authorising"])
    /\ UNCHANGED <<marketVars, landed, recordVars>>

\* The deposit is crafted and signed, and sent with the order; the script ends
\* without a receipt.
CreateLimitOrder(r) ==
    /\ At(r, "jupiter", "authorising")
    /\ SendAndConfirm(r, r, TRUE, TRUE) /\ Leave(r)
    /\ UNCHANGED <<marketVars, recordVars>>

\* Only a swap ends with the summary.
JupiterReceipt(r) ==
    /\ At(r, "jupiter", "signing")
    /\ \/ r.op = "swap" /\ SignAndComplete(r, TRUE)
       \/ r.op = "dca" /\ Sign(r, TRUE) /\ Leave(r) /\ UNCHANGED completed

JupiterStep(r) ==
    \/ JupiterDecision(r) \/ ExecuteSwap(r) \/ CreateDCAOrder(r) \/ GetJupiterJwt(r)
    \/ CreateLimitOrder(r) \/ JupiterReceipt(r) \/ (At(r, "jupiter", "showing") /\ Show(r))

-----------------------------------------------------------------------------
(* test-pyth                                                                *)

ParsePythCommand(r) == At(r, "pyth", "deciding") /\ Decide(r, {"price"})

\* No transaction: prices, or the list of symbols, or an error.
ExecutePythDecision(r) ==
    /\ At(r, "pyth", "building")
    /\ MoveOrLeave(r, [r EXCEPT !.pc = "signing"])
    /\ UNCHANGED <<marketVars, landed, recordVars>>

SignOutput(r) == At(r, "pyth", "signing") /\ SignAndComplete(r, FALSE)

PythStep(r) ==
    \/ ParsePythCommand(r) \/ ExecutePythDecision(r) \/ SignOutput(r)
    \/ (At(r, "pyth", "showing") /\ Show(r))

-----------------------------------------------------------------------------

\* The operator interrupts the script, or its process dies.
Kill(r) ==
    /\ r \in runs /\ Leave(r)
    /\ UNCHANGED <<marketVars, landed, recordVars>>

ScriptStep(r) ==
    \/ SolTransferStep(r) \/ KaminoStep(r) \/ RaydiumStep(r) \/ MeteoraStep(r)
    \/ PumpFunStep(r) \/ JupiterStep(r) \/ PythStep(r) \/ Kill(r)

Next ==
    /\ StartScript \/ OthersTrade \/ \E r \in runs : ScriptStep(r)
    /\ UNCHANGED <<keypairs, generated, registry>>

-----------------------------------------------------------------------------
(* Properties                                                               *)

Landed(id) == {t \in landed : t.run = id}

\* However a transfer script stops, and whatever answer it misses, its records
\* are made in order: an attestation has a receipt at the API, and a receipt
\* there was signed for a task on the chain and a transfer that succeeded.
RecordsInOrder ==
    /\ attested \subseteq uploaded
    /\ uploaded \subseteq registered
    /\ \A id \in uploaded :
         (\E p \in receipts : p.run = id) /\ (\E t \in Landed(id) : t.ok)

\* All but test-kamino and the swap of test-raydium throw on the error of a
\* transaction.
LooksAtErrors(c) == c.tool # "kamino" /\ ~(c.tool = "raydium" /\ c.op = "swap")

\* "Full loop complete!" follows a signed receipt and each transaction that was
\* built for the operation, none of them failed where errors are looked at, and
\* the attestation of a transfer.  That the operation was executed it does not
\* follow: see ExecutedIsTrue.
FullLoopIsTrue ==
    \A c \in completed :
      /\ \E p \in receipts : p.run = c.id
      /\ {t.n : t \in Landed(c.id)} = 1..c.txs
      /\ LooksAtErrors(c) => \A t \in Landed(c.id) : t.ok
      /\ c.tool = "sol" => c.id \in attested

\* Between quote and trade the curve may move: a buyer never gets less tokens,
\* a seller never less SOL, than the quote less the slippage.
SlippageIsBounded ==
    \A f \in fills : f.received * 10000 >= f.quoted * (10000 - SlippageBps)

\* A quote to sell what a quote to buy has promised never exceeds the price:
\* the roundings and fees of the two formulas favour the curve.
RoundTripCosts ==
    \A n \in SolAmounts :
      CalcSellSol(Traded(curve, "buy", n), CalcBuyTokens(curve, n)) <= n

-----------------------------------------------------------------------------
(* Properties a comment or a message states, and the code breaks            *)

\* "Must be called before the task is executed so challenges can be filed
\* later": what was transferred has a task.  test-sol-transfer registers it
\* after the transfer.
TaskBeforeExecution ==
    \A t \in landed, c \in completed \cup runs :
      c.tool = "sol" /\ t.run = c.id /\ t.ok => t.run \in registered

\* "executed": an operation whose summary says so had a transaction, and none
\* that failed.  A list of no transactions is looped over as well, and the error
\* of a confirmation is not looked at by test-kamino and the swap of test-raydium.
ExecutedIsTrue ==
    \A c \in completed :
      c.tool # "pyth" => Landed(c.id) # {} /\ \A t \in Landed(c.id) : t.ok

=============================================================================
