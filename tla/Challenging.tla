----------------------------- MODULE Challenging -----------------------------
(***************************************************************************)
(* Challenging an attestation in the browser: AttestationDetailsModal, the *)
(* PendingChallengesContext it asks, and the chain and API behind them.    *)
(*                                                                         *)
(* An attestation, its receipt and the task of the receipt have one name.  *)
(* Requests and filings are answered in any order, or fail.                *)
(***************************************************************************)
EXTENDS Integers

CONSTANTS
    Wallets,             \* challengers
    None,                \* no wallet, no attestation
    Attestations,        \* those of the list
    WithFund,            \* wallets that have a fund for the agent of an attestation
    MaxFilings,          \* bound: filings begun
    MaxRequests          \* bound: requests for the pending challenges

VARIABLES
    wallet,              \* the connected account
    selected,            \* the attestation the modal shows
    receipt,             \* the attestation whose receipt it shows
    fetches,             \* requests for receipts under way
    challengeStep,       \* what the form shows
    filings,             \* calls of handleFileChallenge in progress
    begun,               \* filings so far
    pending,             \* challenges of PendingChallengesContext
    requests,            \* requests for them under way
    tick,                \* requests so far
    challenger,          \* chain: task -> who has challenged it
    indexed,             \* API: tasks whose challenge it has heard of
    decided              \* API: those it lists no more

modalVars == <<selected, receipt, fetches, challengeStep, filings, begun>>
pendingVars == <<pending, requests, tick>>
worldVars == <<challenger, indexed, decided>>
challengingVars == <<modalVars, pendingVars, worldVars>>

Filing ==
    [pc : {"sign", "send", "confirm"}, id : 1..MaxFilings,
     wallet : Wallets, attestation : Attestations, task : Attestations]

TypeOK ==
    /\ wallet \in Wallets \cup {None}
    /\ selected \in Attestations \cup {None} /\ receipt \in Attestations \cup {None}
    /\ fetches \in SUBSET [of : Attestations, cancelled : BOOLEAN]
    /\ challengeStep \in {"idle", "confirming", "signing", "submitting", "success", "error"}
    /\ filings \in SUBSET Filing /\ begun \in 0..MaxFilings
    /\ pending \in SUBSET Attestations
    /\ requests \in SUBSET [of : Wallets, cancelled : BOOLEAN, id : 1..MaxRequests]
    /\ tick \in 0..MaxRequests
    /\ challenger \in [Attestations -> Wallets \cup {None}]
    /\ indexed \in SUBSET Attestations /\ decided \in SUBSET indexed

Init ==
    /\ wallet = None
    /\ selected = None /\ receipt = None /\ fetches = {}
    /\ challengeStep = "idle" /\ filings = {} /\ begun = 0
    /\ pending = {} /\ requests = {} /\ tick = 0
    /\ challenger = [t \in Attestations |-> None]
    /\ indexed = {} /\ decided = {}

-----------------------------------------------------------------------------
(* PendingChallengesProvider                                                *)

CancelNone(set) == set                   \* mutation: the clean-up sets no flag

\* The clean-up of an effect.
Cancelled(set) == {[r EXCEPT !.cancelled = TRUE] : r \in set}

RefetchUncancelled(w) ==                 \* mutation: no clean-up between two effects
    /\ tick < MaxRequests
    /\ tick' = tick + 1
    /\ pending' = IF w = None THEN {} ELSE pending
    /\ requests' = IF w = None THEN requests
                   ELSE requests \cup {[of |-> w, cancelled |-> FALSE, id |-> tick']}

\* The effect on the wallet and the tick, for the wallet w.
Refetch(w) ==
    /\ tick < MaxRequests
    /\ tick' = tick + 1
    /\ IF w = None
       THEN pending' = {} /\ requests' = Cancelled(requests)
       ELSE /\ requests' = Cancelled(requests) \cup
                           {[of |-> w, cancelled |-> FALSE, id |-> tick']}
            /\ UNCHANGED pending

\* What GET /challenges answers for requester = w and unresolved = true.
UnresolvedOf(w) == {t \in indexed \ decided : challenger[t] = w}

PendingAnswer ==
    /\ \E r \in requests :
         /\ requests' = requests \ {r}
         /\ pending' = IF r.cancelled THEN pending ELSE UnresolvedOf(r.of)
    /\ UNCHANGED <<wallet, modalVars, tick, worldVars>>

PendingFail ==
    /\ \E r \in requests :
         /\ requests' = requests \ {r}
         /\ pending' = IF r.cancelled THEN pending ELSE {}
    /\ UNCHANGED <<wallet, modalVars, tick, worldVars>>

\* The effect on the wallet.
OnWallet ==
    /\ Refetch(wallet')
    /\ UNCHANGED <<modalVars, worldVars>>

ChangeWallet ==
    /\ \E w \in (Wallets \cup {None}) \ {wallet} : wallet' = w
    /\ OnWallet

-----------------------------------------------------------------------------
(* The modal                                                                *)

\* A row is clicked.  The effects fetch the receipt and reset the form.
Open ==
    /\ selected = None
    /\ \E a \in Attestations :
         /\ selected' = a
         /\ fetches' = fetches \cup {[of |-> a, cancelled |-> FALSE]}
    /\ challengeStep' = "idle"
    /\ UNCHANGED <<wallet, receipt, filings, begun, pendingVars, worldVars>>

Close ==
    /\ selected # None
    /\ selected' = None
    /\ receipt' = None
    /\ fetches' = Cancelled(fetches)
    /\ challengeStep' = "idle"
    /\ UNCHANGED <<wallet, filings, begun, pendingVars, worldVars>>

ReceiptAnswer ==
    /\ \E f \in fetches :
         /\ fetches' = fetches \ {f}
         /\ receipt' = IF f.cancelled THEN receipt ELSE f.of
    /\ UNCHANGED <<wallet, selected, challengeStep, filings, begun, pendingVars, worldVars>>

ReceiptFail ==
    /\ \E f \in fetches :
         /\ fetches' = fetches \ {f}
         /\ receipt' = IF f.cancelled THEN receipt ELSE None
    /\ UNCHANGED <<wallet, selected, challengeStep, filings, begun, pendingVars, worldVars>>

\* canChallenge: the receipt shown has a task, and the connected wallet no
\* pending challenge of it.
CanChallenge ==
    /\ selected # None /\ wallet # None /\ receipt # None
    /\ receipt \notin pending
    /\ challengeStep = "idle"

Ask ==
    /\ CanChallenge
    /\ challengeStep' = "confirming"
    /\ UNCHANGED <<wallet, selected, receipt, fetches, filings, begun, pendingVars, worldVars>>

\* "Cancel", and "Try Again" after an error.
BackToIdle ==
    /\ selected # None /\ challengeStep \in {"confirming", "error"}
    /\ challengeStep' = "idle"
    /\ UNCHANGED <<wallet, selected, receipt, fetches, filings, begun, pendingVars, worldVars>>

-----------------------------------------------------------------------------
(* handleFileChallenge                                                      *)

\* "Confirm" files for the attestation, the task and the wallet of its render.
Confirm ==
    /\ selected # None /\ challengeStep = "confirming" /\ wallet # None
    /\ begun < MaxFilings
    /\ begun' = begun + 1
    /\ challengeStep' = "signing"
    /\ filings' = filings \cup
         {[pc |-> "sign", id |-> begun', wallet |-> wallet,
           attestation |-> selected, task |-> receipt]}
    /\ UNCHANGED <<wallet, selected, receipt, fetches, pendingVars, worldVars>>

At(f, pc) == f \in filings /\ f.pc = pc

Goto(f, pc) == filings' = (filings \ {f}) \cup {[f EXCEPT !.pc = pc]}

\* The transaction is built, and the wallet signs it.
Sign(f) ==
    /\ At(f, "sign") /\ wallet = f.wallet
    /\ challengeStep' = "submitting"
    /\ Goto(f, "send")
    /\ UNCHANGED <<wallet, selected, receipt, fetches, begun, pendingVars, worldVars>>

\* file_challenge lands: the task is the agent's, nobody has challenged it, and the
\* fund exists, which is derived with the challenger as the operator.
Land(f) ==
    /\ At(f, "send")
    /\ challenger[f.task] = None /\ f.task = f.attestation
    /\ <<f.wallet, f.attestation>> \in WithFund
    /\ challenger' = [challenger EXCEPT ![f.task] = f.wallet]
    /\ Goto(f, "confirm")
    /\ UNCHANGED <<wallet, selected, receipt, fetches, challengeStep, begun,
                   pendingVars, indexed, decided>>

\* It is refused after it was sent; confirmTransaction tells, and nobody asks.
Refuse(f) ==
    /\ At(f, "send")
    /\ Goto(f, "confirm")
    /\ UNCHANGED <<wallet, selected, receipt, fetches, challengeStep, begun,
                   pendingVars, worldVars>>

\* The call ends: success, and the pending challenges are asked for again.
Confirmed(f) ==
    /\ At(f, "confirm")
    /\ challengeStep' = "success"
    /\ filings' = filings \ {f}
    /\ Refetch(wallet)
    /\ UNCHANGED <<wallet, selected, receipt, fetches, begun, worldVars>>

FileFail(f) ==
    /\ f \in filings
    /\ challengeStep' = "error"
    /\ filings' = filings \ {f}
    /\ UNCHANGED <<wallet, selected, receipt, fetches, begun, pendingVars, worldVars>>

\* The API hears of a challenge, and of its verdict.
Index ==
    /\ \E t \in Attestations :
         \/ /\ challenger[t] # None /\ t \notin indexed
            /\ indexed' = indexed \cup {t} /\ UNCHANGED decided
         \/ /\ t \in indexed \ decided
            /\ decided' = decided \cup {t} /\ UNCHANGED indexed
    /\ UNCHANGED <<wallet, modalVars, pendingVars, challenger>>

FilingStep(f) == Sign(f) \/ Land(f) \/ Refuse(f) \/ Confirmed(f) \/ FileFail(f)

Next ==
    \/ Open \/ Close \/ ReceiptAnswer \/ ReceiptFail
    \/ Ask \/ BackToIdle \/ Confirm
    \/ \E f \in filings : FilingStep(f)
    \/ PendingAnswer \/ PendingFail \/ ChangeWallet \/ Index

-----------------------------------------------------------------------------
(* Properties that hold                                                     *)

\* Answers come in any order, also for a modal that was closed and a wallet
\* that was left.  A challenge that is sent names the task of the attestation
\* it was asked for, and a confirmation never shows another one.
ChallengeNamesItsTask ==
    /\ receipt \in {None, selected}
    /\ \A f \in filings : f.task = f.attestation

\* The pending challenges are those of the connected wallet once nothing is
\* being asked, and never those of a task nobody has challenged.
PendingIsOfWallet ==
    /\ \A t \in pending : challenger[t] # None
    /\ (\A r \in requests : r.cancelled) => \A t \in pending : challenger[t] = wallet

-----------------------------------------------------------------------------
(* Properties a comment states, and the code breaks                         *)

\* "Reset challenge state when attestation changes": the form shows the outcome
\* of a filing for the attestation it shows.
OutcomeIsOfAttestation ==
    challengeStep = "success" /\ selected # None => challenger[selected] # None

=============================================================================
