-------------------------------- MODULE Client --------------------------------
(***************************************************************************)
(* The web client: one wallet, and the page the browser has opened.  The   *)
(* pages share nothing but the wallet, whose every change runs the effects *)
(* of the page, so a behaviour stays on one page.                          *)
(***************************************************************************)
EXTENDS Browsing

CONSTANTS
    Templates, MaxAgents, MaxClicks,              \* of Registration
    Attestations, WithFund, MaxFilings, MaxPending,   \* of Challenging
    MaxNonces                                     \* of Session

CONSTANT Pages           \* pages a behaviour may open

ASSUME ClientAssumption ==
    /\ MaxAgents \in Nat /\ MaxClicks \in Nat /\ MaxFilings \in Nat
    /\ MaxPending \in Nat /\ MaxNonces \in Nat
    /\ None \notin Attestations

VARIABLES
    page,                                         \* the page that is open
    mounted, token, stored, auth,                 \* Session
    challenges, asked, expired, spent, issued, sent,
    form, jobs, clicks, registry, funds, pinned,  \* Registration
    selected, receipt, fetches, challengeStep,    \* Challenging
    filings, begun, pending, requests, tick,
    challenger, indexed, decided

S == INSTANCE Session
R == INSTANCE Registration
C == INSTANCE Challenging WITH MaxRequests <- MaxPending

sessionVars == <<mounted, token, stored, auth,
                 challenges, asked, expired, spent, issued, sent>>
registrationVars == <<form, jobs, clicks, registry, funds, pinned>>
challengingVars == <<selected, receipt, fetches, challengeStep, filings, begun,
                     pending, requests, tick, challenger, indexed, decided>>

clientVars == <<wallet, page, sessionVars, registrationVars, challengingVars, browsingVars>>

ClientTypeOK ==
    /\ page \in Pages
    /\ S!TypeOK /\ R!TypeOK /\ C!TypeOK /\ TypeOK

ClientInit ==
    /\ page \in Pages
    /\ S!Init /\ R!Init /\ C!Init /\ Init

SessionStep ==
    /\ page = "session" /\ S!Next
    /\ UNCHANGED <<registrationVars, challengingVars, browsingVars>>

RegistrationStep ==
    /\ page = "register" /\ R!Next
    /\ UNCHANGED <<sessionVars, challengingVars, browsingVars>>

ChallengingStep ==
    /\ page = "challenge" /\ C!Next
    /\ UNCHANGED <<sessionVars, registrationVars, browsingVars>>

BrowsingStep ==
    /\ UNCHANGED wallet /\ NextOf(page)
    /\ UNCHANGED <<sessionVars, registrationVars, challengingVars>>

\* The wallet is changed while one of the browsing pages is open.
BrowsingWallet ==
    /\ \E w \in (Wallets \cup {None}) \ {wallet} : wallet' = w
    /\ OnWalletOf(page)
    /\ UNCHANGED <<sessionVars, registrationVars, challengingVars>>

ClientNext ==
    /\ UNCHANGED page
    /\ \/ SessionStep \/ RegistrationStep \/ ChallengingStep
       \/ BrowsingStep \/ BrowsingWallet

ClientSpec == ClientInit /\ [][ClientNext]_clientVars /\ Fairness

-----------------------------------------------------------------------------
(* Properties: those of the pages, under the names of the runs              *)

\* See Session: a spent nonce never gives a token.
SpentNonceIsRefused == S!SpentNonceIsRefused

\* See Registration: what the page declares registered is.
SuccessIsComplete == R!SuccessIsComplete

\* See Registration: the wallet never has two transactions of register to sign.
OneRegistrationAtATime == R!OneRegistrationAtATime

\* See Challenging: a challenge names the task of its attestation.
ChallengeNamesItsTask == C!ChallengeNamesItsTask

\* See Challenging: pending challenges are those of the wallet.
PendingIsOfWallet == C!PendingIsOfWallet

\* "Lock capability template on-chain (immutable)": see Registration.
HashIsOfManifest == R!HashIsOfManifest

\* "skipped on retry if already succeeded": see Registration.
LoadingHasWork == R!LoadingHasWork

\* "Reset challenge state when attestation changes": see Challenging.
OutcomeIsOfAttestation == C!OutcomeIsOfAttestation

\* "Auto-logout when wallet disconnects": see Session.
LoggedOutWithoutWallet == S!LoggedOutWithoutWallet

=============================================================================
