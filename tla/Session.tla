------------------------------- MODULE Session -------------------------------
(***************************************************************************)
(* Signing in: the AuthContext and the WalletButton of one browser tab, and *)
(* the AuthService of the API that gives it a nonce to sign and a token for *)
(* the signature.  A nonce is a number, a token is told by its wallet.      *)
(***************************************************************************)
EXTENDS Integers

CONSTANTS
    Wallets,             \* accounts of the wallet extension
    None,                \* no wallet, no token
    MaxNonces            \* bound: challenges the API hands out

VARIABLES
    wallet,              \* the connected account
    mounted,             \* the effects of the mount have run
    token,               \* state of AuthProvider
    stored,              \* dolores_auth_token in localStorage
    auth,                \* the run of authenticate that is in progress
    challenges,          \* AuthService: wallet -> its outstanding nonce, or 0
    asked,               \* the last nonce handed out
    expired,             \* nonces older than five minutes
    spent,               \* history: nonces replaced, expired or used
    issued,              \* history: tokens issued for a nonce
    sent                 \* requests of /auth/verify there have been

tabVars == <<mounted, token, stored, auth>>
serverVars == <<challenges, asked, expired, spent, issued, sent>>

Nonces == 1..MaxNonces

\* wallet is the one authenticate was called with, signer the account that
\* signed; for is the wallet of the token in the answer.
Authentication ==
    [pc : {"idle", "challenge", "sign", "verify", "answer"},
     wallet : Wallets \cup {None}, nonce : 0..MaxNonces,
     signer : Wallets \cup {None}, for : Wallets \cup {None}]

\* The body of such a request: a signed message names its wallet and its nonce.
Request == [wallet : Wallets, nonce : Nonces, signer : Wallets]

Idle == [pc |-> "idle", wallet |-> None, nonce |-> 0, signer |-> None, for |-> None]

TypeOK ==
    /\ wallet \in Wallets \cup {None}
    /\ mounted \in BOOLEAN
    /\ token \in Wallets \cup {None} /\ stored \in Wallets \cup {None}
    /\ auth \in Authentication
    /\ challenges \in [Wallets -> 0..MaxNonces]
    /\ asked \in 0..MaxNonces
    /\ expired \in SUBSET Nonces /\ spent \in SUBSET Nonces
    /\ issued \in [Nonces -> Nat]
    /\ sent \in SUBSET Request

Init ==
    /\ wallet = None /\ mounted = FALSE
    /\ token = None /\ stored = None
    /\ auth = Idle
    /\ challenges = [w \in Wallets |-> 0]
    /\ asked = 0
    /\ expired = {} /\ spent = {}
    /\ issued = [n \in Nonces |-> 0]
    /\ sent = {}

-----------------------------------------------------------------------------
(* AuthService                                                              *)

Discarded(w) == {challenges[w]} \ {0}

\* generateChallenge drops what has expired and replaces what the wallet had.
GenerateChallenge(w) ==
    /\ asked < MaxNonces
    /\ asked' = asked + 1
    /\ challenges' = [v \in Wallets |->
         IF v = w THEN asked' ELSE IF challenges[v] \in expired THEN 0 ELSE challenges[v]]
    /\ spent' = spent \cup Discarded(w)
    /\ UNCHANGED <<expired, issued, sent>>

ChallengeFresh(c) == c # 0 /\ c \notin expired

\* What verifyAndIssueToken asks for: a challenge that is fresh, its nonce in
\* the message, and the signature of the wallet.
Accept(w, nonce, signer) ==
    /\ ChallengeFresh(challenges[w])
    /\ nonce = challenges[w]
    /\ signer = w

DeletedIfExpired(w, ok) == challenges[w] \in expired    \* mutation: a used one stays

\* The challenge is gone once it is used, or found to have expired.
Deleted(w, ok) == ok \/ challenges[w] \in expired

VerifyAndIssueToken(w, nonce, signer) ==
    /\ LET ok == Accept(w, nonce, signer)
       IN  /\ challenges' = [challenges EXCEPT ![w] = IF Deleted(w, ok) THEN 0 ELSE @]
           /\ issued' = [issued EXCEPT ![nonce] = IF ok THEN @ + 1 ELSE @]
           /\ spent' = spent \cup {n \in Discarded(w) : ok}
    /\ sent' = sent \cup {[wallet |-> w, nonce |-> nonce, signer |-> signer]}
    /\ UNCHANGED <<asked, expired>>

\* Five minutes pass for the challenge n.
Expire ==
    /\ \E w \in Wallets : \E n \in Discarded(w) \ expired :
         /\ expired' = expired \cup {n}
         /\ spent' = spent \cup {n}
    /\ UNCHANGED <<wallet, tabVars, challenges, asked, issued, sent>>

\* Another tab or browser asks for a challenge of the wallet.
AskElsewhere ==
    /\ \E w \in Wallets : GenerateChallenge(w)
    /\ UNCHANGED <<wallet, tabVars>>

\* A request of /auth/verify that was there before arrives once more: its answer
\* was lost, or somebody sends the message again while it may still be good.
Resend ==
    /\ \E q \in sent : VerifyAndIssueToken(q.wallet, q.nonce, q.signer)
    /\ UNCHANGED <<wallet, tabVars>>

-----------------------------------------------------------------------------
(* AuthProvider                                                             *)

Logout == token' = None /\ stored' = None

\* The effects of the mount: the stored token is loaded, and the one that logs
\* out without a wallet runs after it; the wallet connects later.
Mount ==
    /\ ~mounted
    /\ mounted' = TRUE
    /\ IF wallet = None THEN Logout ELSE token' = stored /\ UNCHANGED stored
    /\ UNCHANGED <<wallet, auth, serverVars>>

\* The page is loaded again: the state of the tab is gone.
Reload ==
    /\ mounted
    /\ mounted' = FALSE /\ token' = None /\ auth' = Idle /\ wallet' = None
    /\ UNCHANGED <<stored, serverVars>>

\* The effect on connected.
OnWallet ==
    /\ IF wallet' = None THEN Logout ELSE UNCHANGED <<token, stored>>
    /\ UNCHANGED <<mounted, auth, serverVars>>

\* The button of a wallet without a token, while no authentication runs.
SignIn ==
    /\ mounted /\ wallet # None /\ token = None
    /\ auth.pc = "idle"
    /\ auth' = [Idle EXCEPT !.pc = "challenge", !.wallet = wallet]
    /\ UNCHANGED <<wallet, mounted, token, stored, serverVars>>

GetChallenge ==
    /\ auth.pc = "challenge"
    /\ GenerateChallenge(auth.wallet)
    /\ auth' = [auth EXCEPT !.pc = "sign", !.nonce = asked']
    /\ UNCHANGED <<wallet, mounted, token, stored>>

\* The extension signs with the account it has by now.
SignMessage ==
    /\ auth.pc = "sign" /\ wallet # None
    /\ auth' = [auth EXCEPT !.pc = "verify", !.signer = wallet]
    /\ UNCHANGED <<wallet, mounted, token, stored, serverVars>>

Verify ==
    /\ auth.pc = "verify"
    /\ VerifyAndIssueToken(auth.wallet, auth.nonce, auth.signer)
    /\ auth' = [auth EXCEPT !.pc = "answer",
                            !.for = IF Accept(auth.wallet, auth.nonce, auth.signer)
                                    THEN auth.wallet ELSE None]
    /\ UNCHANGED <<wallet, mounted, token, stored>>

\* The answer is kept whatever has become of the wallet.
StoreToken ==
    /\ auth.pc = "answer" /\ auth.for # None
    /\ token' = auth.for /\ stored' = auth.for
    /\ auth' = Idle
    /\ UNCHANGED <<wallet, mounted, serverVars>>

\* A request fails or its answer is lost, the user declines, or the API refuses.
AuthenticateFail ==
    /\ auth.pc # "idle"
    /\ Logout
    /\ auth' = Idle
    /\ UNCHANGED <<wallet, mounted, serverVars>>

\* The entry Disconnect of the menu; the effect on connected follows.
Disconnect ==
    /\ mounted /\ wallet # None /\ token # None
    /\ wallet' = None
    /\ Logout
    /\ UNCHANGED <<mounted, auth, serverVars>>

\* The wallet connects by itself, or is changed or disconnected in the
\* extension or in the dialog.
ChangeWallet ==
    /\ mounted
    /\ \E w \in (Wallets \cup {None}) \ {wallet} : wallet' = w
    /\ OnWallet

Next ==
    \/ Mount \/ Reload \/ SignIn \/ GetChallenge \/ SignMessage \/ Verify
    \/ StoreToken \/ AuthenticateFail \/ Disconnect \/ ChangeWallet
    \/ Expire \/ AskElsewhere \/ Resend

Spec == Init /\ [][Next]_<<wallet, tabVars, serverVars>>

-----------------------------------------------------------------------------
(* Properties that hold                                                     *)

\* However sign-ins of several tabs overlap, and whatever message is sent again:
\* a nonce that was replaced by a later one, has expired or has been used gives
\* no token, so none gives two.
SpentNonceIsRefused ==
    [][\A n \in spent : issued'[n] = issued[n]]_<<spent, issued>>

-----------------------------------------------------------------------------
(* Properties a comment states, and the code breaks                         *)

\* "Auto-logout when wallet disconnects": without a wallet there is no token.
LoggedOutWithoutWallet == mounted /\ wallet = None => token = None

=============================================================================
