---------------------------- MODULE ClientProofs ----------------------------
(***************************************************************************)
(* What each page of the web client promises, for any number of wallets,   *)
(* agents, attestations, requests and clicks: the invariant of each page   *)
(* first, then the client, in which one of them is open.                   *)
(***************************************************************************)
EXTENDS Client, TLAPS

-----------------------------------------------------------------------------
(* Session: the inductive invariant                                         *)

\* The run of authenticate is for a wallet once it has begun.
AuthInv ==
    /\ wallet \in Wallets \cup {None}
    /\ auth \in [pc : {"idle", "challenge", "sign", "verify", "answer"},
                 wallet : Wallets \cup {None}, nonce : Nat,
                 signer : Wallets \cup {None}, for : Wallets \cup {None}]
    /\ auth.pc \in {"challenge", "sign", "verify"} => auth.wallet \in Wallets
    /\ \A q \in sent : q.wallet \in Wallets

\* Nonces are handed out in order, so what is spent or expired is no later one.
HandedOut ==
    /\ asked \in 0..MaxNonces
    /\ issued \in [S!Nonces -> Nat]
    /\ challenges \in [Wallets -> Nat]
    /\ \A w \in Wallets : challenges[w] =< asked
    /\ spent \cup expired \subseteq 1..asked

\* A nonce is outstanding for one wallet only: without this, what one wallet
\* spends could still be fresh for another.
OneWallet ==
    \A v, w \in Wallets : v # w /\ challenges[v] # 0 => challenges[v] # challenges[w]

\* What is outstanding and fresh has not been spent.
FreshIsUnspent ==
    \A w \in Wallets : S!ChallengeFresh(challenges[w]) => challenges[w] \notin spent

NonceInv == AuthInv /\ HandedOut /\ OneWallet /\ FreshIsUnspent

-----------------------------------------------------------------------------
(* Session: the service                                                     *)

ServiceInv == HandedOut /\ OneWallet /\ FreshIsUnspent

LEMMA GenerateKeeps ==
    ASSUME NEW w \in Wallets, ServiceInv, S!GenerateChallenge(w)
    PROVE  ServiceInv'
<1>1. \A v \in Wallets :
        challenges'[v] = IF v = w THEN asked + 1
                         ELSE IF challenges[v] \in expired THEN 0 ELSE challenges[v]
  BY DEF S!GenerateChallenge
<1>2. HandedOut'
  BY <1>1, ClientAssumption DEF ServiceInv, HandedOut, S!GenerateChallenge, S!Discarded
<1>3. OneWallet'
  BY <1>1 DEF ServiceInv, HandedOut, OneWallet
<1>4. FreshIsUnspent'
  <2> SUFFICES ASSUME NEW v \in Wallets, S!ChallengeFresh(challenges[v])'
               PROVE  challenges'[v] \notin spent'
    BY DEF FreshIsUnspent
  <2>1. CASE v = w
    BY <1>1, <2>1 DEF ServiceInv, HandedOut, S!GenerateChallenge, S!Discarded
  <2>2. CASE v # w
    BY <1>1, <2>2 DEF ServiceInv, OneWallet, FreshIsUnspent, S!ChallengeFresh,
                      S!GenerateChallenge, S!Discarded
  <2> QED  BY <2>1, <2>2
<1> QED  BY <1>2, <1>3, <1>4 DEF ServiceInv

LEMMA VerifyKeeps ==
    ASSUME NEW w \in Wallets, NEW nonce, NEW signer,
           ServiceInv, S!VerifyAndIssueToken(w, nonce, signer)
    PROVE  /\ ServiceInv'
           /\ \A n \in spent : issued'[n] = issued[n]
<1>1. \A v \in Wallets : challenges'[v] = challenges[v] \/ challenges'[v] = 0
  BY DEF S!VerifyAndIssueToken, S!Deleted, ServiceInv, HandedOut
<1>2. \A n \in spent' \ spent :
        n = challenges[w] /\ challenges'[w] = 0
  BY DEF S!VerifyAndIssueToken, S!Deleted, ServiceInv, HandedOut, S!Discarded
<1>3. asked' = asked /\ expired' = expired
  BY DEF S!VerifyAndIssueToken
<1>4. HandedOut'
  <2>1. challenges' \in [Wallets -> Nat]
    BY DEF S!VerifyAndIssueToken, S!Deleted, ServiceInv, HandedOut
  <2>2. issued' \in [S!Nonces -> Nat]
    <3>1. issued \in [S!Nonces -> Nat]
      BY DEF ServiceInv, HandedOut
    <3>2. issued' = [issued EXCEPT ![nonce] = issued[nonce] + 1] \/ issued' = issued
      <4>1. CASE S!Accept(w, nonce, signer)
        BY <4>1 DEF S!VerifyAndIssueToken
      <4>2. CASE ~S!Accept(w, nonce, signer)
        BY <3>1, <4>2 DEF S!VerifyAndIssueToken
      <4> QED  BY <4>1, <4>2
    <3> QED  BY <3>1, <3>2
  <2>3. spent' \subseteq 1..asked
    BY DEF S!VerifyAndIssueToken, ServiceInv, HandedOut, S!Discarded
  <2>4. \A v \in Wallets : challenges'[v] =< asked
    BY <1>1, ClientAssumption DEF ServiceInv, HandedOut
  <2> QED  BY <1>3, <2>1, <2>2, <2>3, <2>4 DEF ServiceInv, HandedOut
<1>5. OneWallet'
  BY <1>1 DEF ServiceInv, OneWallet
<1>6. FreshIsUnspent'
  BY <1>1, <1>2, <1>3 DEF ServiceInv, FreshIsUnspent, OneWallet, S!ChallengeFresh
<1>7. ASSUME NEW n \in spent PROVE issued'[n] = issued[n]
  <2>1. n \in S!Nonces /\ issued \in [S!Nonces -> Nat]
    BY ClientAssumption DEF ServiceInv, HandedOut, S!Nonces
  <2>2. S!Accept(w, nonce, signer) => n # nonce
    BY DEF S!Accept, ServiceInv, FreshIsUnspent
  <2> QED  BY <2>1, <2>2 DEF S!VerifyAndIssueToken
<1> QED  BY <1>4, <1>5, <1>6, <1>7 DEF ServiceInv

LEMMA ExpireKeeps ==
    ASSUME ServiceInv, S!Expire
    PROVE  ServiceInv'
<1>1. PICK n \in expired' :
        /\ n \in 1..asked
        /\ expired' = expired \cup {n} /\ spent' = spent \cup {n}
  BY DEF S!Expire, S!Discarded, ServiceInv, HandedOut
<1>2. challenges' = challenges /\ asked' = asked /\ issued' = issued
  BY DEF S!Expire
<1> QED  BY <1>1, <1>2 DEF ServiceInv, HandedOut, OneWallet, FreshIsUnspent, S!ChallengeFresh

-----------------------------------------------------------------------------
(* Session: every step                                                      *)

LEMMA InitNonces == S!Init => NonceInv
  BY ClientAssumption DEF S!Init, NonceInv, AuthInv, HandedOut, OneWallet, FreshIsUnspent,
                          S!ChallengeFresh, S!Idle

\* A step of the tab, which leaves the service alone.
TabStep ==
    \/ S!Mount \/ S!Reload \/ S!SignIn \/ S!SignMessage \/ S!StoreToken
    \/ S!AuthenticateFail \/ S!Disconnect \/ S!ChangeWallet

LEMMA AuthKeeps ==
    ASSUME NonceInv, S!Next
    PROVE  AuthInv'
<1>1. CASE S!Mount
  BY <1>1 DEF S!Mount, S!serverVars, NonceInv, AuthInv
<1>2. CASE S!Reload
  BY <1>2 DEF S!Reload, S!serverVars, NonceInv, AuthInv, S!Idle
<1>3. CASE S!SignIn
  BY <1>3 DEF S!SignIn, S!serverVars, NonceInv, AuthInv, S!Idle
<1>4. CASE S!GetChallenge
  <2>1. asked' \in Nat
    BY <1>4, ClientAssumption DEF S!GetChallenge, S!GenerateChallenge, NonceInv, HandedOut
  <2> QED  BY <1>4, <2>1 DEF S!GetChallenge, S!GenerateChallenge, NonceInv, AuthInv
<1>5. CASE S!SignMessage
  BY <1>5 DEF S!SignMessage, S!serverVars, NonceInv, AuthInv
<1>6. CASE S!Verify
  <2>1. auth.wallet \in Wallets /\ auth \in [pc : {"idle", "challenge", "sign", "verify", "answer"},
                 wallet : Wallets \cup {None}, nonce : Nat,
                 signer : Wallets \cup {None}, for : Wallets \cup {None}]
    BY <1>6 DEF S!Verify, NonceInv, AuthInv
  <2>2. \A q \in sent' : q.wallet \in Wallets
    BY <1>6, <2>1 DEF S!Verify, S!VerifyAndIssueToken, NonceInv, AuthInv
  <2>3. /\ wallet' = wallet /\ auth'.pc = "answer"
        /\ auth' \in [pc : {"idle", "challenge", "sign", "verify", "answer"},
                 wallet : Wallets \cup {None}, nonce : Nat,
                 signer : Wallets \cup {None}, for : Wallets \cup {None}]
    BY <1>6, <2>1 DEF S!Verify
  <2> QED  BY <2>2, <2>3 DEF NonceInv, AuthInv
<1>7. CASE S!StoreToken \/ S!AuthenticateFail
  BY <1>7 DEF S!StoreToken, S!AuthenticateFail, S!serverVars, NonceInv, AuthInv, S!Idle
<1>8. CASE S!Disconnect
  BY <1>8 DEF S!Disconnect, S!serverVars, NonceInv, AuthInv
<1>9. CASE S!ChangeWallet
  BY <1>9 DEF S!ChangeWallet, S!OnWallet, S!serverVars, NonceInv, AuthInv
<1>10. CASE S!Expire
  BY <1>10 DEF S!Expire, S!tabVars, NonceInv, AuthInv
<1>11. CASE S!AskElsewhere
  BY <1>11 DEF S!AskElsewhere, S!GenerateChallenge, S!tabVars, NonceInv, AuthInv
<1>12. CASE S!Resend
  BY <1>12 DEF S!Resend, S!VerifyAndIssueToken, S!tabVars, NonceInv, AuthInv
<1> QED
  BY <1>1, <1>2, <1>3, <1>4, <1>5, <1>6, <1>7, <1>8, <1>9, <1>10, <1>11, <1>12 DEF S!Next

\* One step keeps the invariant and issues no token for a spent nonce.
LEMMA StepKeeps ==
    ASSUME NonceInv, [S!Next]_<<wallet, S!tabVars, S!serverVars>>
    PROVE  /\ NonceInv'
           /\ \A n \in spent : issued'[n] = issued[n]
<1> ServiceInv
  BY DEF NonceInv, ServiceInv
<1>1. CASE S!GetChallenge
  <2>1. auth.wallet \in Wallets /\ S!GenerateChallenge(auth.wallet)
    BY <1>1 DEF S!GetChallenge, NonceInv, AuthInv
  <2>2. ServiceInv' /\ issued' = issued
    BY <2>1, GenerateKeeps DEF S!GenerateChallenge
  <2> QED  BY <1>1, <2>2, AuthKeeps DEF S!Next, NonceInv, ServiceInv
<1>2. CASE S!AskElsewhere
  <2>1. ServiceInv' /\ issued' = issued
    BY <1>2, GenerateKeeps DEF S!AskElsewhere, S!GenerateChallenge
  <2> QED  BY <1>2, <2>1, AuthKeeps DEF S!Next, NonceInv, ServiceInv
<1>3. CASE S!Verify
  <2>1. auth.wallet \in Wallets /\ S!VerifyAndIssueToken(auth.wallet, auth.nonce, auth.signer)
    BY <1>3 DEF S!Verify, NonceInv, AuthInv
  <2>2. ServiceInv' /\ \A n \in spent : issued'[n] = issued[n]
    BY <2>1, VerifyKeeps
  <2> QED  BY <1>3, <2>2, AuthKeeps DEF S!Next, NonceInv, ServiceInv
<1>4. CASE S!Expire
  <2>1. ServiceInv' /\ issued' = issued
    BY <1>4, ExpireKeeps DEF S!Expire
  <2> QED  BY <1>4, <2>1, AuthKeeps DEF S!Next, NonceInv, ServiceInv
<1>5. CASE TabStep
  <2>1. UNCHANGED S!serverVars
    BY <1>5 DEF TabStep, S!Mount, S!Reload, S!SignIn, S!SignMessage, S!StoreToken,
                S!AuthenticateFail, S!Disconnect, S!ChangeWallet, S!OnWallet
  <2>2. ServiceInv' /\ issued' = issued
    BY <2>1 DEF S!serverVars, ServiceInv, HandedOut, OneWallet, FreshIsUnspent, S!ChallengeFresh
  <2> QED  BY <1>5, <2>2, AuthKeeps DEF TabStep, S!Next, NonceInv, ServiceInv
<1>6. CASE UNCHANGED <<wallet, S!tabVars, S!serverVars>>
  BY <1>6 DEF S!tabVars, S!serverVars, NonceInv, AuthInv, HandedOut, OneWallet,
              FreshIsUnspent, S!ChallengeFresh
<1>7. CASE S!Resend
  <2>1. PICK q \in sent : S!VerifyAndIssueToken(q.wallet, q.nonce, q.signer)
    BY <1>7 DEF S!Resend
  <2>2. q.wallet \in Wallets
    BY <2>1 DEF NonceInv, AuthInv
  <2>3. ServiceInv' /\ \A n \in spent : issued'[n] = issued[n]
    BY <2>1, <2>2, VerifyKeeps
  <2> QED  BY <1>7, <2>3, AuthKeeps DEF S!Next, NonceInv, ServiceInv
<1> QED  BY <1>1, <1>2, <1>3, <1>4, <1>5, <1>6, <1>7 DEF S!Next, TabStep

-----------------------------------------------------------------------------
(* Registration: the inductive invariant                                    *)

\* The page offers to register an agent and a template it has.
PageTyped ==
    /\ form \in R!Form
    /\ form.step # 1 => form.agent \in R!Keypairs
    /\ form.step = 3 => form.template \in Templates
    /\ jobs \in SUBSET R!Job
    /\ clicks \in 0..MaxClicks
    /\ registry \in [R!Keypairs -> R!RegistryAccount]
    /\ wallet \in Wallets \cup {None}

\* The flag lets one call in at a time, and is taken back by the one that has it.
FlagInv == R!OneRegistrationAtATime

\* What a call relies on when it goes on: the checks it has passed.
CallInv ==
    \A j \in jobs :
      /\ j.pc \in {"sign", "send", "confirm", "write"} => j.operator # None
      /\ j.pc = "write" => j.template \in pinned

\* The chain creates a fund with each agent.
ChainInv ==
    \A a \in R!Keypairs :
      registry[a].operator # None => <<registry[a].operator, a>> \in funds

\* The success names an agent of the page.
SuccessInv ==
    /\ R!SuccessIsComplete
    /\ form.success # R!NoSuccess => form.success.agent \in R!Keypairs

RegistrationInv == PageTyped /\ FlagInv /\ CallInv /\ ChainInv /\ SuccessInv

-----------------------------------------------------------------------------
(* Registration: every step                                                 *)

JobPcs == {"hash", "sign", "send", "confirm", "pin", "write"}

\* A call that goes on is the same call at another place.
LEMMA GotoMoves ==
    ASSUME jobs \in SUBSET R!Job, NEW j \in jobs, NEW pc \in JobPcs, R!Goto(j, pc)
    PROVE  \E k \in R!Job :
             /\ k.pc = pc /\ k.operator = j.operator /\ k.agent = j.agent
             /\ k.template = j.template
             /\ jobs' = (jobs \ {j}) \cup {k}
<1> DEFINE k == [j EXCEPT !.pc = pc]
<1>1. j \in R!Job
  OBVIOUS
<1>2. k \in R!Job /\ k.pc = pc /\ k.operator = j.operator /\ k.agent = j.agent
        /\ k.template = j.template
  BY <1>1 DEF R!Job, JobPcs
<1>3. jobs' = (jobs \ {j}) \cup {k}
  BY DEF R!Goto
<1> HIDE DEF k
<1> QED  BY <1>2, <1>3

\* A call that leaves the flag alone, outside register, keeps the flag's invariant.
LEMMA OutsideKeepsFlag ==
    ASSUME FlagInv, form'.inFlight = form.inFlight, R!Registering' = R!Registering
    PROVE  FlagInv'
BY DEF FlagInv, R!OneRegistrationAtATime

\* Nothing the chain or the pinning service has is lost.
LEMMA SuccessStays ==
    ASSUME PageTyped, SuccessInv, form'.success = form.success,
           pinned \subseteq pinned', funds \subseteq funds',
           \A a \in R!Keypairs : registry[a].operator # None =>
             /\ registry'[a].operator = registry[a].operator
             /\ registry'[a].cid = registry[a].cid \/ registry'[a].cid \in pinned'
    PROVE  SuccessInv'
BY DEF SuccessInv, R!SuccessIsComplete, R!Registered, R!NoSuccess

\* The steps of the page, which end no call.
LEMMA PageKeeps ==
    ASSUME RegistrationInv,
           R!Step1Next \/ R!Step2Next \/ R!Back \/ R!Click \/ R!ChangeWallet
    PROVE  RegistrationInv'
<1>0. /\ PageTyped /\ FlagInv /\ CallInv /\ ChainInv /\ SuccessInv
      /\ form \in R!Form /\ MaxAgents \in Nat /\ MaxClicks \in Nat
      /\ jobs \in SUBSET R!Job
  BY ClientAssumption DEF RegistrationInv, PageTyped
<1>1. form'.inFlight = form.inFlight /\ form'.success = form.success
  BY <1>0 DEF R!Step1Next, R!Step2Next, R!Back, R!Click, R!ChangeWallet, R!OnWallet,
              R!registrationVars, R!Form
<1>2. UNCHANGED <<registry, funds, pinned>>
  BY DEF R!Step1Next, R!Step2Next, R!Back, R!Click, R!ChangeWallet, R!OnWallet,
         R!registrationVars, R!chainVars
<1>3. CASE R!Click
  <2> DEFINE k == [pc |-> "hash", id |-> clicks', operator |-> wallet,
                   agent |-> form.agent, template |-> form.template,
                   signature |-> form.signature]
  <2>1. /\ jobs' = jobs \cup {k} /\ k.pc = "hash"
        /\ form' = form /\ wallet' = wallet /\ clicks' = clicks + 1
        /\ clicks < MaxClicks /\ form.step = 3
    BY <1>3 DEF R!Click, R!FormShown
  <2>2. k \in R!Job /\ clicks' \in 0..MaxClicks
    BY <1>0, <2>1 DEF PageTyped, R!Job, R!Form
  <2> HIDE DEF k
  <2>3. PageTyped'
    BY <1>0, <1>2, <2>1, <2>2 DEF PageTyped
  <2>4. R!Registering' = R!Registering
    BY <2>1 DEF R!Registering
  <2>5. CallInv'
    BY <1>0, <1>2, <2>1 DEF CallInv
  <2> QED  BY <1>0, <1>1, <1>2, <2>3, <2>4, <2>5, OutsideKeepsFlag, SuccessStays
           DEF RegistrationInv, ChainInv
<1>4. CASE ~R!Click
  <2>1. jobs' = jobs /\ clicks' = clicks
    BY <1>4 DEF R!Step1Next, R!Step2Next, R!Back, R!ChangeWallet, R!OnWallet,
                R!registrationVars
  <2>2. PageTyped'
    <3>1. CASE R!Step1Next
      <4>1. /\ form' = [form EXCEPT !.agent = @ + 1, !.step = 2, !.signature = FALSE]
            /\ form.agent < MaxAgents /\ wallet' = wallet
        BY <3>1 DEF R!Step1Next
      <4>2. form.agent + 1 \in 1..MaxAgents
        BY <1>0, <4>1 DEF R!Form
      <4>3. form' \in R!Form /\ form'.agent = form.agent + 1 /\ form'.step = 2
        <5> DEFINE agent == form.agent + 1
                   step == 2
        <5>1. agent \in 0..MaxAgents /\ step \in 1..3
          BY <4>2
        <5>2. form' = [form EXCEPT !.agent = agent, !.step = step, !.signature = FALSE]
          BY <4>1
        <5> HIDE DEF agent, step
        <5>3. form' \in R!Form /\ form'.agent = agent /\ form'.step = step
          BY <1>0, <5>1, <5>2 DEF R!Form
        <5> QED  BY <5>3 DEF agent, step
      <4> QED  BY <1>0, <1>2, <2>1, <4>1, <4>2, <4>3 DEF PageTyped, R!Keypairs
    <3>2. CASE R!Step2Next
      <4>1. PICK t \in Templates : form' = [form EXCEPT !.template = t, !.step = 3]
        BY <3>2 DEF R!Step2Next
      <4>2. form.step = 2 /\ wallet' = wallet
        BY <3>2 DEF R!Step2Next
      <4>3. /\ form' \in R!Form /\ form'.agent = form.agent /\ form'.step = 3
            /\ form'.template = t
        <5> DEFINE step == 3
        <5>1. step \in 1..3
          OBVIOUS
        <5>2. form' = [form EXCEPT !.template = t, !.step = step]
          BY <4>1
        <5> HIDE DEF step
        <5>3. /\ form' \in R!Form /\ form'.agent = form.agent /\ form'.step = step
              /\ form'.template = t
          BY <1>0, <5>1, <5>2 DEF R!Form
        <5> QED  BY <5>3 DEF step
      <4> QED  BY <1>0, <1>2, <2>1, <4>2, <4>3 DEF PageTyped
    <3>3. CASE R!Back
      <4>1. form' = [form EXCEPT !.step = @ - 1] /\ form.step \in {2, 3} /\ wallet' = wallet
        BY <3>3 DEF R!Back, R!FormShown
      <4> QED  BY <1>0, <1>2, <2>1, <4>1 DEF PageTyped, R!Form
    <3>4. CASE R!ChangeWallet
      BY <1>0, <1>2, <2>1, <3>4
      DEF R!ChangeWallet, R!OnWallet, R!registrationVars, PageTyped
    <3> QED  BY <1>4, <3>1, <3>2, <3>3, <3>4
  <2>3. R!Registering' = R!Registering
    BY <2>1 DEF R!Registering
  <2>4. CallInv'
    BY <1>0, <1>2, <2>1 DEF CallInv
  <2> QED  BY <1>0, <1>1, <1>2, <2>2, <2>3, <2>4, OutsideKeepsFlag, SuccessStays
           DEF RegistrationInv, ChainInv
<1> QED  BY <1>3, <1>4

\* What a step of a call does to the jobs: the call goes on, or returns.
MovesTo(j, k) == jobs' = (jobs \ {j}) \cup {k}

\* The call j has the flag, and goes on to a place without it or returns.
LEMMA FlagTakenBack ==
    ASSUME FlagInv, NEW j \in R!Registering, ~form'.inFlight, jobs' \subseteq jobs \cup jobs',
           \A k \in jobs' : k.pc \in {"sign", "send", "confirm"} => k \in jobs /\ k # j
    PROVE  FlagInv'
BY DEF FlagInv, R!OneRegistrationAtATime, R!Registering

\* The call j keeps the flag it has.
LEMMA FlagKept ==
    ASSUME FlagInv, NEW j \in R!Registering, NEW k, MovesTo(j, k),
           k.pc \in {"sign", "send", "confirm"}, form'.inFlight = form.inFlight
    PROVE  FlagInv'
BY DEF FlagInv, R!OneRegistrationAtATime, R!Registering, MovesTo

\* A step of a call before and in register.
LEMMA RegisterKeeps ==
    ASSUME RegistrationInv, NEW j \in jobs,
           R!Hashed(j) \/ R!Sign(j) \/ R!Land(j) \/ R!Confirmed(j) \/ R!RegisterFail(j)
    PROVE  RegistrationInv'
<1>0. /\ PageTyped /\ FlagInv /\ CallInv /\ ChainInv /\ SuccessInv
      /\ form \in R!Form /\ jobs \in SUBSET R!Job /\ j \in R!Job
      /\ registry \in [R!Keypairs -> R!RegistryAccount]
  BY DEF RegistrationInv, PageTyped
<1>1. /\ pinned' = pinned /\ clicks' = clicks /\ wallet' = wallet
  BY DEF R!Hashed, R!Sign, R!Land, R!Confirmed, R!RegisterFail
<1>2. CASE R!Hashed(j)
  <2>1. UNCHANGED <<registry, funds>> /\ j.pc = "hash"
    BY <1>2 DEF R!Hashed, R!At, R!chainVars
  <2>2. CASE j.signature
    <3>1. form' = [form EXCEPT !.phase = "uploading"] /\ R!Goto(j, "pin")
      BY <1>2, <2>2 DEF R!Hashed
    <3>2. PICK k \in R!Job : /\ k.pc = "pin" /\ k.operator = j.operator
                             /\ jobs' = (jobs \ {j}) \cup {k}
      BY <1>0, <3>1, GotoMoves DEF JobPcs
    <3>3. /\ form' \in R!Form /\ form'.inFlight = form.inFlight
          /\ form'.success = form.success /\ form'.step = form.step
          /\ form'.agent = form.agent /\ form'.template = form.template
      BY <1>0, <3>1 DEF R!Form, R!Phases
    <3>4. R!Registering' = R!Registering
      BY <2>1, <3>2 DEF R!Registering
    <3>5. PageTyped' /\ CallInv' /\ ChainInv'
      BY <1>0, <1>1, <2>1, <3>2, <3>3 DEF PageTyped, CallInv, ChainInv
    <3> QED  BY <1>0, <1>1, <2>1, <3>3, <3>4, <3>5, OutsideKeepsFlag, SuccessStays
             DEF RegistrationInv
  <2>3. CASE ~j.signature /\ (j.operator = None \/ form.inFlight)
    <3>1. jobs' = jobs \ {j} /\ form' = form
      BY <1>2, <2>3 DEF R!Hashed, R!Register, R!Return
    <3>2. R!Registering' = R!Registering
      BY <2>1, <3>1 DEF R!Registering
    <3>3. PageTyped' /\ CallInv' /\ ChainInv'
      BY <1>0, <1>1, <2>1, <3>1 DEF PageTyped, CallInv, ChainInv
    <3> QED  BY <1>0, <1>1, <2>1, <3>1, <3>2, <3>3, OutsideKeepsFlag, SuccessStays
             DEF RegistrationInv
  <2>4. CASE ~j.signature /\ ~(j.operator = None \/ form.inFlight)
    <3>1. /\ form' = [form EXCEPT !.phase = "registering", !.inFlight = TRUE]
          /\ R!Goto(j, "sign")
      BY <1>2, <2>4 DEF R!Hashed, R!Register
    <3>2. PICK k \in R!Job : /\ k.pc = "sign" /\ k.operator = j.operator
                             /\ jobs' = (jobs \ {j}) \cup {k}
      BY <1>0, <3>1, GotoMoves DEF JobPcs
    <3>3. /\ form' \in R!Form /\ form'.inFlight
          /\ form'.success = form.success /\ form'.step = form.step
          /\ form'.agent = form.agent /\ form'.template = form.template
      BY <1>0, <3>1 DEF R!Form, R!Phases
    <3>4. R!Registering = {}
      BY <1>0, <2>4 DEF FlagInv, R!OneRegistrationAtATime
    <3>5. R!Registering' = {k}
      BY <3>2, <3>4 DEF R!Registering
    <3>6. PageTyped' /\ CallInv' /\ ChainInv'
      BY <1>0, <1>1, <2>1, <2>4, <3>2, <3>3 DEF PageTyped, CallInv, ChainInv
    <3>7. FlagInv'
      BY <3>3, <3>5 DEF FlagInv, R!OneRegistrationAtATime
    <3> QED  BY <1>0, <1>1, <2>1, <3>3, <3>6, <3>7, SuccessStays DEF RegistrationInv
  <2> QED  BY <2>2, <2>3, <2>4
<1>3. CASE R!Sign(j)
  <2>1. /\ UNCHANGED <<registry, funds, form>> /\ j.pc = "sign" /\ R!Goto(j, "send")
    BY <1>3 DEF R!Sign, R!At, R!chainVars
  <2>2. PICK k \in R!Job : /\ k.pc = "send" /\ k.operator = j.operator
                           /\ jobs' = (jobs \ {j}) \cup {k}
    BY <1>0, <2>1, GotoMoves DEF JobPcs
  <2>3. PageTyped' /\ CallInv' /\ ChainInv'
    BY <1>0, <1>1, <2>1, <2>2 DEF PageTyped, CallInv, ChainInv
  <2>4. FlagInv'
    BY <1>0, <2>1, <2>2, FlagKept DEF MovesTo, R!Registering
  <2> QED  BY <1>0, <1>1, <2>1, <2>3, <2>4, SuccessStays DEF RegistrationInv
<1>4. CASE R!Land(j)
  <2>1. /\ form' = form /\ j.pc = "send" /\ R!Goto(j, "confirm")
        /\ registry[j.agent].operator = None
        /\ registry' = [registry EXCEPT ![j.agent].operator = j.operator,
                                        ![j.agent].hash = j.template]
        /\ funds' = funds \cup {<<j.operator, j.agent>>}
    BY <1>4 DEF R!Land, R!At
  <2>2. PICK k \in R!Job : /\ k.pc = "confirm" /\ k.operator = j.operator
                           /\ jobs' = (jobs \ {j}) \cup {k}
    BY <1>0, <2>1, GotoMoves DEF JobPcs
  <2>3. j.agent \in R!Keypairs /\ j.operator \in Wallets \cup {None} /\ j.template \in Templates
    BY <1>0 DEF R!Job
  <2>4. /\ registry'[j.agent].operator = j.operator
        /\ \A a \in R!Keypairs \ {j.agent} : registry'[a] = registry[a]
    BY <1>0, <2>1, <2>3 DEF R!RegistryAccount
  <2>5. registry' \in [R!Keypairs -> R!RegistryAccount]
    BY <1>0, <2>1, <2>3 DEF R!RegistryAccount
  <2>6. PageTyped' /\ CallInv'
    BY <1>0, <1>1, <2>1, <2>2, <2>5 DEF PageTyped, CallInv
  <2>7. ChainInv'
    BY <1>0, <2>1, <2>4 DEF ChainInv
  <2>8. FlagInv'
    BY <1>0, <2>1, <2>2, FlagKept DEF MovesTo, R!Registering
  <2>9. SuccessInv'
    BY <1>0, <1>1, <2>1, <2>4, SuccessStays
  <2> QED  BY <2>6, <2>7, <2>8, <2>9 DEF RegistrationInv
<1>5. CASE R!Confirmed(j)
  <2>1. /\ form' = [form EXCEPT !.signature = TRUE, !.inFlight = FALSE,
                                !.phase = "uploading"]
        /\ j.pc = "confirm" /\ R!Goto(j, "pin") /\ UNCHANGED <<registry, funds>>
    BY <1>5 DEF R!Confirmed, R!At, R!chainVars
  <2>2. PICK k \in R!Job : /\ k.pc = "pin" /\ k.operator = j.operator
                           /\ jobs' = (jobs \ {j}) \cup {k}
    BY <1>0, <2>1, GotoMoves DEF JobPcs
  <2>3. /\ form' \in R!Form /\ ~form'.inFlight
        /\ form'.success = form.success /\ form'.step = form.step
        /\ form'.agent = form.agent /\ form'.template = form.template
    BY <1>0, <2>1 DEF R!Form, R!Phases
  <2>4. PageTyped' /\ CallInv' /\ ChainInv'
    BY <1>0, <1>1, <2>1, <2>2, <2>3 DEF PageTyped, CallInv, ChainInv
  <2>5. FlagInv'
    BY <1>0, <2>1, <2>2, <2>3, FlagTakenBack DEF R!Registering
  <2> QED  BY <1>0, <1>1, <2>1, <2>3, <2>4, <2>5, SuccessStays DEF RegistrationInv
<1>6. CASE R!RegisterFail(j)
  <2>1. /\ form' = [form EXCEPT !.phase = "error", !.inFlight = FALSE]
        /\ j.pc \in {"sign", "send", "confirm"} /\ jobs' = jobs \ {j}
        /\ UNCHANGED <<registry, funds>>
    BY <1>6 DEF R!RegisterFail, R!At, R!chainVars, R!Return
  <2>2. /\ form' \in R!Form /\ ~form'.inFlight
        /\ form'.success = form.success /\ form'.step = form.step
        /\ form'.agent = form.agent /\ form'.template = form.template
    BY <1>0, <2>1 DEF R!Form, R!Phases
  <2>3. PageTyped' /\ CallInv' /\ ChainInv'
    BY <1>0, <1>1, <2>1, <2>2 DEF PageTyped, CallInv, ChainInv
  <2>4. FlagInv'
    BY <1>0, <2>1, <2>2, FlagTakenBack DEF R!Registering
  <2> QED  BY <1>0, <1>1, <2>1, <2>2, <2>3, <2>4, SuccessStays DEF RegistrationInv
<1> QED  BY <1>2, <1>3, <1>4, <1>5, <1>6

\* A step of a call that pins the manifest or writes its CID.
LEMMA WriteKeeps ==
    ASSUME RegistrationInv, NEW j \in jobs,
           R!Pin(j) \/ R!PinFail(j) \/ R!Write(j) \/ R!WriteFail(j)
    PROVE  RegistrationInv'
<1>0. /\ PageTyped /\ FlagInv /\ CallInv /\ ChainInv /\ SuccessInv
      /\ form \in R!Form /\ jobs \in SUBSET R!Job /\ j \in R!Job
      /\ registry \in [R!Keypairs -> R!RegistryAccount]
  BY DEF RegistrationInv, PageTyped
<1>1. /\ clicks' = clicks /\ wallet' = wallet /\ funds' = funds
      /\ j.pc \in {"pin", "write"} /\ pinned \subseteq pinned'
  BY DEF R!Pin, R!PinFail, R!Write, R!WriteFail, R!chainVars, R!At
<1>2. /\ form' \in R!Form /\ form'.inFlight = form.inFlight /\ form'.step = form.step
      /\ form'.agent = form.agent /\ form'.template = form.template
  <2>1. CASE R!Pin(j)
    BY <1>0, <2>1 DEF R!Pin, R!Form, R!Phases
  <2>2. CASE R!PinFail(j) \/ R!WriteFail(j)
    BY <1>0, <2>2 DEF R!PinFail, R!WriteFail, R!Form, R!Phases
  <2>3. CASE R!Write(j)
    <3>1. [agent |-> j.agent, template |-> j.template]
            \in [agent : 0..MaxAgents, template : Templates \cup {None}]
      BY <1>0, ClientAssumption DEF R!Job, R!Keypairs
    <3> QED  BY <1>0, <2>3, <3>1 DEF R!Write, R!Form, R!Phases
  <2> QED  BY <2>1, <2>2, <2>3
<1>3. CASE R!Pin(j) /\ j.operator # None
  <2>1. R!Goto(j, "write") /\ UNCHANGED registry /\ j.pc = "pin"
          /\ j.template \in pinned' /\ form'.success = form.success
    BY <1>0, <1>3 DEF R!Pin, R!chainVars, R!At, R!Form
  <2>2. PICK k \in R!Job : /\ k.pc = "write" /\ k.operator = j.operator
                           /\ k.template = j.template
                           /\ jobs' = (jobs \ {j}) \cup {k}
    BY <1>0, <2>1, GotoMoves DEF JobPcs
  <2>3. R!Registering' = R!Registering
    BY <2>1, <2>2 DEF R!Registering
  <2>4. PageTyped' /\ CallInv' /\ ChainInv'
    BY <1>0, <1>1, <1>2, <1>3, <2>1, <2>2 DEF PageTyped, CallInv, ChainInv
  <2> QED  BY <1>0, <1>1, <1>2, <2>1, <2>3, <2>4, OutsideKeepsFlag, SuccessStays
           DEF RegistrationInv
<1>4. CASE ~(R!Pin(j) /\ j.operator # None)
  <2>1. jobs' = jobs \ {j}
    BY <1>4 DEF R!Pin, R!PinFail, R!Write, R!WriteFail, R!Return
  <2>2. R!Registering' = R!Registering
    BY <1>1, <2>1 DEF R!Registering
  <2>3. CASE ~R!Write(j) /\ UNCHANGED registry
    <3>1. form'.success = form.success
      BY <1>0, <1>4, <2>3 DEF R!Pin, R!PinFail, R!WriteFail, R!Form
    <3>2. PageTyped' /\ CallInv' /\ ChainInv'
      BY <1>0, <1>1, <1>2, <2>1, <2>3 DEF PageTyped, CallInv, ChainInv
    <3> QED  BY <1>0, <1>1, <2>2, <1>2, <2>3, <3>1, <3>2, OutsideKeepsFlag, SuccessStays
             DEF RegistrationInv
  <2>4. CASE R!Write(j) \/ (R!WriteFail(j) /\ R!WriteCid(j))
    <3>1. /\ j.pc = "write" /\ pinned' = pinned /\ j.template \in pinned
          /\ j.operator # None
      BY <1>0, <2>4 DEF R!Write, R!WriteFail, R!At, CallInv
    <3>2. /\ registry[j.agent].operator = j.operator
          /\ registry' = [registry EXCEPT ![j.agent].cid = j.template]
          /\ j.agent \in R!Keypairs /\ j.template \in Templates
      BY <1>0, <2>4 DEF R!Write, R!WriteFail, R!WriteCid, R!Job
    <3>3. /\ registry' \in [R!Keypairs -> R!RegistryAccount]
          /\ registry'[j.agent].cid = j.template
          /\ \A a \in R!Keypairs : registry'[a].operator = registry[a].operator
          /\ \A a \in R!Keypairs \ {j.agent} : registry'[a] = registry[a]
      BY <1>0, <3>2 DEF R!RegistryAccount
    <3>4. PageTyped' /\ CallInv' /\ ChainInv'
      BY <1>0, <1>1, <1>2, <2>1, <3>1, <3>3 DEF PageTyped, CallInv, ChainInv
    <3>5. CASE form'.success = form.success
      <4>1. \A a \in R!Keypairs : registry[a].operator # None =>
              /\ registry'[a].operator = registry[a].operator
              /\ registry'[a].cid = registry[a].cid \/ registry'[a].cid \in pinned'
        BY <3>1, <3>3
      <4>2. SuccessInv'
        BY <1>0, <1>1, <3>5, <4>1, SuccessStays
      <4> QED  BY <1>0, <1>2, <2>2, <3>4, <4>2, OutsideKeepsFlag DEF RegistrationInv
    <3>6. CASE form'.success # form.success
      <4>1. form'.success = [agent |-> j.agent, template |-> j.template]
        BY <1>0, <2>4, <3>6 DEF R!Write, R!WriteFail, R!Form
      <4>2. form'.success.agent = j.agent
        BY <4>1
      <4>3. registry'[j.agent].operator = j.operator /\ <<j.operator, j.agent>> \in funds'
        BY <1>0, <1>1, <3>1, <3>2, <3>3 DEF ChainInv
      <4>4. SuccessInv'
        BY <3>1, <3>2, <3>3, <4>2, <4>3 DEF SuccessInv, R!SuccessIsComplete, R!Registered
      <4> QED  BY <1>0, <1>2, <2>2, <3>4, <4>4, OutsideKeepsFlag DEF RegistrationInv
    <3> QED  BY <3>5, <3>6
  <2>5. ASSUME ~R!Write(j)
        PROVE  UNCHANGED registry \/ (R!WriteFail(j) /\ R!WriteCid(j))
    <3>1. CASE R!Pin(j) \/ R!PinFail(j)
      BY <3>1 DEF R!Pin, R!PinFail, R!chainVars
    <3>2. CASE R!WriteFail(j)
      BY <3>2 DEF R!WriteFail
    <3> QED  BY <2>5, <3>1, <3>2
  <2> QED  BY <2>3, <2>4, <2>5
<1> QED  BY <1>3, <1>4

\* The page of the registration keeps its invariant.
LEMMA RegistrationKeeps ==
    ASSUME RegistrationInv, R!Next
    PROVE  RegistrationInv'
<1>1. CASE R!Step1Next \/ R!Step2Next \/ R!Back \/ R!Click \/ R!ChangeWallet
  BY <1>1, PageKeeps
<1>2. CASE \E j \in jobs : R!JobStep(j)
  BY <1>2, RegisterKeeps, WriteKeeps DEF R!JobStep
<1> QED  BY <1>1, <1>2 DEF R!Next

\* Nothing of it is disturbed while another page is open.
LEMMA RegistrationRests ==
    ASSUME RegistrationInv, UNCHANGED registrationVars, wallet' \in Wallets \cup {None}
    PROVE  RegistrationInv'
BY DEF RegistrationInv, registrationVars, PageTyped, FlagInv,
       R!OneRegistrationAtATime, R!Registering, CallInv, ChainInv, SuccessInv,
       R!SuccessIsComplete, R!Registered

LEMMA InitRegistration ==
    ASSUME R!Init
    PROVE  RegistrationInv
<1>1. form \in R!Form /\ form.step = 1 /\ ~form.inFlight /\ form.success = R!NoSuccess
  BY ClientAssumption DEF R!Init, R!Form, R!Phases, R!NoSuccess
<1>2. PageTyped
  BY <1>1, ClientAssumption DEF R!Init, PageTyped, R!RegistryAccount
<1>3. ChainInv
  BY DEF R!Init, ChainInv
<1> QED  BY <1>1, <1>2, <1>3
         DEF R!Init, RegistrationInv, FlagInv, R!OneRegistrationAtATime, R!Registering,
             CallInv, SuccessInv, R!SuccessIsComplete

-----------------------------------------------------------------------------
(* Challenging: the inductive invariant                                     *)

\* What a request that is not cancelled will still set is empty, and the modal
\* asks for nothing it does not show.
ModalInv ==
    /\ selected \in Attestations \cup {None}
    /\ receipt \in {None, selected}
    /\ fetches \in SUBSET [of : Attestations, cancelled : BOOLEAN]
    /\ \A f \in fetches :
         ~f.cancelled => selected # None /\ f.of = selected /\ receipt = None
    /\ challengeStep = "confirming" => selected # None /\ receipt # None

\* A filing goes on with the attestation and the task it was begun for.
FilingInv ==
    /\ filings \in SUBSET C!Filing
    /\ begun \in 0..MaxFilings
    /\ \A f \in filings : f.task = f.attestation

\* A request that is not cancelled is for the wallet that is connected.
PendingInv ==
    /\ wallet \in Wallets \cup {None}
    /\ requests \in SUBSET [of : Wallets, cancelled : BOOLEAN, id : 1..MaxPending]
    /\ tick \in 0..MaxPending
    /\ pending \in SUBSET Attestations
    /\ challenger \in [Attestations -> Wallets \cup {None}]
    /\ indexed \in SUBSET Attestations
    /\ \A t \in indexed : challenger[t] # None
    /\ \A r \in requests : ~r.cancelled => r.of = wallet
    /\ C!PendingIsOfWallet

ChallengingInv == ModalInv /\ FilingInv /\ PendingInv

-----------------------------------------------------------------------------
(* Challenging: every step                                                  *)

\* The clean-up of the requests for receipts leaves none that counts.
LEMMA FetchesCancelled ==
    ASSUME fetches \in SUBSET [of : Attestations, cancelled : BOOLEAN]
    PROVE  /\ C!Cancelled(fetches) \in SUBSET [of : Attestations, cancelled : BOOLEAN]
           /\ \A f \in C!Cancelled(fetches) : f.cancelled
<1> SUFFICES ASSUME NEW f \in fetches
             PROVE  /\ [f EXCEPT !.cancelled = TRUE]
                          \in [of : Attestations, cancelled : BOOLEAN]
                    /\ [f EXCEPT !.cancelled = TRUE].cancelled
  BY DEF C!Cancelled
<1> QED  OBVIOUS

\* So does the clean-up of those for the pending challenges.
LEMMA RequestsCancelled ==
    ASSUME PendingInv
    PROVE  /\ C!Cancelled(requests)
                \in SUBSET [of : Wallets, cancelled : BOOLEAN, id : 1..MaxPending]
           /\ \A r \in C!Cancelled(requests) : r.cancelled
<1> SUFFICES ASSUME NEW r \in requests
             PROVE  /\ [r EXCEPT !.cancelled = TRUE]
                          \in [of : Wallets, cancelled : BOOLEAN, id : 1..MaxPending]
                    /\ [r EXCEPT !.cancelled = TRUE].cancelled
  BY DEF C!Cancelled
<1>1. r \in [of : Wallets, cancelled : BOOLEAN, id : 1..MaxPending]
  BY DEF PendingInv
<1> QED  BY <1>1

\* The effect asks for the pending challenges of the wallet it runs for.
LEMMA RefetchKeeps ==
    ASSUME PendingInv, wallet' \in Wallets \cup {None}, C!Refetch(wallet'),
           UNCHANGED <<challenger, indexed>>
    PROVE  PendingInv'
<1>1. /\ tick' = tick + 1 /\ tick < MaxPending /\ tick \in 0..MaxPending
      /\ MaxPending \in Nat
  BY ClientAssumption DEF C!Refetch, PendingInv
<1>2. /\ C!Cancelled(requests)
           \in SUBSET [of : Wallets, cancelled : BOOLEAN, id : 1..MaxPending]
      /\ \A r \in C!Cancelled(requests) : r.cancelled
  BY RequestsCancelled
<1>3. CASE wallet' = None
  <2>1. pending' = {} /\ requests' = C!Cancelled(requests)
    BY <1>3 DEF C!Refetch
  <2> QED  BY <1>1, <1>2, <2>1 DEF PendingInv, C!PendingIsOfWallet
<1>4. CASE wallet' # None
  <2> DEFINE r == [of |-> wallet', cancelled |-> FALSE, id |-> tick']
  <2>1. requests' = C!Cancelled(requests) \cup {r} /\ pending' = pending
    BY <1>4 DEF C!Refetch
  <2>2. /\ r \in [of : Wallets, cancelled : BOOLEAN, id : 1..MaxPending]
        /\ ~r.cancelled /\ r.of = wallet'
    BY <1>1, <1>4
  <2> HIDE DEF r
  <2>3. /\ requests' \in SUBSET [of : Wallets, cancelled : BOOLEAN, id : 1..MaxPending]
        /\ r \in requests'
        /\ \A s \in requests' : ~s.cancelled => s.of = wallet'
    BY <1>2, <2>1, <2>2
  <2>4. C!PendingIsOfWallet'
    BY <2>1, <2>2, <2>3 DEF PendingInv, C!PendingIsOfWallet
  <2> QED  BY <1>1, <2>1, <2>3, <2>4 DEF PendingInv
<1> QED  BY <1>3, <1>4

\* What the modal does, and what it is answered.
LEMMA ModalKeeps ==
    ASSUME ChallengingInv,
           \/ C!Open \/ C!Close \/ C!ReceiptAnswer \/ C!ReceiptFail
           \/ C!Ask \/ C!BackToIdle \/ C!Confirm
    PROVE  ChallengingInv'
<1>0. /\ ModalInv /\ FilingInv /\ PendingInv /\ None \notin Attestations
      /\ MaxFilings \in Nat
      /\ fetches \in SUBSET [of : Attestations, cancelled : BOOLEAN]
  BY ClientAssumption DEF ChallengingInv, ModalInv
<1>1. PendingInv'
  BY <1>0 DEF C!Open, C!Close, C!ReceiptAnswer, C!ReceiptFail, C!Ask, C!BackToIdle,
              C!Confirm, C!pendingVars, C!worldVars, PendingInv, C!PendingIsOfWallet
<1>2. CASE ~C!Confirm
  <2>1. filings' = filings /\ begun' = begun
    BY <1>2 DEF C!Open, C!Close, C!ReceiptAnswer, C!ReceiptFail, C!Ask, C!BackToIdle
  <2>2. FilingInv'
    BY <1>0, <2>1 DEF FilingInv
  <2>3. ModalInv'
    <3>1. CASE C!Open
      <4>1. PICK a \in Attestations :
              /\ selected' = a
              /\ fetches' = fetches \cup {[of |-> a, cancelled |-> FALSE]}
        BY <3>1 DEF C!Open
      <4> DEFINE f == [of |-> a, cancelled |-> FALSE]
      <4>2. /\ selected = None /\ challengeStep' = "idle" /\ receipt' = None
            /\ \A g \in fetches : g.cancelled
        BY <1>0, <3>1 DEF C!Open, ModalInv
      <4>3. /\ f \in [of : Attestations, cancelled : BOOLEAN] /\ f.of = a
            /\ fetches' = fetches \cup {f}
        BY <4>1
      <4> HIDE DEF f
      <4>4. /\ fetches' \in SUBSET [of : Attestations, cancelled : BOOLEAN]
            /\ \A g \in fetches' : ~g.cancelled => g.of = a
        BY <1>0, <4>2, <4>3
      <4> QED  BY <1>0, <4>1, <4>2, <4>4 DEF ModalInv
    <3>2. CASE C!Close
      BY <1>0, <3>2, FetchesCancelled DEF C!Close, ModalInv
    <3>3. CASE C!ReceiptAnswer
      BY <1>0, <3>3 DEF C!ReceiptAnswer, ModalInv
    <3>4. CASE C!ReceiptFail
      BY <1>0, <3>4 DEF C!ReceiptFail, ModalInv
    <3>5. CASE C!Ask
      BY <1>0, <3>5 DEF C!Ask, C!CanChallenge, ModalInv
    <3>6. CASE C!BackToIdle
      BY <1>0, <3>6 DEF C!BackToIdle, ModalInv
    <3> QED  BY <1>2, <3>1, <3>2, <3>3, <3>4, <3>5, <3>6
  <2> QED  BY <1>1, <2>2, <2>3 DEF ChallengingInv
<1>3. CASE C!Confirm
  <2> DEFINE f == [pc |-> "sign", id |-> begun', wallet |-> wallet,
                   attestation |-> selected, task |-> receipt]
  <2>1. /\ selected # None /\ wallet # None /\ challengeStep = "confirming"
        /\ begun < MaxFilings /\ begun' = begun + 1 /\ filings' = filings \cup {f}
        /\ challengeStep' = "signing" /\ UNCHANGED <<selected, receipt, fetches>>
    BY <1>3 DEF C!Confirm
  <2>2. /\ receipt = selected /\ selected \in Attestations /\ wallet \in Wallets
        /\ begun' \in 1..MaxFilings
    BY <1>0, <2>1 DEF ModalInv, PendingInv, FilingInv
  <2>3. f \in C!Filing /\ f.task = f.attestation
    BY <2>2 DEF C!Filing
  <2> HIDE DEF f
  <2>4. FilingInv'
    BY <1>0, <2>1, <2>2, <2>3 DEF FilingInv
  <2>5. ModalInv'
    BY <1>0, <2>1 DEF ModalInv
  <2> QED  BY <1>1, <2>4, <2>5 DEF ChallengingInv
<1> QED  BY <1>2, <1>3

\* A filing that goes on is for the same task, wallet and attestation.
LEMMA FilingGoesOn ==
    ASSUME FilingInv, NEW f \in filings, NEW pc \in {"sign", "send", "confirm"},
           C!Goto(f, pc), begun' = begun
    PROVE  FilingInv'
<1> DEFINE g == [f EXCEPT !.pc = pc]
<1>1. f \in C!Filing /\ f.task = f.attestation
  BY DEF FilingInv
<1>2. g \in C!Filing /\ g.task = f.task /\ g.attestation = f.attestation
  BY <1>1 DEF C!Filing
<1>3. filings' = (filings \ {f}) \cup {g}
  BY DEF C!Goto
<1> HIDE DEF g
<1> QED  BY <1>1, <1>2, <1>3 DEF FilingInv

\* What a filing does.
LEMMA FilingKeeps ==
    ASSUME ChallengingInv, NEW f \in filings, C!FilingStep(f)
    PROVE  ChallengingInv'
<1>0. ModalInv /\ FilingInv /\ PendingInv /\ f \in C!Filing
  BY DEF ChallengingInv, FilingInv
<1>1. ModalInv'
  <2>1. UNCHANGED <<selected, receipt, fetches>>
    BY DEF C!FilingStep, C!Sign, C!Land, C!Refuse, C!Confirmed, C!FileFail
  <2>2. challengeStep' = challengeStep \/ challengeStep' # "confirming"
    BY DEF C!FilingStep, C!Sign, C!Land, C!Refuse, C!Confirmed, C!FileFail
  <2> QED  BY <1>0, <2>1, <2>2 DEF ModalInv
<1>2. FilingInv'
  <2>1. CASE C!Sign(f)
    BY <1>0, <2>1, FilingGoesOn DEF C!Sign
  <2>2. CASE C!Land(f)
    BY <1>0, <2>2, FilingGoesOn DEF C!Land
  <2>3. CASE C!Refuse(f)
    BY <1>0, <2>3, FilingGoesOn DEF C!Refuse
  <2>4. CASE C!Confirmed(f) \/ C!FileFail(f)
    BY <1>0, <2>4 DEF C!Confirmed, C!FileFail, FilingInv
  <2> QED  BY <2>1, <2>2, <2>3, <2>4 DEF C!FilingStep
<1>3. PendingInv'
  <2>1. CASE C!Sign(f) \/ C!Refuse(f) \/ C!FileFail(f)
    BY <1>0, <2>1 DEF C!Sign, C!Refuse, C!FileFail, C!pendingVars, C!worldVars,
                      PendingInv, C!PendingIsOfWallet
  <2>2. CASE C!Land(f)
    <3>1. /\ challenger[f.task] = None /\ f.task \in Attestations /\ f.wallet \in Wallets
          /\ challenger' = [challenger EXCEPT ![f.task] = f.wallet]
          /\ UNCHANGED <<wallet, pending, requests, tick, indexed>>
      BY <1>0, <2>2 DEF C!Land, C!pendingVars, C!Filing
    <3>2. /\ challenger' \in [Attestations -> Wallets \cup {None}]
          /\ \A t \in Attestations : challenger[t] # None => challenger'[t] = challenger[t]
      BY <1>0, <3>1 DEF PendingInv
    <3> QED  BY <1>0, <3>1, <3>2 DEF PendingInv, C!PendingIsOfWallet
  <2>3. CASE C!Confirmed(f)
    <3>1. wallet' = wallet /\ C!Refetch(wallet) /\ UNCHANGED <<challenger, indexed>>
      BY <2>3 DEF C!Confirmed, C!worldVars
    <3>2. wallet' \in Wallets \cup {None} /\ C!Refetch(wallet')
      BY <1>0, <3>1 DEF PendingInv
    <3> QED  BY <1>0, <3>1, <3>2, RefetchKeeps
  <2> QED  BY <2>1, <2>2, <2>3 DEF C!FilingStep
<1> QED  BY <1>1, <1>2, <1>3 DEF ChallengingInv

\* What the context is answered, the wallet, and the API.
LEMMA ContextKeeps ==
    ASSUME ChallengingInv,
           C!PendingAnswer \/ C!PendingFail \/ C!ChangeWallet \/ C!Index
    PROVE  ChallengingInv'
<1>0. ModalInv /\ FilingInv /\ PendingInv
  BY DEF ChallengingInv
<1>1. UNCHANGED C!modalVars
  BY DEF C!PendingAnswer, C!PendingFail, C!ChangeWallet, C!OnWallet, C!Index
<1>2. ModalInv' /\ FilingInv'
  BY <1>0, <1>1 DEF C!modalVars, ModalInv, FilingInv
<1>3. CASE C!PendingAnswer
  <2>1. PICK r \in requests :
          /\ requests' = requests \ {r}
          /\ pending' = IF r.cancelled THEN pending ELSE C!UnresolvedOf(r.of)
    BY <1>3 DEF C!PendingAnswer
  <2>2. UNCHANGED <<wallet, tick, challenger, indexed, decided>>
    BY <1>3 DEF C!PendingAnswer, C!worldVars
  <2>3. CASE r.cancelled
    <3>1. requests' = requests \ {r} /\ pending' = pending
      BY <2>1, <2>3
    <3>2. PendingInv'
      BY <1>0, <2>2, <2>3, <3>1 DEF PendingInv, C!PendingIsOfWallet
    <3> QED  BY <1>2, <3>2 DEF ChallengingInv
  <2>4. CASE ~r.cancelled
    <3>1. /\ pending' \subseteq indexed
          /\ \A t \in pending' : challenger[t] = wallet
      BY <1>0, <2>1, <2>4 DEF PendingInv, C!UnresolvedOf
    <3>2. requests' \subseteq requests /\ indexed \subseteq Attestations
      BY <1>0, <2>1 DEF PendingInv
    <3>3. PendingInv'
      BY <1>0, <2>2, <3>1, <3>2 DEF PendingInv, C!PendingIsOfWallet
    <3> QED  BY <1>2, <3>3 DEF ChallengingInv
  <2> QED  BY <2>3, <2>4
<1>4. CASE C!PendingFail
  <2>1. PICK r \in requests :
          /\ requests' = requests \ {r}
          /\ pending' = IF r.cancelled THEN pending ELSE {}
    BY <1>4 DEF C!PendingFail
  <2>2. UNCHANGED <<wallet, tick, challenger, indexed, decided>>
    BY <1>4 DEF C!PendingFail, C!worldVars
  <2>3. PendingInv'
    BY <1>0, <2>1, <2>2 DEF PendingInv, C!PendingIsOfWallet
  <2> QED  BY <1>2, <2>3 DEF ChallengingInv
<1>5. CASE C!ChangeWallet
  BY <1>0, <1>2, <1>5, RefetchKeeps
  DEF C!ChangeWallet, C!OnWallet, C!worldVars, ChallengingInv
<1>6. CASE C!Index
  <2>1. /\ UNCHANGED <<wallet, pending, requests, tick, challenger>>
        /\ indexed' \in SUBSET Attestations
        /\ \A t \in indexed' : challenger[t] # None
    BY <1>0, <1>6 DEF C!Index, C!pendingVars, PendingInv
  <2>2. PendingInv'
    BY <1>0, <2>1 DEF PendingInv, C!PendingIsOfWallet
  <2> QED  BY <1>2, <2>2 DEF ChallengingInv
<1> QED  BY <1>3, <1>4, <1>5, <1>6

LEMMA ChallengingKeeps ==
    ASSUME ChallengingInv, C!Next
    PROVE  ChallengingInv'
BY ModalKeeps, FilingKeeps, ContextKeeps DEF C!Next

\* Where no challenge is pending and none is asked for, the wallet may change.
LEMMA ChallengingRests ==
    ASSUME ChallengingInv, UNCHANGED challengingVars, wallet' \in Wallets \cup {None},
           wallet' = wallet \/ (requests = {} /\ pending = {})
    PROVE  ChallengingInv'
BY DEF ChallengingInv, challengingVars, ModalInv, FilingInv, PendingInv,
       C!PendingIsOfWallet

LEMMA InitChallenging ==
    ASSUME C!Init
    PROVE  ChallengingInv
BY ClientAssumption
DEF C!Init, ChallengingInv, ModalInv, FilingInv, PendingInv, C!PendingIsOfWallet

-----------------------------------------------------------------------------
(* Browsing: the inductive invariant                                        *)

Q == [filter : Agents \cup {None}, offset : Int]

\* While nothing has gone astray, only the query of the page is under way.
ListInv ==
    /\ list \in [query : Q, rows : Q, loading : BOOLEAN, hasMore : BOOLEAN]
    /\ listLoads \in SUBSET Q
    /\ ~astray.list => \A q \in listLoads : q = list.query

\* And only the rows of the connected wallet.
OwnedInv == ~astray.owned => \A w \in ownedLoads : w = wallet

BrowsingInv ==
    /\ astray \in [list : BOOLEAN, owned : BOOLEAN]
    /\ ListInv /\ OwnedInv /\ RowsAreOfPage

-----------------------------------------------------------------------------
(* Browsing: every step                                                     *)

\* What the page of the owned rows shows is left alone, and the wallet too.
LEMMA OwnedRests ==
    ASSUME BrowsingInv, UNCHANGED <<ownedVars, wallet>>, astray'.owned = astray.owned
    PROVE  /\ OwnedInv'
           /\ ownedLoads' = {} /\ ~astray'.owned => owned' \in {None, wallet'}
BY DEF BrowsingInv, OwnedInv, RowsAreOfPage, ownedVars

\* The list is left alone.
LEMMA ListRests ==
    ASSUME BrowsingInv, UNCHANGED listVars, astray'.list = astray.list
    PROVE  /\ ListInv'
           /\ listLoads' = {} /\ ~astray'.list => list'.rows = list'.query
BY DEF BrowsingInv, ListInv, RowsAreOfPage, listVars

\* A page is loaded: what was under way goes astray.
LEMMA LoadKeeps ==
    ASSUME BrowsingInv, NEW q \in Q, LoadPage(q)
    PROVE  BrowsingInv'
<1>0. /\ list \in [query : Q, rows : Q, loading : BOOLEAN, hasMore : BOOLEAN]
      /\ listLoads \in SUBSET Q /\ astray \in [list : BOOLEAN, owned : BOOLEAN]
  BY DEF BrowsingInv, ListInv
<1>1. /\ listLoads' = listLoads \cup {q}
      /\ list' = [list EXCEPT !.query = q, !.loading = TRUE]
      /\ astray' = [astray EXCEPT !.list = listLoads # {}]
      /\ UNCHANGED <<wallet, ownedVars>>
  BY DEF LoadPage, Load
<1>2. /\ list' \in [query : Q, rows : Q, loading : BOOLEAN, hasMore : BOOLEAN]
      /\ list'.query = q
      /\ astray' \in [list : BOOLEAN, owned : BOOLEAN]
      /\ astray'.list = (listLoads # {}) /\ astray'.owned = astray.owned
  BY <1>0, <1>1
<1>3. ListInv'
  BY <1>0, <1>1, <1>2 DEF ListInv
<1>4. listLoads' # {}
  BY <1>1
<1> QED  BY <1>1, <1>2, <1>3, <1>4, OwnedRests DEF BrowsingInv, RowsAreOfPage

LEMMA ListKeeps ==
    ASSUME BrowsingInv, ListNext
    PROVE  BrowsingInv'
<1>0. /\ list \in [query : Q, rows : Q, loading : BOOLEAN, hasMore : BOOLEAN]
      /\ listLoads \in SUBSET Q /\ astray \in [list : BOOLEAN, owned : BOOLEAN]
      /\ list.query \in Q /\ PAGE_SIZE \in Nat
      /\ ListInv
  BY BrowsingAssumption DEF BrowsingInv, ListInv
<1>1. CASE ApplyFilter
  <2>1. PICK f \in Agents \cup {None} : LoadPage([filter |-> f, offset |-> 0])
    BY <1>1 DEF ApplyFilter
  <2>2. [filter |-> f, offset |-> 0] \in Q
    BY DEF Q
  <2> QED  BY <2>1, <2>2, LoadKeeps
<1>2. CASE PrevPage \/ NextPage
  <2>1. PICK n \in Int : LoadPage([list.query EXCEPT !.offset = n])
    <3>1. list.query.offset \in Int
      BY <1>0 DEF Q
    <3>2. CASE PrevPage
      <4> DEFINE n == IF list.query.offset < PAGE_SIZE THEN 0
                      ELSE list.query.offset - PAGE_SIZE
      <4>1. n \in Int /\ LoadPage([list.query EXCEPT !.offset = n])
        BY <1>0, <3>1, <3>2 DEF PrevPage
      <4> QED  BY <4>1
    <3>3. CASE NextPage
      <4> DEFINE n == list.query.offset + PAGE_SIZE
      <4>1. n \in Int /\ LoadPage([list.query EXCEPT !.offset = n])
        BY <1>0, <3>1, <3>3 DEF NextPage
      <4> QED  BY <4>1
    <3> QED  BY <1>2, <3>2, <3>3
  <2>2. [list.query EXCEPT !.offset = n] \in Q
    BY <1>0 DEF Q
  <2> QED  BY <2>1, <2>2, LoadKeeps
<1>3. CASE ReapplyFilter
  <2>1. /\ list' = [list EXCEPT !.query.offset = 0] /\ listLoads' = listLoads
        /\ astray' = [astray EXCEPT !.list = @ \/ list.query.offset # 0]
        /\ UNCHANGED <<wallet, ownedVars>>
    BY <1>3 DEF ReapplyFilter
  <2>2. /\ list'.query = [list.query EXCEPT !.offset = 0] /\ list'.rows = list.rows
        /\ list'.loading = list.loading /\ list'.hasMore = list.hasMore
    BY <1>0, <2>1
  <2>3. /\ [list.query EXCEPT !.offset = 0] \in Q
        /\ list.query.offset = 0 => [list.query EXCEPT !.offset = 0] = list.query
    BY <1>0 DEF Q
  <2>4. list' \in [query : Q, rows : Q, loading : BOOLEAN, hasMore : BOOLEAN]
    <3> DEFINE p == [list.query EXCEPT !.offset = 0]
    <3>1. p \in Q /\ list' = [list EXCEPT !.query = p]
      BY <1>0, <2>1, <2>3
    <3> HIDE DEF p
    <3> QED  BY <1>0, <3>1
  <2>5. /\ astray' \in [list : BOOLEAN, owned : BOOLEAN]
        /\ astray'.list = (astray.list \/ list.query.offset # 0)
        /\ astray'.owned = astray.owned
    BY <1>0, <2>1
  <2>6. ~astray'.list => ~astray.list /\ list'.query = list.query
    BY <2>2, <2>3, <2>5
  <2>7. ListInv' /\ (listLoads' = {} /\ ~astray'.list => list'.rows = list'.query)
    BY <1>0, <2>1, <2>2, <2>4, <2>6 DEF BrowsingInv, ListInv, RowsAreOfPage
  <2> QED  BY <2>1, <2>5, <2>7, OwnedRests DEF BrowsingInv, RowsAreOfPage
<1>4. CASE ListAnswer
  <2>1. PICK q \in listLoads :
          /\ listLoads' = listLoads \ {q}
          /\ list' = [list EXCEPT !.rows = q, !.hasMore = Full(q), !.loading = FALSE]
    BY <1>4 DEF ListAnswer
  <2>2. UNCHANGED <<wallet, ownedVars, astray>>
    BY <1>4 DEF ListAnswer
  <2>3. q \in Q /\ Full(q) \in BOOLEAN
    BY <1>0 DEF Full
  <2>4. /\ list' \in [query : Q, rows : Q, loading : BOOLEAN, hasMore : BOOLEAN]
        /\ list'.query = list.query /\ list'.rows = q
    BY <1>0, <2>1, <2>3
  <2>5. ListInv' /\ (listLoads' = {} /\ ~astray'.list => list'.rows = list'.query)
    BY <1>0, <2>1, <2>2, <2>4 DEF ListInv
  <2> QED  BY <2>2, <2>5, OwnedRests DEF BrowsingInv, RowsAreOfPage
<1>5. CASE ListFail
  <2>1. PICK q \in listLoads : listLoads' = listLoads \ {q}
    BY <1>5 DEF ListFail
  <2>2. /\ list' = [list EXCEPT !.loading = FALSE]
        /\ astray' = [astray EXCEPT !.list = TRUE]
        /\ UNCHANGED <<wallet, ownedVars>>
    BY <1>5 DEF ListFail
  <2>3. /\ list' \in [query : Q, rows : Q, loading : BOOLEAN, hasMore : BOOLEAN]
        /\ astray' \in [list : BOOLEAN, owned : BOOLEAN]
        /\ astray'.list /\ astray'.owned = astray.owned
    BY <1>0, <2>2
  <2>4. ListInv'
    BY <1>0, <2>1, <2>3 DEF ListInv
  <2> QED  BY <2>2, <2>3, <2>4, OwnedRests DEF BrowsingInv, RowsAreOfPage
<1> QED  BY <1>1, <1>2, <1>3, <1>4, <1>5 DEF ListNext

\* The rows the wallet owns.
LEMMA OwnedKeeps ==
    ASSUME BrowsingInv, OwnedNext, UNCHANGED wallet
    PROVE  BrowsingInv'
<1>1. UNCHANGED <<listVars, astray>>
  BY DEF OwnedNext, OwnedAnswer, OwnedFail
<1>2. PICK w \in ownedLoads : /\ ownedLoads' = ownedLoads \ {w}
                              /\ owned' \in {w, None}
  BY DEF OwnedNext, OwnedAnswer, OwnedFail
<1>3. OwnedInv' /\ (~astray'.owned => owned' \in {None, wallet'})
  BY <1>1, <1>2 DEF BrowsingInv, OwnedInv
<1> QED  BY <1>1, <1>3, ListRests DEF BrowsingInv, RowsAreOfPage

LEMMA LoadOwnedKeeps ==
    ASSUME BrowsingInv, LoadOwned, UNCHANGED listVars
    PROVE  BrowsingInv'
<1>1. /\ astray' = [astray EXCEPT !.owned = ownedLoads # {}]
      /\ astray \in [list : BOOLEAN, owned : BOOLEAN]
  BY DEF LoadOwned, BrowsingInv
<1>2. /\ astray' \in [list : BOOLEAN, owned : BOOLEAN]
      /\ astray'.owned = (ownedLoads # {}) /\ astray'.list = astray.list
  BY <1>1
<1>3. \/ owned' = None /\ ownedLoads' = ownedLoads
      \/ ownedLoads' = ownedLoads \cup {wallet'}
  BY DEF LoadOwned
<1>4. OwnedInv' /\ (ownedLoads' = {} /\ ~astray'.owned => owned' \in {None, wallet'})
  BY <1>2, <1>3 DEF OwnedInv
<1> QED  BY <1>2, <1>4, ListRests DEF BrowsingInv, RowsAreOfPage

\* Where the wallet owns no rows, it may change.
LEMMA BrowsingRests ==
    ASSUME BrowsingInv, UNCHANGED <<listVars, ownedVars, astray>>,
           wallet' = wallet \/ (ownedLoads = {} /\ owned = None)
    PROVE  BrowsingInv'
BY DEF BrowsingInv, listVars, ownedVars, ListInv, OwnedInv, RowsAreOfPage

-----------------------------------------------------------------------------
(* The client                                                               *)

\* The pages that are not open ask for nothing of the wallet and show nothing.
ClientInv ==
    /\ NonceInv /\ RegistrationInv /\ ChallengingInv /\ BrowsingInv
    /\ page # "challenge" => requests = {} /\ pending = {}
    /\ page # "owned" => ownedLoads = {} /\ owned = None

LEMMA NonceRests ==
    ASSUME NonceInv, UNCHANGED sessionVars, wallet' \in Wallets \cup {None}
    PROVE  NonceInv'
BY DEF NonceInv, sessionVars, AuthInv, HandedOut, OneWallet, FreshIsUnspent,
       S!ChallengeFresh

LEMMA ClientInitKeeps ==
    ASSUME ClientInit
    PROVE  ClientInv
<1>1. list.query \in Q /\ NoRows \in Q
  BY DEF ClientInit, Init, Q, NoRows
<1>2. BrowsingInv /\ ownedLoads = {} /\ owned = None
  BY <1>1 DEF ClientInit, Init, BrowsingInv, ListInv, OwnedInv, RowsAreOfPage
<1> QED  BY <1>2, InitNonces, InitRegistration, InitChallenging
         DEF ClientInit, ClientInv, C!Init

LEMMA ClientStep ==
    ASSUME ClientInv, ClientNext
    PROVE  /\ ClientInv'
           /\ \A n \in spent : issued'[n] = issued[n]
<1>0. /\ NonceInv /\ RegistrationInv /\ ChallengingInv /\ BrowsingInv /\ page' = page
      /\ wallet \in Wallets \cup {None}
  BY DEF ClientInv, ClientNext, NonceInv, AuthInv
<1>1. CASE SessionStep
  <2>1. page = "session" /\ S!Next
          /\ UNCHANGED <<registrationVars, challengingVars, browsingVars>>
    BY <1>1 DEF SessionStep
  <2>2. NonceInv' /\ \A n \in spent : issued'[n] = issued[n]
    BY <1>0, <2>1, StepKeeps
  <2>3. wallet' \in Wallets \cup {None}
    BY <2>2 DEF NonceInv, AuthInv
  <2>4. RegistrationInv'
    BY <1>0, <2>1, <2>3, RegistrationRests
  <2>5. requests = {} /\ pending = {} /\ ownedLoads = {} /\ owned = None
    BY <2>1 DEF ClientInv
  <2>6. ChallengingInv'
    BY <1>0, <2>1, <2>3, <2>5, ChallengingRests
  <2>7. BrowsingInv'
    BY <1>0, <2>1, <2>5, BrowsingRests DEF browsingVars
  <2> QED  BY <1>0, <2>1, <2>2, <2>4, <2>5, <2>6, <2>7
           DEF ClientInv, challengingVars, browsingVars, ownedVars
<1>2. CASE RegistrationStep
  <2>1. page = "register" /\ R!Next
          /\ UNCHANGED <<sessionVars, challengingVars, browsingVars>>
    BY <1>2 DEF RegistrationStep
  <2>2. RegistrationInv'
    BY <1>0, <2>1, RegistrationKeeps
  <2>3. wallet' \in Wallets \cup {None}
    BY <2>2 DEF RegistrationInv, PageTyped
  <2>4. NonceInv' /\ issued' = issued
    BY <1>0, <2>1, <2>3, NonceRests DEF sessionVars
  <2>5. requests = {} /\ pending = {} /\ ownedLoads = {} /\ owned = None
    BY <2>1 DEF ClientInv
  <2>6. ChallengingInv'
    BY <1>0, <2>1, <2>3, <2>5, ChallengingRests
  <2>7. BrowsingInv'
    BY <1>0, <2>1, <2>5, BrowsingRests DEF browsingVars
  <2> QED  BY <1>0, <2>1, <2>2, <2>4, <2>5, <2>6, <2>7
           DEF ClientInv, challengingVars, browsingVars, ownedVars
<1>3. CASE ChallengingStep
  <2>1. page = "challenge" /\ C!Next
          /\ UNCHANGED <<sessionVars, registrationVars, browsingVars>>
    BY <1>3 DEF ChallengingStep
  <2>2. ChallengingInv'
    BY <1>0, <2>1, ChallengingKeeps
  <2>3. wallet' \in Wallets \cup {None}
    BY <2>2 DEF ChallengingInv, PendingInv
  <2>4. NonceInv' /\ issued' = issued
    BY <1>0, <2>1, <2>3, NonceRests DEF sessionVars
  <2>5. ownedLoads = {} /\ owned = None
    BY <2>1 DEF ClientInv
  <2>6. RegistrationInv'
    BY <1>0, <2>1, <2>3, RegistrationRests
  <2>7. BrowsingInv'
    BY <1>0, <2>1, <2>5, BrowsingRests DEF browsingVars
  <2> QED  BY <1>0, <2>1, <2>2, <2>4, <2>5, <2>6, <2>7
           DEF ClientInv, browsingVars, ownedVars
<1>4. ASSUME wallet' \in Wallets \cup {None}, BrowsingInv',
             UNCHANGED <<sessionVars, registrationVars, challengingVars>>,
             page # "challenge",
             page # "owned" => ownedLoads' = {} /\ owned' = None
      PROVE  /\ ClientInv'
             /\ \A n \in spent : issued'[n] = issued[n]
  <2>1. NonceInv' /\ issued' = issued
    BY <1>0, <1>4, NonceRests DEF sessionVars
  <2>2. RegistrationInv'
    BY <1>0, <1>4, RegistrationRests
  <2>3. requests = {} /\ pending = {}
    BY <1>4 DEF ClientInv
  <2>4. ChallengingInv'
    BY <1>0, <1>4, <2>3, ChallengingRests
  <2> QED  BY <1>0, <1>4, <2>1, <2>2, <2>3, <2>4 DEF ClientInv, challengingVars
<1>5. CASE BrowsingStep
  <2>1. /\ wallet' = wallet /\ NextOf(page)
        /\ UNCHANGED <<sessionVars, registrationVars, challengingVars>>
    BY <1>5 DEF BrowsingStep
  <2>2. page # "owned" => ownedLoads = {} /\ owned = None
    BY DEF ClientInv
  <2>3. CASE page = "tasks" /\ TasksNext
    <3>1. UNCHANGED <<listVars, ownedVars, astray>>
      BY <2>3 DEF TasksNext, AgentsAnswer, LoadAgent, Tick, TasksAnswer, TasksFail
    <3> QED  BY <1>0, <1>4, <2>1, <2>2, <2>3, <3>1, BrowsingRests DEF ownedVars
  <2>4. CASE page = "list" /\ ListNext
    <3>1. UNCHANGED ownedVars
      BY <2>4 DEF ListNext, ApplyFilter, ReapplyFilter, PrevPage, NextPage, ListAnswer,
                  ListFail, LoadPage, Load
    <3> QED  BY <1>0, <1>4, <2>1, <2>2, <2>4, <3>1, ListKeeps DEF ownedVars
  <2>5. CASE page = "owned" /\ OwnedNext
    BY <1>0, <1>4, <2>1, <2>5, OwnedKeeps
  <2> QED  BY <2>1, <2>3, <2>4, <2>5 DEF NextOf
<1>6. CASE BrowsingWallet
  <2>1. /\ wallet' \in Wallets \cup {None} /\ OnWalletOf(page)
        /\ UNCHANGED <<sessionVars, registrationVars, challengingVars>>
    BY <1>6 DEF BrowsingWallet
  <2>2. page # "owned" => ownedLoads = {} /\ owned = None
    BY DEF ClientInv
  <2>3. CASE page = "owned" /\ LoadOwned /\ UNCHANGED <<taskVars, listVars>>
    BY <1>0, <1>4, <2>1, <2>3, LoadOwnedKeeps
  <2>4. CASE page \in {"tasks", "list"} /\ UNCHANGED <<listVars, ownedVars, astray>>
    BY <1>0, <1>4, <2>1, <2>2, <2>4, BrowsingRests DEF ownedVars
  <2> QED  BY <2>1, <2>3, <2>4 DEF OnWalletOf, browsingVars
<1> QED  BY <1>1, <1>2, <1>3, <1>5, <1>6 DEF ClientNext

LEMMA ClientInvariant == ClientInv /\ [ClientNext]_clientVars => ClientInv'
<1> SUFFICES ASSUME ClientInv, UNCHANGED clientVars PROVE ClientInv'
  BY ClientStep
<1>1. UNCHANGED <<wallet, page, sessionVars, registrationVars, challengingVars,
                  listVars, ownedVars, astray>>
  BY DEF clientVars, browsingVars
<1>2. wallet' \in Wallets \cup {None}
  BY <1>1 DEF ClientInv, NonceInv, AuthInv
<1> QED  BY <1>1, <1>2, NonceRests, RegistrationRests, ChallengingRests, BrowsingRests
         DEF ClientInv, challengingVars, ownedVars

\* The invariant of the client holds in every state of every page.
THEOREM ClientCorrect == ClientSpec => []ClientInv
<1>1. ClientInit => ClientInv
  BY ClientInitKeeps
<1> QED  BY <1>1, ClientInvariant, PTL DEF ClientSpec

\* A nonce that was replaced, has expired or has been used gives no token,
\* however many sign-ins overlap and whichever messages are sent again.
THEOREM NonceCorrect == ClientSpec => SpentNonceIsRefused
<1>1. ClientInv /\ [ClientNext]_clientVars
        => [\A n \in spent : issued'[n] = issued[n]]_<<spent, issued>>
  <2>1. ASSUME UNCHANGED clientVars PROVE UNCHANGED <<spent, issued>>
    BY <2>1 DEF clientVars, sessionVars
  <2> QED  BY <2>1, ClientStep
<1> QED  BY <1>1, ClientCorrect, PTL DEF ClientSpec, SpentNonceIsRefused, S!SpentNonceIsRefused

\* An agent the page declares registered is, with its fund and a pinned manifest.
THEOREM SuccessCorrect == ClientSpec => []SuccessIsComplete
<1>1. ClientInv => SuccessIsComplete
  BY DEF ClientInv, RegistrationInv, SuccessInv, SuccessIsComplete
<1> QED  BY <1>1, ClientCorrect, PTL

\* The wallet never has two transactions of register to sign.
THEOREM RegisterCorrect == ClientSpec => []OneRegistrationAtATime
<1>1. ClientInv => OneRegistrationAtATime
  BY DEF ClientInv, RegistrationInv, FlagInv, OneRegistrationAtATime
<1> QED  BY <1>1, ClientCorrect, PTL

\* A challenge names the task of the attestation it was asked for.
THEOREM ChallengeCorrect == ClientSpec => []ChallengeNamesItsTask
<1>1. ClientInv => ChallengeNamesItsTask
  BY DEF ClientInv, ChallengingInv, ModalInv, FilingInv, ChallengeNamesItsTask,
         C!ChallengeNamesItsTask
<1> QED  BY <1>1, ClientCorrect, PTL

\* The pending challenges are those of the wallet once nothing is being asked.
THEOREM PendingCorrect == ClientSpec => []PendingIsOfWallet
<1>1. ClientInv => PendingIsOfWallet
  BY DEF ClientInv, ChallengingInv, PendingInv, PendingIsOfWallet
<1> QED  BY <1>1, ClientCorrect, PTL

\* The rows are those of the offset, the filter or the wallet the page shows.
THEOREM RowsCorrect == ClientSpec => []RowsAreOfPage
<1>1. ClientInv => RowsAreOfPage
  BY DEF ClientInv, BrowsingInv
<1> QED  BY <1>1, ClientCorrect, PTL

=============================================================================
