----------------------------- MODULE Registration -----------------------------
(***************************************************************************)
(* The page that registers an agent: its three steps, the hook             *)
(* useAgentRegistration, and the chain and the pinning service it calls.   *)
(*                                                                         *)
(* A click on "Register Agent" starts handleRegister, which goes on with   *)
(* the wallet, keypair, template and signature of the render it was        *)
(* clicked in; a job is such a call between two awaits.  A keypair and its *)
(* agent are a number, a capability hash and a CID are those of a template.*)
(***************************************************************************)
EXTENDS Integers

CONSTANTS
    Wallets,             \* operators
    None,                \* no wallet, no template
    Templates,           \* CAPABILITY_TEMPLATES
    MaxAgents,           \* bound: keypairs generated
    MaxClicks            \* bound: calls of handleRegister

VARIABLES
    wallet,              \* the connected account
    form,                \* state of RegisterPage and of the hook
    jobs,                \* calls of handleRegister in progress
    clicks,              \* calls so far
    registry,            \* agent -> its RegistryAccount
    funds,               \* operator and agent of each fund
    pinned               \* templates whose manifest is pinned

chainVars == <<registry, funds>>
registrationVars == <<form, jobs, clicks, chainVars, pinned>>

Keypairs == 1..MaxAgents

Phases == {"idle", "registering", "uploading", "writing_cid", "done", "error"}

\* success is registrationSuccess: the agent of the call that set it, and the
\* template of the CID it shows.
NoSuccess == [agent |-> 0, template |-> None]

Form ==
    [step      : 1..3,
     agent     : 0..MaxAgents,
     template  : Templates \cup {None},
     phase     : Phases,
     signature : BOOLEAN,
     inFlight  : BOOLEAN,
     success   : [agent : 0..MaxAgents, template : Templates \cup {None}]]

Job ==
    [pc        : {"hash", "sign", "send", "confirm", "pin", "write"},
     id        : 1..MaxClicks,
     operator  : Wallets \cup {None},
     agent     : Keypairs,
     template  : Templates,
     signature : BOOLEAN]

RegistryAccount ==
    [operator : Wallets \cup {None}, hash : Templates \cup {None},
     cid : Templates \cup {None}]

TypeOK ==
    /\ wallet \in Wallets \cup {None}
    /\ form \in Form
    /\ jobs \in SUBSET Job
    /\ clicks \in 0..MaxClicks
    /\ registry \in [Keypairs -> RegistryAccount]
    /\ funds \in SUBSET (Wallets \X Keypairs)
    /\ pinned \in SUBSET Templates

Init ==
    /\ wallet = None
    /\ form = [step |-> 1, agent |-> 0, template |-> None, phase |-> "idle",
               signature |-> FALSE, inFlight |-> FALSE, success |-> NoSuccess]
    /\ jobs = {}
    /\ clicks = 0
    /\ registry = [a \in Keypairs |-> [operator |-> None, hash |-> None, cid |-> None]]
    /\ funds = {}
    /\ pinned = {}

-----------------------------------------------------------------------------
(* The steps of the page                                                    *)

Loading == form.phase \notin {"idle", "done", "error"}

\* generateAgent; the signature of the agent before is forgotten.
Step1Next ==
    /\ form.step = 1 /\ wallet # None
    /\ form.agent < MaxAgents
    /\ form' = [form EXCEPT !.agent = @ + 1, !.step = 2, !.signature = FALSE]
    /\ UNCHANGED <<wallet, jobs, clicks, chainVars, pinned>>

\* The first of the chosen templates counts.
Step2Next ==
    /\ form.step = 2
    /\ \E t \in Templates : form' = [form EXCEPT !.template = t, !.step = 3]
    /\ UNCHANGED <<wallet, jobs, clicks, chainVars, pinned>>

\* What the third step offers unless it shows the success.
FormShown == form.step = 3 /\ form.success = NoSuccess

Back ==
    /\ \/ form.step = 2
       \/ FormShown /\ ~Loading
    /\ form' = [form EXCEPT !.step = @ - 1]
    /\ UNCHANGED <<wallet, jobs, clicks, chainVars, pinned>>

-----------------------------------------------------------------------------
(* handleRegister                                                           *)

Goto(j, pc) == jobs' = (jobs \ {j}) \cup {[j EXCEPT !.pc = pc]}

Return(j) == jobs' = jobs \ {j}

At(j, pc) == j \in jobs /\ j.pc = pc

\* Until the hash is computed nothing tells the page that it is loading.
Click ==
    /\ FormShown /\ ~Loading
    /\ clicks < MaxClicks
    /\ clicks' = clicks + 1
    /\ jobs' = jobs \cup {[pc |-> "hash", id |-> clicks', operator |-> wallet,
                           agent |-> form.agent, template |-> form.template,
                           signature |-> form.signature]}
    /\ UNCHANGED <<wallet, form, chainVars, pinned>>

RegisterAnyway(j) ==                     \* mutation: isInFlight is not looked at
    /\ form' = [form EXCEPT !.phase = "registering", !.inFlight = TRUE]
    /\ Goto(j, "sign")

\* register: nothing without a wallet, nor while another call is in it.
Register(j) ==
    IF j.operator = None \/ form.inFlight
    THEN Return(j) /\ UNCHANGED form
    ELSE /\ form' = [form EXCEPT !.phase = "registering", !.inFlight = TRUE]
         /\ Goto(j, "sign")

\* Phase 1 is skipped when the page has a signature.
Hashed(j) ==
    /\ At(j, "hash")
    /\ IF j.signature
       THEN form' = [form EXCEPT !.phase = "uploading"] /\ Goto(j, "pin")
       ELSE Register(j)
    /\ UNCHANGED <<wallet, clicks, chainVars, pinned>>

\* The keypair signs, then the wallet, if it has the account it had.
Sign(j) ==
    /\ At(j, "sign")
    /\ wallet = j.operator
    /\ Goto(j, "send")
    /\ UNCHANGED <<wallet, form, clicks, chainVars, pinned>>

\* The transaction of register_agent and initialize_fund lands.
Land(j) ==
    /\ At(j, "send")
    /\ registry[j.agent].operator = None
    /\ registry' = [registry EXCEPT ![j.agent].operator = j.operator,
                                    ![j.agent].hash = j.template]
    /\ funds' = funds \cup {<<j.operator, j.agent>>}
    /\ Goto(j, "confirm")
    /\ UNCHANGED <<wallet, form, clicks, pinned>>

\* The end of register and of its finally: the signature is kept.
Confirmed(j) ==
    /\ At(j, "confirm")
    /\ form' = [form EXCEPT !.signature = TRUE, !.inFlight = FALSE, !.phase = "uploading"]
    /\ Goto(j, "pin")
    /\ UNCHANGED <<wallet, clicks, chainVars, pinned>>

\* The wallet declines, the transaction does not land, or it has landed and no
\* answer says so.
RegisterFail(j) ==
    /\ At(j, "sign") \/ At(j, "send") \/ At(j, "confirm")
    /\ form' = [form EXCEPT !.phase = "error", !.inFlight = FALSE]
    /\ Return(j)
    /\ UNCHANGED <<wallet, clicks, chainVars, pinned>>

PinUnchecked(j) ==                       \* mutation: response.ok is not looked at
    /\ At(j, "pin") /\ j.operator # None
    /\ pinned' \in {pinned, pinned \cup {j.template}}
    /\ form' = [form EXCEPT !.phase = "writing_cid"]
    /\ Goto(j, "write")
    /\ UNCHANGED <<wallet, clicks, chainVars>>

\* pinManifest answers, and writeArweaveCid begins: without a wallet it throws
\* before it has set a phase, and nothing else sets one.
Pin(j) ==
    /\ At(j, "pin")
    /\ pinned' = pinned \cup {j.template}
    /\ \/ /\ j.operator = None
          /\ Return(j)
          /\ UNCHANGED form
       \/ /\ j.operator # None
          /\ form' = [form EXCEPT !.phase = "writing_cid"]
          /\ Goto(j, "write")
    /\ UNCHANGED <<wallet, clicks, chainVars>>

\* The manifest may have been pinned when the request fails.
PinFail(j) ==
    /\ At(j, "pin")
    /\ pinned' \in {pinned, pinned \cup {j.template}}
    /\ form' = [form EXCEPT !.phase = "error"]
    /\ Return(j)
    /\ UNCHANGED <<wallet, clicks, chainVars>>

\* write_arweave_cid, which the operator of the agent signs.
WriteCid(j) ==
    /\ wallet = j.operator /\ registry[j.agent].operator = j.operator
    /\ registry' = [registry EXCEPT ![j.agent].cid = j.template]

Write(j) ==
    /\ At(j, "write")
    /\ WriteCid(j)
    /\ form' = [form EXCEPT !.phase = "done",
                            !.success = [agent |-> j.agent, template |-> j.template]]
    /\ Return(j)
    /\ UNCHANGED <<wallet, clicks, funds, pinned>>

\* It may have landed when the call fails.
WriteFail(j) ==
    /\ At(j, "write")
    /\ UNCHANGED registry \/ WriteCid(j)
    /\ form' = [form EXCEPT !.phase = "error"]
    /\ Return(j)
    /\ UNCHANGED <<wallet, clicks, funds, pinned>>

OnWallet == UNCHANGED registrationVars

ChangeWallet ==
    /\ \E w \in (Wallets \cup {None}) \ {wallet} : wallet' = w
    /\ OnWallet

JobStep(j) ==
    \/ Hashed(j) \/ Sign(j) \/ Land(j) \/ Confirmed(j) \/ RegisterFail(j)
    \/ Pin(j) \/ PinFail(j) \/ Write(j) \/ WriteFail(j)

Next ==
    \/ Step1Next \/ Step2Next \/ Back \/ Click \/ ChangeWallet
    \/ \E j \in jobs : JobStep(j)

-----------------------------------------------------------------------------
(* Properties that hold                                                     *)

Registered(a) == registry[a].operator # None

\* Whatever the user clicks, retries and goes back to, and whatever fails and
\* is answered late: an agent the page declares registered is, it has its fund,
\* and the CID on chain is that of a manifest that was pinned.
SuccessIsComplete ==
    LET s == form.success
    IN  s # NoSuccess =>
          /\ Registered(s.agent)
          /\ <<registry[s.agent].operator, s.agent>> \in funds
          /\ registry[s.agent].cid \in pinned

\* The calls of register between two awaits.
Registering == {j \in jobs : j.pc \in {"sign", "send", "confirm"}}

\* Clicks in the moment before the page shows that it is loading, and clicks
\* for another keypair, return while a transaction of register is under way: the
\* wallet never has two of them to sign, and the flag is taken back whichever way
\* the call ends.  The transaction of writeArweaveCid has no such flag: of two
\* clicks that both skip phase 1 each asks the wallet to sign one ("write").
OneRegistrationAtATime ==
    /\ \A j, k \in Registering : j = k
    /\ form.inFlight <=> Registering # {}

-----------------------------------------------------------------------------
(* Properties a comment states, and the code breaks                         *)

\* "Lock capability template on-chain (immutable)": the hash on chain is that
\* of the manifest the agent is shown with.
HashIsOfManifest ==
    form.success # NoSuccess =>
      registry[form.success.agent].hash = registry[form.success.agent].cid

\* "skipped on retry if already succeeded": the page can retry what failed,
\* so it never shows that it is loading with nothing under way.
LoadingHasWork == Loading => jobs # {}

\* "skipped on retry if already succeeded": phase 1 is skipped for an agent
\* that is registered.
SkipsOnlyWhatSucceeded ==
    \A j \in jobs : j.pc \in {"pin", "write"} => Registered(j.agent)

=============================================================================
